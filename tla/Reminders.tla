------------------------------ MODULE Reminders ------------------------------
(***************************************************************************)
(* Personal reminder settings of one browser in one room                   *)
(* (src/reminders/identity.py, policies.py, api/reminders.py,              *)
(* api/reminder_policies.py): the installation, its enrollment and the     *)
(* grant that a room token gave it, the policies of the room, of one list  *)
(* and of one item of it, and the instants before which reminders stay     *)
(* off.                                                                    *)
(*                                                                         *)
(* Every handler is one write transaction.  What races is its author: a    *)
(* setting is composed on what the page showed, and other tabs, a sign-out *)
(* or a new password come first.  A refused op and a repeated one change   *)
(* nothing, and are not actions.  Time is counted in steps of the server's *)
(* clock.                                                                  *)
(***************************************************************************)
EXTENDS Integers, Sequences, FiniteSetsExt

CONSTANTS OpIds,       \* op_ids, one for each change that is composed
          Presets,     \* the modes in use, of MODES
          Times,       \* times of day, for summaries and for all-day items
          Zones,       \* time zones
          Customs,     \* what custom policies run: [rules, summary]
          None,        \* no row, no cookie, not given
          Lifetime,    \* DEVICE_LIFETIME and ROOM_TOKEN_LIFETIME
          MaxTime, MaxTokens, MaxVersion, MaxDevices \* bounds of the runs

ASSUME KnownPresets ==
    /\ Presets \subseteq {"quiet", "daily_summary", "scheduled", "custom"}
    /\ "daily_summary" \in Presets
ASSUME LifetimeIsPositive == Lifetime \in Nat \ {0}
ASSUME Bounds == MaxTime \in Nat /\ MaxTokens \in Nat \ {0} /\ MaxVersion \in Nat /\ MaxDevices \in Nat

VARIABLES now,        \* the server's clock
          version,    \* the room's authorization_version
          tokens,     \* the room tokens this browser was given
          cookie,     \* its room cookie: the token it holds
          device,     \* the installation its device cookie names
          enrollment, \* that installation's row of reminder_enrollments
          policies,   \* that installation's rows of reminder_policies
          item,       \* the list's item
          drafts,     \* what its tabs showed as they composed a change
          done        \* reminder_processed_ops of that installation

vars == <<now, version, tokens, cookie, device, enrollment, policies, item, drafts, done>>
access == <<version, tokens, cookie>>

Scopes == {"room", "list", "item"}
DefaultMode == "daily_summary"
DefaultTime == CHOOSE time \in Times : TRUE
Scheduled   == {"calendar_1", "at_due"}
NoPolicies  == [scope \in Scopes |-> None]

\* The rows, with their columns' types.
Moment == 0..MaxTime
DeviceRow == [id : Nat, revision : Nat, zone : Zones, allDay : Times,
              expires : Nat, anchorAt : Moment, zoneAt : Moment]
EnrollmentRow == [token : Nat, version : Nat, status : {"active", "opted_out", "revoked"},
                  mode : Presets, time : Times, revision : Nat, activatedAt : Moment,
                  expires : Nat, policyAt : Moment, timeAt : Moment]
PolicyRow == [state : {"inherit", "off", "replace"}, preset : Presets \cup {None},
              summary : BOOLEAN, rules : {custom.rules : custom \in Customs} \cup {{}, Scheduled},
              revision : Nat, at : Moment]

ASSUME NoneIsNoRow ==
    None \notin DeviceRow \cup EnrollmentRow \cup PolicyRow \cup Presets \cup Nat
ASSUME BodiesAreTyped == Times # {} /\ \A custom \in Customs : custom.summary \in BOOLEAN

-----------------------------------------------------------------------------
(* Room tokens and the saved grant.                                        *)

\* The token opens the room.
Live(token) ==
    /\ token # None
    /\ tokens[token].state = "live" /\ tokens[token].version = version

Access == Live(cookie)

\* The browser's device cookie names an installation that has not expired.
Known == device # None /\ now < device.expires

\* The state of the grant; it may differ from the stored status.
GrantState ==
    IF enrollment = None THEN "not_enrolled"
    ELSE IF enrollment.status = "opted_out" THEN "opted_out"
    ELSE IF /\ enrollment.status = "active"
            /\ now < device.expires /\ now < enrollment.expires
            /\ Live(enrollment.token) /\ enrollment.version = version
         THEN "active" ELSE "needs_resume"

\* The grant ends with the device or with its token's year.
GrantExpiry(token) == Min({now + Lifetime, tokens[token].created + Lifetime})

\* Variant: a lost token is left to the checks at use time.
CutNothing(enrolled) == enrolled

\* Variant: a cut leaves the revision alone.
CutQuietly(enrolled) ==
    IF enrolled # None /\ enrolled.status = "active"
    THEN [enrolled EXCEPT !.status = "revoked"] ELSE enrolled

\* A sign-out or a new password: an active enrollment needs a resume.
Cut(enrolled) ==
    IF enrolled # None /\ enrolled.status = "active"
    THEN [enrolled EXCEPT !.status = "revoked", !.revision = @ + 1]
    ELSE enrolled

-----------------------------------------------------------------------------
(* Policies.                                                               *)

PresetRules(preset)   == IF preset = "scheduled" THEN Scheduled ELSE {}
PresetSummary(preset) == preset = "daily_summary"

\* The policy of a scope, with the defaults that hold while it has no row.  The
\* room's preset is the enrollment's mode and is not stored with the row.
OwnPolicy(scope, enrolled) ==
    LET row    == policies[scope]
        preset == IF scope = "room" THEN enrolled.mode
                  ELSE IF row = None THEN None ELSE row.preset
    IN  IF row # None THEN [row EXCEPT !.preset = preset]
        ELSE [state    |-> IF scope = "room" THEN "replace" ELSE "inherit",
              preset   |-> preset,
              summary  |-> PresetSummary(preset),
              rules    |-> PresetRules(preset),
              revision |-> 0,
              at       |-> IF scope = "room" THEN enrolled.policyAt ELSE None]

\* The row a policy is saved in; a reset is saved like any other policy.
SavedRow(scope, row, state, preset, summary, rules) ==
    [state    |-> state,
     preset   |-> IF scope = "room" THEN None ELSE preset,
     summary  |-> summary,
     rules    |-> rules,
     revision |-> IF row = None THEN 1 ELSE row.revision + 1,
     at       |-> now]

\* Variant: a reset removes the row, as if there had never been a policy.
SaveOrDrop(scope, state, preset, summary, rules) ==
    [policies EXCEPT ![scope] =
        IF state = "inherit" THEN None
        ELSE SavedRow(scope, @, state, preset, summary, rules)]

Save(scope, state, preset, summary, rules) ==
    [policies EXCEPT ![scope] = SavedRow(scope, @, state, preset, summary, rules)]

\* Variant: the mode changes, and the rules that run do not.
ModeOnly(previous, mode) == FALSE

ModeChanges(previous, mode) == previous # mode

\* The room's policy follows a change of the enrollment's mode or summary time.
SyncedPolicies(previous, mode, timeChanged) ==
    LET current == OwnPolicy("room", [enrollment EXCEPT !.mode = mode])
    IN  IF ModeChanges(previous, mode)
        THEN Save("room", "replace", None, PresetSummary(mode), PresetRules(mode))
        ELSE IF timeChanged
             THEN Save("room", "replace", None, current.summary, current.rules)
             ELSE policies

\* The enrollment with a new mode and summary time, dated if they changed.
WithSettings(enrolled, mode, time) ==
    LET timeChanged == time # enrolled.time
    IN  [enrolled EXCEPT
            !.mode = mode, !.time = time,
            !.policyAt = IF mode # enrolled.mode \/ timeChanged THEN now ELSE @,
            !.timeAt = IF timeChanged THEN now ELSE @]

Given(value, stored) == IF value = None THEN stored ELSE value

-----------------------------------------------------------------------------
(* From which instant on the item's reminders may run.                     *)

\* The scopes from the item up to the one whose policy applies.
Chain ==
    LET Inherits(scope) == OwnPolicy(scope, enrollment).state = "inherit"
    IN  {"item"} \cup {s \in {"list"} : Inherits("item")}
                 \cup {s \in {"room"} : Inherits("item") /\ Inherits("list")}

ChainCutoffs ==
    {enrollment.activatedAt}
    \cup ({OwnPolicy(scope, enrollment).at : scope \in Chain} \ {None})

\* relative_cutoff: no rule that counts from the due time fires before it.  The
\* device's anchor counts if the item has a date and no time of its own.
Cutoff(timed) == Max(ChainCutoffs \cup {item.cycleAt}
                     \cup {at \in {device.anchorAt} : ~timed})

\* No summary names the item before it.
SummaryCutoff == Max(ChainCutoffs \cup {enrollment.timeAt, device.zoneAt})

-----------------------------------------------------------------------------
Nothing == [device |-> None, enrollment |-> None, policies |-> NoPolicies]

\* What a page of this browser is shown of the settings.
Shown ==
    IF ~Known THEN Nothing
    ELSE [device     |-> [id |-> device.id, revision |-> device.revision, zone |-> device.zone,
                          allDay |-> device.allDay],
          enrollment |-> [revision |-> enrollment.revision, status |-> enrollment.status,
                          mode |-> enrollment.mode, time |-> enrollment.time],
          policies   |-> policies]

\* A new installation, and its enrollment by the room token at hand.
NewDevice(id, zone) ==
    [id |-> id, revision |-> 1, zone |-> zone, allDay |-> DefaultTime,
     expires |-> now + Lifetime, anchorAt |-> now, zoneAt |-> now]
NewEnrollment(mode, time) ==
    [token |-> cookie, version |-> version, status |-> "active", mode |-> mode, time |-> time,
     revision |-> 1, activatedAt |-> now, expires |-> GrantExpiry(cookie),
     policyAt |-> now, timeAt |-> now]

\* The browser has signed in, and may have enrolled at once.
Init ==
    /\ now = 0 /\ version = 0
    /\ tokens = <<[version |-> 0, state |-> "live", created |-> 0]>>
    /\ cookie = 1
    /\ \/ device = None /\ enrollment = None
       \/ /\ device \in {NewDevice(1, zone) : zone \in Zones}
          /\ enrollment = NewEnrollment(DefaultMode, DefaultTime)
    /\ policies = NoPolicies
    /\ item = [dated |-> FALSE, cycleAt |-> None]
    /\ drafts = [op \in OpIds |-> None]
    /\ done = {}

\* A tab composes a change of what it shows.
Compose(op) ==
    /\ Access /\ drafts[op] = None /\ op \notin done
    /\ drafts' = [drafts EXCEPT ![op] = Shown]
    /\ UNCHANGED <<access, now, device, enrollment, policies, item, done>>

\* The op is sent with access to the room, and runs for the first time.
FirstRun(op) == Access /\ drafts[op] # None

\* The answer is stored with what the op wrote.
Ran(op) ==
    /\ done' = done \cup {op} /\ drafts' = [drafts EXCEPT ![op] = None]
    /\ UNCHANGED <<access, now, item>>

\* Variant: the stored status says whether a grant was active.
WasActiveInTable == enrollment.status = "active"

WasActive == GrantState = "active"

\* POST enrollment on a browser without a live installation: it gets one.
EnrollNewDevice(op, zone, mode, time) ==
    /\ FirstRun(op) /\ ~Known /\ zone # None
    /\ drafts[op].enrollment = None
    /\ device # None => device.id < MaxDevices
    /\ device' = NewDevice(IF device = None THEN 1 ELSE device.id + 1, zone)
    /\ enrollment' = NewEnrollment(Given(mode, DefaultMode), Given(time, DefaultTime))
    /\ policies' = NoPolicies
    /\ done' = {op} /\ drafts' = [drafts EXCEPT ![op] = None]
    /\ UNCHANGED <<access, now, item>>

\* POST enrollment on a known device: the one way to resume a grant.  It starts
\* a new life of the device and of the grant.
Resume(op, zone, mode, time) ==
    /\ FirstRun(op) /\ Known /\ zone \in {None, device.zone}
    /\ drafts[op].enrollment # None /\ drafts[op].enrollment.revision = enrollment.revision
    /\ device' = [device EXCEPT !.expires = now + Lifetime]
    /\ enrollment' = [WithSettings(enrollment, Given(mode, enrollment.mode),
                                   Given(time, enrollment.time)) EXCEPT
                        !.token = cookie, !.version = version, !.status = "active",
                        !.revision = @ + 1,
                        !.activatedAt = IF WasActive THEN @ ELSE now,
                        !.expires = GrantExpiry(cookie)]
    /\ policies' = SyncedPolicies(enrollment.mode, Given(mode, enrollment.mode),
                                  Given(time, enrollment.time) # enrollment.time)
    /\ Ran(op)

\* PATCH preferences: never activates a grant.
PatchPreferences(op, mode, time, optOut) ==
    /\ FirstRun(op) /\ Known
    /\ drafts[op].enrollment # None /\ drafts[op].enrollment.revision = enrollment.revision
    /\ LET set == [WithSettings(enrollment, Given(mode, enrollment.mode),
                                Given(time, enrollment.time)) EXCEPT
                     !.status = IF optOut THEN "opted_out" ELSE @]
       IN  enrollment' = IF set = enrollment THEN enrollment
                         ELSE [set EXCEPT !.revision = @ + 1]
    /\ policies' = SyncedPolicies(enrollment.mode, Given(mode, enrollment.mode),
                                  Given(time, enrollment.time) # enrollment.time)
    /\ Ran(op) /\ UNCHANGED device

\* The installation with other settings: a new zone or all-day time dates the
\* anchors.
WithDeviceSettings(zone, allDay) ==
    LET newZone == zone # device.zone
        set == [device EXCEPT
                  !.zone = zone, !.allDay = allDay,
                  !.zoneAt = IF newZone THEN now ELSE @,
                  !.anchorAt = IF newZone \/ allDay # device.allDay THEN now ELSE @]
    IN  IF set = device THEN device ELSE [set EXCEPT !.revision = @ + 1]

\* PATCH preferences/device, of what is not left out.
PatchDevice(op, zone, allDay) ==
    /\ FirstRun(op) /\ Known
    /\ drafts[op].device # None /\ drafts[op].device.revision = device.revision
    /\ device' = WithDeviceSettings(Given(zone, device.zone), Given(allDay, device.allDay))
    /\ Ran(op) /\ UNCHANGED <<enrollment, policies>>

\* The op's base revision of a scope's policy; 0 before its first row.
BaseRevision(op, scope) ==
    IF drafts[op].policies[scope] = None THEN 0 ELSE drafts[op].policies[scope].revision

\* PUT policy: a full replacement of a scope's policy.
PutPolicy(op, scope, state, preset, custom, time) ==
    LET own     == OwnPolicy(scope, enrollment)
        rules   == IF preset = "custom" THEN custom.rules ELSE PresetRules(preset)
        summary == IF preset = "custom" THEN custom.summary ELSE PresetSummary(preset)
        newTime == time # None /\ time # enrollment.time
        same    == /\ <<own.state, own.preset, own.summary>> = <<state, preset, summary>>
                   /\ own.rules = rules /\ ~newTime
    IN  /\ FirstRun(op) /\ Known
        /\ drafts[op].enrollment # None
        /\ own.revision = BaseRevision(op, scope)
        /\ (state = "replace") = (preset # None)
        /\ scope = "room" => state = "replace"
        /\ scope # "room" => time = None
        /\ (preset = "custom") = (custom # None)
        /\ policies' = IF same THEN policies
                       ELSE Save(scope, state, preset, summary, rules)
        /\ enrollment' = IF same \/ scope # "room" THEN enrollment
                         ELSE [enrollment EXCEPT
                                 !.mode = preset, !.time = Given(time, @), !.policyAt = now,
                                 !.timeAt = IF newTime THEN now ELSE @, !.revision = @ + 1]
        /\ Ran(op) /\ UNCHANGED device

-----------------------------------------------------------------------------
(* The browser's cookies, the room's password and the item.                *)

settings == <<device, policies, drafts, done>>
NewToken(at) == [version |-> at, state |-> "live", created |-> now]

\* A sign-in; the token the browser had stays live.
SignIn ==
    /\ Len(tokens) < MaxTokens
    /\ tokens' = Append(tokens, NewToken(version)) /\ cookie' = Len(tokens) + 1
    /\ UNCHANGED <<settings, now, version, enrollment, item>>

\* A sign-out revokes the cookie's token and cuts the grants it gave.
SignOut ==
    /\ cookie # None
    /\ tokens' = [tokens EXCEPT ![cookie].state = IF @ = "live" THEN "revoked" ELSE @]
    /\ enrollment' = IF enrollment # None /\ enrollment.token = cookie
                     THEN Cut(enrollment) ELSE enrollment
    /\ cookie' = None
    /\ UNCHANGED <<settings, now, version, item>>

\* The room's tokens before its password is replaced are deleted.
Deleted == [token \in DOMAIN tokens |-> [tokens[token] EXCEPT !.state = "deleted"]]

\* The room's password is replaced, by this browser (own) or by another or an
\* admin.  This browser's own change hands it a new token.
NewPassword(own) ==
    /\ version < MaxVersion /\ version' = version + 1
    /\ IF own THEN /\ Access /\ Len(tokens) < MaxTokens
                   /\ tokens' = Append(Deleted, NewToken(version + 1))
                   /\ cookie' = Len(tokens) + 1
              ELSE tokens' = Deleted /\ UNCHANGED cookie
    /\ enrollment' = Cut(enrollment)
    /\ UNCHANGED <<settings, now, item>>

\* Newer sign-ins of other browsers push the token of the grant out of the
\* room.  (Losing another token is no more than the end of a session.)
PruneToken ==
    /\ enrollment # None /\ tokens[enrollment.token].state = "live"
    /\ tokens' = [tokens EXCEPT ![enrollment.token].state = "deleted"]
    /\ UNCHANGED <<settings, now, version, cookie, enrollment, item>>

Tick ==
    /\ now < MaxTime /\ now' = now + 1
    /\ UNCHANGED <<access, settings, enrollment, item>>

\* A new due cycle starts now, if the item has a date.
NewCycle(dated) == IF dated THEN now ELSE None

\* The item's date is set or cleared, or its date, due time or zone changed.
\* Whether it has a due time is left open: cutoffs are stated for both.
EditDue(dated) ==
    /\ item.dated \/ dated
    /\ item' = [item EXCEPT !.dated = dated, !.cycleAt = NewCycle(dated)]
    /\ UNCHANGED <<access, settings, now, enrollment>>

\* Variant: an item that comes back is dated, whether or not it has a date.
ComeBackAlwaysDated ==
    /\ item' = [item EXCEPT !.cycleAt = now]
    /\ UNCHANGED <<access, settings, now, enrollment>>

\* The item was checked and is unchecked, or added again by name: a new cycle.
ComeBack ==
    /\ item' = [item EXCEPT !.cycleAt = NewCycle(item.dated)]
    /\ UNCHANGED <<access, settings, now, enrollment>>

-----------------------------------------------------------------------------
\* The personal writes a tab may send, with every body they may have.
Personal(op) ==
    \/ \E mode \in Presets \cup {None}, time \in Times \cup {None} :
          \/ \E zone \in Zones \cup {None} :
                EnrollNewDevice(op, zone, mode, time) \/ Resume(op, zone, mode, time)
          \/ \E optOut \in BOOLEAN : PatchPreferences(op, mode, time, optOut)
    \/ \E zone \in Zones \cup {None}, allDay \in Times \cup {None} :
          PatchDevice(op, zone, allDay)
    \/ \E scope \in Scopes, state \in {"inherit", "off", "replace"},
          preset \in Presets \cup {None}, custom \in Customs \cup {None},
          time \in Times \cup {None} :
          PutPolicy(op, scope, state, preset, custom, time)

Next ==
    \/ \E op \in OpIds : Compose(op) \/ Personal(op)
    \/ SignIn \/ SignOut \/ PruneToken \/ Tick \/ ComeBack
    \/ \E own \in BOOLEAN : NewPassword(own)
    \/ \E dated \in BOOLEAN : EditDue(dated)

Spec == Init /\ [][Next]_vars

-----------------------------------------------------------------------------
(* Properties.                                                             *)

\* The rows have the shape their columns and CHECKs give them: an installation
\* comes with its enrollment, a cycle with a date, and a
\* policy has a preset exactly if it replaces (the room's is the mode).
TypeOK ==
    /\ now \in Moment /\ version \in 0..MaxVersion /\ cookie \in DOMAIN tokens \cup {None}
    /\ tokens \in Seq([version : Nat, state : {"live", "revoked", "deleted"}, created : Moment])
    /\ device \in DeviceRow \cup {None} /\ enrollment \in EnrollmentRow \cup {None}
    /\ device = None <=> enrollment = None
    /\ enrollment # None => enrollment.token \in DOMAIN tokens
    /\ policies \in [Scopes -> PolicyRow \cup {None}]
    /\ \A scope \in Scopes : policies[scope] # None =>
          /\ enrollment # None
          /\ (policies[scope].preset # None) =
                (scope # "room" /\ policies[scope].state = "replace")
    /\ item \in [dated : BOOLEAN, cycleAt : Moment \cup {None}]
    /\ (item.cycleAt # None) = item.dated
    /\ done \subseteq OpIds

\* A grant that is stored as active was given under the room's present
\* password, by a token nobody signed out, and ends with that token's year.
\* Sign-out and password change must cut it in their own transaction: the
\* checks at use time would hide an omission until a token came back.
ActiveGrantIsBacked ==
    (enrollment # None /\ enrollment.status = "active") =>
        /\ enrollment.version = version
        /\ tokens[enrollment.token].state # "revoked"
        /\ enrollment.expires <= tokens[enrollment.token].created + Lifetime

\* The room's mode and the rules that run are stored apart and change in three
\* handlers.  They never disagree: each preset runs its own rules.
PresetIsWhatRuns ==
    enrollment # None =>
        LET own == OwnPolicy("room", enrollment)
        IN  own.preset # "custom" =>
                /\ own.rules = PresetRules(own.preset)
                /\ own.summary = PresetSummary(own.preset)

\* A grant that was not active becomes active only by an enrollment with access
\* to the room, and then counts from now; one that stays active keeps its
\* activation.  A sign-in, a PATCH or the end of a pause resumes nothing.
ResumeStartsAnew ==
    [][GrantState' = "active" =>
        IF GrantState = "active" /\ device'.id = device.id
        THEN enrollment'.activatedAt = enrollment.activatedAt
        ELSE /\ enrollment'.activatedAt = now'
             /\ enrollment'.token = cookie /\ Access]_vars

\* Two counters guard one set of settings: the enrollment's revision for mode,
\* time and status, and the room policy's for mode, time and rules.  Whatever
\* an op changes, its author had seen as it was, though other tabs, a sign-out
\* or a new password came in between.
NothingUnseenReplaced ==
    [][(device # None /\ device'.id = device.id) =>
        \A op \in done' \ done :
          (drafts[op].device # None /\ drafts[op].device.id = device.id) =>
            /\ \A part \in {"status", "mode", "time"} :
                  enrollment'[part] # enrollment[part] =>
                      drafts[op].enrollment[part] = enrollment[part]
            /\ \A part \in {"zone", "allDay"} :
                  device'[part] # device[part] => drafts[op].device[part] = device[part]
            /\ \A scope \in Scopes :
                  policies'[scope] # policies[scope] =>
                      drafts[op].policies[scope] = policies[scope]]_vars

\* Whatever is set, reset, resumed, checked or moved to another zone, the
\* instant before which the item's reminders stay off only ever moves to now:
\* no old reminder is opened again.
CutoffMovesToNow ==
    [][(device # None /\ device'.id = device.id) =>
        /\ (item.dated /\ item'.dated) =>
              \A timed \in BOOLEAN : Cutoff(timed)' \in {Cutoff(timed), now'}
        /\ SummaryCutoff' \in {SummaryCutoff, now'}]_vars
=============================================================================
