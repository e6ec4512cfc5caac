--------------------------- MODULE RemindersProofs ---------------------------
(***************************************************************************)
(* Proofs about Reminders, for any number of ops, tokens, passwords and    *)
(* devices, any settings and any length of time: the rows keep their       *)
(* shape, a grant that is stored as active is backed by a token that was   *)
(* not signed out and by the room's present password, and the preset a     *)
(* page shows is what runs.  The three together are inductive.             *)
(*                                                                         *)
(* The action properties follow from what each handler may change (the     *)
(* Moves lemmas): an op compares a revision that counts what it changes    *)
(* (with what the pages showed as the invariant, DraftsOK), only an        *)
(* enrollment starts a grant, and every date that moves moves to now (with *)
(* no date ahead of the clock as the invariant, DatesOK).                  *)
(***************************************************************************)
EXTENDS Reminders, TLAPS

RemindersInv == TypeOK /\ ActiveGrantIsBacked /\ PresetIsWhatRuns

\* PresetIsWhatRuns in terms of the rows: the room's policy, if it has a row,
\* runs the rules of the enrollment's mode.
RunsMode(row, mode) ==
    mode # "custom" => row.rules = PresetRules(mode) /\ row.summary = PresetSummary(mode)
RoomRuns(enrolled) ==
    enrolled # None /\ policies["room"] # None => RunsMode(policies["room"], enrolled.mode)

Token == [version : Nat, state : {"live", "revoked", "deleted"}, created : Moment]

\* An active enrollment is backed by its token.
Backed(enrolled) ==
    enrolled # None /\ enrolled.status = "active" =>
        /\ enrolled.version = version
        /\ tokens[enrolled.token].state # "revoked"
        /\ enrolled.expires <= tokens[enrolled.token].created + Lifetime

-----------------------------------------------------------------------------
(* The parts of the invariant.                                             *)

\* The rows of the policies, each with a preset exactly if it replaces.
PoliciesOK(p) ==
    /\ p \in [Scopes -> PolicyRow \cup {None}]
    /\ \A scope \in Scopes : p[scope] # None =>
          (p[scope].preset # None) = (scope # "room" /\ p[scope].state = "replace")

\* A page's settings: the rows of an installation.
RowsOK ==
    /\ device \in DeviceRow \cup {None} /\ enrollment \in EnrollmentRow \cup {None}
    /\ device = None <=> enrollment = None
    /\ enrollment # None => enrollment.token \in DOMAIN tokens
    /\ PoliciesOK(policies)
    /\ \A scope \in Scopes : policies[scope] # None => enrollment # None

AccessOK ==
    /\ version \in 0..MaxVersion /\ cookie \in DOMAIN tokens \cup {None}
    /\ tokens \in Seq(Token)

RestOK ==
    /\ now \in Moment
    /\ item \in [dated : BOOLEAN, cycleAt : Moment \cup {None}]
    /\ (item.cycleAt # None) = item.dated
    /\ done \subseteq OpIds

LEMMA TypeOKParts == TypeOK <=> RowsOK /\ AccessOK /\ RestOK
BY DEF TypeOK, RowsOK, PoliciesOK, AccessOK, RestOK, Token

LEMMA PresetInRows ==
    ASSUME RowsOK
    PROVE  PresetIsWhatRuns <=> RoomRuns(enrollment)
<1>1. CASE enrollment = None
  BY <1>1 DEF PresetIsWhatRuns, RoomRuns
<1>2. CASE enrollment # None /\ policies["room"] = None
  BY <1>2 DEF PresetIsWhatRuns, RoomRuns, OwnPolicy
<1>3. CASE enrollment # None /\ policies["room"] # None
  <2> DEFINE row == policies["room"]
  <2>1. row \in PolicyRow
    BY <1>3 DEF RowsOK, PoliciesOK, Scopes
  <2> DEFINE own == [row EXCEPT !.preset = enrollment.mode]
  <2>2. OwnPolicy("room", enrollment) = own
    BY <1>3 DEF OwnPolicy
  <2> HIDE DEF row
  <2>3. own.preset = enrollment.mode /\ own.rules = row.rules /\ own.summary = row.summary
    BY <2>1 DEF PolicyRow
  <2> HIDE DEF own
  <2> QED BY <1>3, <2>2, <2>3 DEF PresetIsWhatRuns, RoomRuns, RunsMode, row
<1> QED BY <1>1, <1>2, <1>3

LEMMA InvariantParts ==
    RemindersInv <=> /\ RowsOK /\ AccessOK /\ RestOK
                     /\ Backed(enrollment) /\ RoomRuns(enrollment)
BY TypeOKParts, PresetInRows DEF RemindersInv, ActiveGrantIsBacked, Backed

-----------------------------------------------------------------------------
(* What the operators return.                                              *)

LEMMA MomentIsNat == Moment \subseteq Nat
BY Bounds DEF Moment

LEMMA MinOfTwo ==
    ASSUME NEW a \in Int, NEW b \in Int
    PROVE  Min({a, b}) \in {a, b} /\ Min({a, b}) <= a /\ Min({a, b}) <= b
<1>1. \E x \in {a, b} : \A y \in {a, b} : x <= y
  <2>1. CASE a <= b
    BY <2>1
  <2>2. CASE b <= a
    BY <2>2
  <2> QED BY <2>1, <2>2
<1> QED BY <1>1 DEF Min

LEMMA GrantExpiryIs ==
    ASSUME now \in Moment, NEW token, tokens[token].created \in Moment
    PROVE  GrantExpiry(token) \in Nat /\ GrantExpiry(token) <= tokens[token].created + Lifetime
<1> DEFINE a == now + Lifetime
<1> DEFINE b == tokens[token].created + Lifetime
<1>1. now \in Nat /\ tokens[token].created \in Nat
  BY Bounds DEF Moment
<1>2. a \in Nat /\ b \in Nat
  BY <1>1, LifetimeIsPositive
<1>3. GrantExpiry(token) = Min({a, b})
  BY DEF GrantExpiry
<1> HIDE DEF a, b
<1>4. GrantExpiry(token) \in {a, b} /\ GrantExpiry(token) <= b
  BY <1>2, <1>3, MinOfTwo
<1> QED BY <1>2, <1>4 DEF b

LEMMA CutIs ==
    ASSUME NEW enrolled \in EnrollmentRow \cup {None}
    PROVE  /\ Cut(enrolled) \in EnrollmentRow \cup {None}
           /\ Cut(enrolled) = None <=> enrolled = None
           /\ enrolled # None => /\ Cut(enrolled).status # "active"
                                 /\ Cut(enrolled).token = enrolled.token
                                 /\ Cut(enrolled).mode = enrolled.mode
<1>1. CASE enrolled # None /\ enrolled.status = "active"
  <2>1. Cut(enrolled) = [enrolled EXCEPT !.status = "revoked", !.revision = @ + 1]
    BY <1>1 DEF Cut
  <2>2. enrolled \in EnrollmentRow
    BY <1>1
  <2> DEFINE revision == enrolled.revision + 1
  <2>3. revision \in Nat /\ Cut(enrolled) = [enrolled EXCEPT !.status = "revoked",
                                                             !.revision = revision]
    BY <2>1, <2>2 DEF EnrollmentRow
  <2> HIDE DEF revision
  <2>4. /\ Cut(enrolled) \in EnrollmentRow
        /\ Cut(enrolled).status = "revoked"
        /\ Cut(enrolled).token = enrolled.token /\ Cut(enrolled).mode = enrolled.mode
    BY <2>2, <2>3 DEF EnrollmentRow
  <2> QED BY <1>1, <2>4, NoneIsNoRow
<1>2. CASE ~(enrolled # None /\ enrolled.status = "active")
  BY <1>2 DEF Cut
<1> QED BY <1>1, <1>2

LEMMA WithSettingsIs ==
    ASSUME NEW enrolled \in EnrollmentRow, NEW mode \in Presets, NEW time \in Times, now \in Moment
    PROVE  /\ WithSettings(enrolled, mode, time) \in EnrollmentRow
           /\ WithSettings(enrolled, mode, time).mode = mode
           /\ \A field \in {"token", "version", "status", "expires", "revision"} :
                 WithSettings(enrolled, mode, time)[field] = enrolled[field]
BY DEF WithSettings, EnrollmentRow

LEMMA GivenIs ==
    ASSUME NEW S, NEW value \in S \cup {None}, NEW stored \in S
    PROVE  Given(value, stored) \in S
BY DEF Given

\* What a scope's policy may be saved as.
LEMMA SaveIs ==
    ASSUME PoliciesOK(policies), now \in Moment, NEW scope \in Scopes,
           NEW state \in {"inherit", "off", "replace"}, NEW preset \in Presets \cup {None},
           NEW summary \in BOOLEAN,
           NEW rules \in {custom.rules : custom \in Customs} \cup {{}, Scheduled},
           scope # "room" => (preset # None) = (state = "replace"),
           NEW saved, saved = Save(scope, state, preset, summary, rules)
    PROVE  /\ PoliciesOK(saved)
           /\ saved[scope].rules = rules /\ saved[scope].summary = summary
           /\ \A other \in Scopes \ {scope} : saved[other] = policies[other]
<1> DEFINE row == SavedRow(scope, policies[scope], state, preset, summary, rules)
<1>1. policies[scope] \in PolicyRow \cup {None}
  BY DEF PoliciesOK
<1> DEFINE revision == IF policies[scope] = None THEN 1 ELSE policies[scope].revision + 1
<1>2. revision \in Nat
  BY <1>1 DEF PolicyRow
<1>3. row = [state |-> state, preset |-> IF scope = "room" THEN None ELSE preset,
             summary |-> summary, rules |-> rules, revision |-> revision, at |-> now]
  BY DEF SavedRow
<1> HIDE DEF revision, row
<1>4. /\ row \in PolicyRow
      /\ row.rules = rules /\ row.summary = summary /\ row.state = state
      /\ row.preset = IF scope = "room" THEN None ELSE preset
  BY <1>2, <1>3 DEF PolicyRow
<1>5. saved = [policies EXCEPT ![scope] = row]
  BY DEF Save, row
<1>6. saved[scope] = row /\ \A other \in Scopes \ {scope} : saved[other] = policies[other]
  BY <1>5 DEF PoliciesOK
<1>7. saved \in [Scopes -> PolicyRow \cup {None}]
  BY <1>4, <1>5 DEF PoliciesOK
<1>8. PoliciesOK(saved)
  BY <1>4, <1>6, <1>7 DEF PoliciesOK
<1> QED BY <1>4, <1>6, <1>8

LEMMA PresetIs ==
    ASSUME NEW preset
    PROVE  PresetRules(preset) \in {{}, Scheduled} /\ PresetSummary(preset) \in BOOLEAN
BY DEF PresetRules, PresetSummary

\* The same for the room, whose policy names no preset.
LEMMA RoomSaveIs ==
    ASSUME PoliciesOK(policies), now \in Moment, NEW summary \in BOOLEAN,
           NEW rules \in {custom.rules : custom \in Customs} \cup {{}, Scheduled},
           NEW saved, saved = Save("room", "replace", None, summary, rules)
    PROVE  PoliciesOK(saved) /\ saved["room"].rules = rules /\ saved["room"].summary = summary
<1>1. "room" \in Scopes /\ None \in Presets \cup {None}
  BY DEF Scopes
<1> QED BY <1>1, SaveIs

\* The room's policy follows the mode.
LEMMA SyncedIs ==
    ASSUME RemindersInv, enrollment # None, NEW mode \in Presets, NEW timeChanged \in BOOLEAN,
           NEW synced, synced = SyncedPolicies(enrollment.mode, mode, timeChanged)
    PROVE  /\ PoliciesOK(synced)
           /\ synced["room"] # None => RunsMode(synced["room"], mode)
<1>0. RowsOK /\ RestOK /\ RoomRuns(enrollment) /\ now \in Moment /\ "room" \in Scopes
  BY InvariantParts DEF RestOK, Scopes
<1>1. CASE mode # enrollment.mode
  <2>1. synced = Save("room", "replace", None, PresetSummary(mode), PresetRules(mode))
    BY <1>1 DEF SyncedPolicies, ModeChanges
  <2>2. PoliciesOK(policies)
    BY <1>0 DEF RowsOK
  <2>3. PresetRules(mode) \in {{}, Scheduled} /\ PresetSummary(mode) \in BOOLEAN
    BY PresetIs
  <2>4. /\ PoliciesOK(synced)
        /\ synced["room"].rules = PresetRules(mode) /\ synced["room"].summary = PresetSummary(mode)
    BY <1>0, <2>1, <2>2, <2>3, RoomSaveIs
  <2> QED BY <2>4 DEF RunsMode
<1>2. CASE mode = enrollment.mode /\ timeChanged
  <2> DEFINE current == OwnPolicy("room", [enrollment EXCEPT !.mode = mode])
  <2>1. synced = Save("room", "replace", None, current.summary, current.rules)
    BY <1>2 DEF SyncedPolicies, ModeChanges
  <2>2. [enrollment EXCEPT !.mode = mode].mode = mode
    BY <1>0 DEF RowsOK, EnrollmentRow
  <2>3. CASE policies["room"] = None
    <3>1. current.rules = PresetRules(mode) /\ current.summary = PresetSummary(mode)
      BY <2>2, <2>3 DEF OwnPolicy
    <3> HIDE DEF current
    <3>2. /\ PoliciesOK(synced)
          /\ synced["room"].rules = PresetRules(mode)
          /\ synced["room"].summary = PresetSummary(mode)
      <4>1. PoliciesOK(policies)
        BY <1>0 DEF RowsOK
      <4>2. PresetRules(mode) \in {{}, Scheduled} /\ PresetSummary(mode) \in BOOLEAN
        BY PresetIs
      <4> QED BY <1>0, <2>1, <3>1, <4>1, <4>2, RoomSaveIs
    <3> QED BY <3>2 DEF RunsMode
  <2>4. CASE policies["room"] # None
    <3> DEFINE row == policies["room"]
    <3>1. row \in PolicyRow /\ RunsMode(row, mode)
      BY <1>0, <1>2, <2>4 DEF RowsOK, PoliciesOK, RoomRuns
    <3>2. current = [row EXCEPT !.preset = [enrollment EXCEPT !.mode = mode].mode]
      BY <2>4 DEF OwnPolicy
    <3> HIDE DEF row, current
    <3>3. current.rules = row.rules /\ current.summary = row.summary
      BY <2>2, <3>1, <3>2 DEF PolicyRow
    <3>4. row.rules \in {custom.rules : custom \in Customs} \cup {{}, Scheduled}
            /\ row.summary \in BOOLEAN
      BY <3>1 DEF PolicyRow
    <3>5. /\ PoliciesOK(synced)
          /\ synced["room"].rules = row.rules /\ synced["room"].summary = row.summary
      <4>1. PoliciesOK(policies)
        BY <1>0 DEF RowsOK
      <4> QED BY <1>0, <2>1, <3>3, <3>4, <4>1, RoomSaveIs
    <3> QED BY <3>1, <3>5 DEF RunsMode
  <2> QED BY <2>3, <2>4
<1>3. CASE mode = enrollment.mode /\ ~timeChanged
  <2>1. synced = policies
    BY <1>3 DEF SyncedPolicies, ModeChanges
  <2> QED BY <1>0, <1>3, <2>1 DEF RowsOK, RoomRuns
<1> QED BY <1>1, <1>2, <1>3

-----------------------------------------------------------------------------
(* Settings.                                                               *)

\* A write of settings: the room's access and the item stay.
LEMMA SettingsStep ==
    ASSUME RemindersInv, UNCHANGED <<access, now, item>>, done' \subseteq OpIds,
           device' \in DeviceRow,
           NEW e \in EnrollmentRow, enrollment' = e, e.token \in DOMAIN tokens, Backed(e),
           NEW p, policies' = p, PoliciesOK(p),
           p["room"] # None => RunsMode(p["room"], e.mode)
    PROVE  RemindersInv'
<1>1. RowsOK /\ AccessOK /\ RestOK
  BY InvariantParts
<1>2. RowsOK'
  <2>1. e # None /\ device' # None
    BY NoneIsNoRow
  <2> QED BY <2>1 DEF RowsOK, PoliciesOK, access
<1>3. AccessOK' /\ RestOK'
  BY <1>1 DEF AccessOK, RestOK, access
<1>4. Backed(enrollment)' /\ RoomRuns(enrollment)'
  BY DEF Backed, RoomRuns, RunsMode, access
<1>5. /\ RowsOK' /\ AccessOK' /\ RestOK' /\ Backed(enrollment)' /\ RoomRuns(enrollment)'
      => RemindersInv'
  BY InvariantParts, PTL
<1> QED BY <1>2, <1>3, <1>4, <1>5

\* What a settings op starts from, and that its answer is stored.
LEMMA OpStarts ==
    ASSUME RemindersInv, NEW op \in OpIds, FirstRun(op)
    PROVE  /\ cookie \in DOMAIN tokens /\ cookie \in Nat
           /\ tokens[cookie] \in Token /\ tokens[cookie].state = "live"
           /\ tokens[cookie].version = version
           /\ now \in Moment /\ now \in Nat /\ now + Lifetime \in Nat /\ version \in Nat
           /\ done \cup {op} \subseteq OpIds
<1>1. AccessOK /\ RestOK
  BY InvariantParts
<1>2. cookie # None /\ tokens[cookie].state = "live" /\ tokens[cookie].version = version
  BY DEF FirstRun, Access, Live
<1>3. cookie \in DOMAIN tokens /\ cookie \in Nat /\ tokens[cookie] \in Token
  BY <1>1, <1>2 DEF AccessOK
<1>4. now \in Moment /\ now \in Nat /\ version \in Nat
  BY <1>1, Bounds DEF RestOK, AccessOK, Moment
<1>5. now + Lifetime \in Nat
  BY <1>4, LifetimeIsPositive
<1> QED BY <1>1, <1>2, <1>3, <1>4, <1>5 DEF RestOK

LEMMA KnownIs ==
    ASSUME RemindersInv, Known
    PROVE  /\ device \in DeviceRow /\ enrollment \in EnrollmentRow
           /\ enrollment # None /\ enrollment.token \in DOMAIN tokens
           /\ enrollment.mode \in Presets /\ enrollment.time \in Times
           /\ PoliciesOK(policies) /\ Backed(enrollment) /\ RoomRuns(enrollment)
<1>1. RowsOK /\ Backed(enrollment) /\ RoomRuns(enrollment)
  BY InvariantParts
<1>2. device \in DeviceRow /\ enrollment \in EnrollmentRow /\ enrollment # None
  BY <1>1 DEF RowsOK, Known
<1>3. enrollment.mode \in Presets /\ enrollment.time \in Times
  BY <1>2 DEF EnrollmentRow
<1> QED BY <1>1, <1>2, <1>3 DEF RowsOK

LEMMA NewDeviceIs ==
    ASSUME RemindersInv, NEW op \in OpIds, NEW zone \in Zones \cup {None}, NEW mode, NEW time,
           EnrollNewDevice(op, zone, mode, time)
    PROVE  /\ device' \in DeviceRow
           /\ device # None => device.id \in Nat
           /\ device'.id = IF device = None THEN 1 ELSE device.id + 1
<1>1. FirstRun(op) /\ zone \in Zones
  BY DEF EnrollNewDevice
<1>2. device # None => device \in DeviceRow /\ device.id \in Nat
  BY InvariantParts DEF RowsOK, DeviceRow
<1>3. PICK id \in Nat : id = IF device = None THEN 1 ELSE device.id + 1
  BY <1>2
<1>4. DefaultTime \in Times
  BY BodiesAreTyped DEF DefaultTime
<1>5. device' = NewDevice(id, zone)
  BY <1>3 DEF EnrollNewDevice
<1>6. device' \in DeviceRow /\ device'.id = id
  BY <1>1, <1>4, <1>5, OpStarts DEF NewDevice, DeviceRow
<1> QED BY <1>2, <1>3, <1>6

LEMMA EnrollKeeps ==
    ASSUME RemindersInv, NEW op \in OpIds, NEW zone \in Zones \cup {None},
           NEW mode \in Presets \cup {None}, NEW time \in Times \cup {None},
           EnrollNewDevice(op, zone, mode, time)
    PROVE  RemindersInv'
<1>1. FirstRun(op) /\ zone \in Zones /\ UNCHANGED <<access, now, item>>
  BY DEF EnrollNewDevice
<1>2. Given(mode, DefaultMode) \in Presets /\ Given(time, DefaultTime) \in Times
  BY KnownPresets, BodiesAreTyped DEF Given, DefaultMode, DefaultTime
<1>3. PICK e : e = NewEnrollment(Given(mode, DefaultMode), Given(time, DefaultTime))
  OBVIOUS
<1>4. GrantExpiry(cookie) \in Nat /\ GrantExpiry(cookie) <= tokens[cookie].created + Lifetime
  BY <1>1, OpStarts, GrantExpiryIs DEF Token
<1>5. /\ e \in EnrollmentRow /\ e.token = cookie /\ e.version = version
      /\ e.expires = GrantExpiry(cookie)
  BY <1>1, <1>2, <1>3, <1>4, OpStarts DEF NewEnrollment, EnrollmentRow
<1>6. e.token \in DOMAIN tokens /\ Backed(e)
  BY <1>1, <1>4, <1>5, OpStarts DEF Backed
<1>7. device' \in DeviceRow
  BY NewDeviceIs
<1>8. PoliciesOK(NoPolicies) /\ NoPolicies["room"] = None
  BY DEF PoliciesOK, NoPolicies, Scopes
<1>9. enrollment' = e /\ policies' = NoPolicies /\ done' \subseteq OpIds
  BY <1>3 DEF EnrollNewDevice
<1> QED BY <1>1, <1>5, <1>6, <1>7, <1>8, <1>9, SettingsStep

LEMMA ResumeKeeps ==
    ASSUME RemindersInv, NEW op \in OpIds, NEW zone,
           NEW mode \in Presets \cup {None}, NEW time \in Times \cup {None},
           Resume(op, zone, mode, time)
    PROVE  RemindersInv'
<1> DEFINE newMode == Given(mode, enrollment.mode)
<1> DEFINE newTime == Given(time, enrollment.time)
<1>1. FirstRun(op) /\ Known /\ UNCHANGED <<access, now, item>> /\ done' = done \cup {op}
  BY DEF Resume, Ran
<1>2. newMode \in Presets /\ newTime \in Times
  BY <1>1, KnownIs DEF Given
<1>3. PICK w \in EnrollmentRow : w = WithSettings(enrollment, newMode, newTime) /\ w.mode = newMode
  <2>1. now \in Moment /\ enrollment \in EnrollmentRow
    BY <1>1, KnownIs, OpStarts
  <2> HIDE DEF newMode, newTime
  <2> QED BY <1>2, <2>1, WithSettingsIs
<1>4. GrantExpiry(cookie) \in Nat /\ GrantExpiry(cookie) <= tokens[cookie].created + Lifetime
  BY <1>1, OpStarts, GrantExpiryIs DEF Token
<1>5. PICK e : e = [w EXCEPT !.token = cookie, !.version = version, !.status = "active",
                             !.revision = @ + 1,
                             !.activatedAt = IF WasActive THEN @ ELSE now,
                             !.expires = GrantExpiry(cookie)]
  OBVIOUS
<1>6. /\ e \in EnrollmentRow /\ e.token = cookie /\ e.version = version
      /\ e.expires = GrantExpiry(cookie) /\ e.mode = newMode
  <2>1. w.revision + 1 \in Nat /\ (IF WasActive THEN w.activatedAt ELSE now) \in Moment
    BY <1>1, OpStarts DEF EnrollmentRow
  <2> HIDE DEF newMode, newTime
  <2> QED BY <1>1, <1>3, <1>4, <1>5, <2>1, OpStarts DEF EnrollmentRow
<1>7. e.token \in DOMAIN tokens /\ Backed(e)
  BY <1>1, <1>4, <1>6, OpStarts DEF Backed
<1>8. device' \in DeviceRow
  BY <1>1, KnownIs, OpStarts DEF Resume, DeviceRow
<1>9. enrollment' = e
  BY <1>3, <1>5 DEF Resume
<1>10. PICK p : p = SyncedPolicies(enrollment.mode, newMode, newTime # enrollment.time)
  OBVIOUS
<1>11. policies' = p
  BY <1>10 DEF Resume
<1> HIDE DEF newMode, newTime
<1>12. PoliciesOK(p) /\ (p["room"] # None => RunsMode(p["room"], e.mode))
  BY <1>1, <1>2, <1>6, <1>10, KnownIs, SyncedIs
<1>13. done' \subseteq OpIds
  BY <1>1, OpStarts
<1> QED BY <1>1, <1>6, <1>7, <1>8, <1>9, <1>11, <1>12, <1>13, SettingsStep

LEMMA PatchPreferencesKeeps ==
    ASSUME RemindersInv, NEW op \in OpIds, NEW optOut \in BOOLEAN,
           NEW mode \in Presets \cup {None}, NEW time \in Times \cup {None},
           PatchPreferences(op, mode, time, optOut)
    PROVE  RemindersInv'
<1> DEFINE newMode == Given(mode, enrollment.mode)
<1> DEFINE newTime == Given(time, enrollment.time)
<1>1. FirstRun(op) /\ Known /\ UNCHANGED <<access, now, item, device>> /\ done' = done \cup {op}
  BY DEF PatchPreferences, Ran
<1>2. newMode \in Presets /\ newTime \in Times
  BY <1>1, KnownIs DEF Given
<1>3. PICK w \in EnrollmentRow :
         /\ w = WithSettings(enrollment, newMode, newTime)
         /\ w.mode = newMode
         /\ w.token = enrollment.token /\ w.version = enrollment.version
         /\ w.status = enrollment.status /\ w.expires = enrollment.expires
  <2>1. now \in Moment /\ enrollment \in EnrollmentRow
    BY <1>1, KnownIs, OpStarts
  <2> HIDE DEF newMode, newTime
  <2> QED BY <1>2, <2>1, WithSettingsIs
<1>4. PICK set : set = [w EXCEPT !.status = IF optOut THEN "opted_out" ELSE @]
  OBVIOUS
<1>5. PICK e : e = IF set = enrollment THEN enrollment ELSE [set EXCEPT !.revision = @ + 1]
  OBVIOUS
<1>6. enrollment' = e
  BY <1>3, <1>4, <1>5 DEF PatchPreferences
<1> HIDE DEF newMode, newTime
<1>7. /\ set \in EnrollmentRow /\ set.mode = newMode /\ set.token = enrollment.token
      /\ set.version = enrollment.version /\ set.expires = enrollment.expires
      /\ set.status \in {enrollment.status, "opted_out"}
  BY <1>3, <1>4 DEF EnrollmentRow
<1>8. set.revision + 1 \in Nat
  BY <1>7 DEF EnrollmentRow
<1>9. /\ e \in EnrollmentRow /\ e.mode = newMode /\ e.token = enrollment.token
      /\ e.version = enrollment.version /\ e.expires = enrollment.expires
      /\ e.status \in {enrollment.status, "opted_out"}
  BY <1>5, <1>7, <1>8 DEF EnrollmentRow
<1>10. e.token \in DOMAIN tokens /\ Backed(e)
  BY <1>1, <1>9, KnownIs DEF Backed
<1>11. PICK p : p = SyncedPolicies(enrollment.mode, newMode, newTime # enrollment.time)
  OBVIOUS
<1>12. policies' = p
  BY <1>11 DEF PatchPreferences, newMode, newTime
<1>13. PoliciesOK(p) /\ (p["room"] # None => RunsMode(p["room"], e.mode))
  BY <1>1, <1>2, <1>9, <1>11, KnownIs, SyncedIs
<1>14. done' \subseteq OpIds /\ device' \in DeviceRow
  BY <1>1, OpStarts, KnownIs
<1> QED BY <1>1, <1>6, <1>9, <1>10, <1>12, <1>13, <1>14, SettingsStep

LEMMA PatchDeviceKeeps ==
    ASSUME RemindersInv, NEW op \in OpIds, NEW zone \in Zones \cup {None},
           NEW allDay \in Times \cup {None}, PatchDevice(op, zone, allDay)
    PROVE  RemindersInv'
<1>1. /\ FirstRun(op) /\ Known /\ UNCHANGED <<access, now, item, enrollment, policies>>
      /\ done' = done \cup {op}
  BY DEF PatchDevice, Ran
<1>2. PICK z \in Zones, a \in Times : z = Given(zone, device.zone) /\ a = Given(allDay, device.allDay)
  BY <1>1, KnownIs DEF Given, DeviceRow
<1>3. device' = WithDeviceSettings(z, a)
  BY <1>2 DEF PatchDevice
<1>4. device \in DeviceRow /\ now \in Moment
  BY <1>1, KnownIs, OpStarts
<1>5. WithDeviceSettings(z, a) \in DeviceRow
  <2>1. PICK set : set = [device EXCEPT !.zone = z, !.allDay = a,
                             !.zoneAt = IF z # device.zone THEN now ELSE @,
                             !.anchorAt = IF z # device.zone \/ a # device.allDay THEN now ELSE @]
    OBVIOUS
  <2>2. WithDeviceSettings(z, a) = IF set = device THEN device ELSE [set EXCEPT !.revision = @ + 1]
    BY <2>1 DEF WithDeviceSettings
  <2>3. set \in DeviceRow
    BY <1>4, <2>1 DEF DeviceRow
  <2> QED BY <1>4, <2>2, <2>3 DEF DeviceRow
<1>6. policies["room"] # None => RunsMode(policies["room"], enrollment.mode)
  BY <1>1, KnownIs DEF RoomRuns
<1>7. done' \subseteq OpIds
  BY <1>1, OpStarts
<1>8. PICK e \in EnrollmentRow : e = enrollment
  BY <1>1, KnownIs
<1>9. PICK p : p = policies
  OBVIOUS
<1> QED BY <1>1, <1>3, <1>5, <1>6, <1>7, <1>8, <1>9, KnownIs, SettingsStep

LEMMA PutPolicyKeeps ==
    ASSUME RemindersInv, NEW op \in OpIds, NEW scope \in Scopes,
           NEW state \in {"inherit", "off", "replace"}, NEW preset \in Presets \cup {None},
           NEW custom \in Customs \cup {None}, NEW time \in Times \cup {None},
           PutPolicy(op, scope, state, preset, custom, time)
    PROVE  RemindersInv'
<1> DEFINE rules == IF preset = "custom" THEN custom.rules ELSE PresetRules(preset)
<1> DEFINE summary == IF preset = "custom" THEN custom.summary ELSE PresetSummary(preset)
<1>1. /\ FirstRun(op) /\ Known /\ UNCHANGED <<access, now, item, device>>
      /\ done' = done \cup {op}
      /\ (state = "replace") = (preset # None)
      /\ scope = "room" => preset \in Presets
  BY DEF PutPolicy, Ran
<1>2. /\ rules \in {c.rules : c \in Customs} \cup {{}, Scheduled}
      /\ summary \in BOOLEAN
      /\ preset # "custom" => rules = PresetRules(preset) /\ summary = PresetSummary(preset)
  <2>1. preset = "custom" => custom \in Customs
    BY DEF PutPolicy
  <2> QED BY <2>1, PresetIs, BodiesAreTyped
<1>3. \/ enrollment' = enrollment /\ policies' = policies
      \/ /\ policies' = Save(scope, state, preset, summary, rules)
         /\ scope # "room" => enrollment' = enrollment
         /\ scope = "room" => \E timeAt \in {enrollment.timeAt, now} :
               enrollment' = [enrollment EXCEPT
                  !.mode = preset, !.time = Given(time, @), !.policyAt = now,
                  !.timeAt = timeAt, !.revision = @ + 1]
  <2> HIDE DEF rules, summary
  <2> QED BY DEF PutPolicy, rules, summary
<1> HIDE DEF rules, summary
<1>4. done' \subseteq OpIds /\ device' \in DeviceRow
  BY <1>1, OpStarts, KnownIs
<1>5. policies["room"] # None => RunsMode(policies["room"], enrollment.mode)
  BY <1>1, KnownIs DEF RoomRuns
<1>6. PICK old \in EnrollmentRow : old = enrollment
  BY <1>1, KnownIs
<1>7. CASE enrollment' = enrollment /\ policies' = policies
  <2>1. PICK p : p = policies
    OBVIOUS
  <2> QED BY <1>1, <1>4, <1>5, <1>6, <1>7, <2>1, KnownIs, SettingsStep
<1>8. CASE /\ policies' = Save(scope, state, preset, summary, rules)
           /\ scope # "room" /\ enrollment' = enrollment
  <2>1. PICK p : p = Save(scope, state, preset, summary, rules)
    OBVIOUS
  <2>2. PoliciesOK(p) /\ p["room"] = policies["room"]
    BY <1>1, <1>2, <1>8, <2>1, KnownIs, OpStarts, SaveIs DEF Scopes
  <2> QED BY <1>1, <1>4, <1>5, <1>6, <1>8, <2>1, <2>2, KnownIs, SettingsStep
<1>9. ASSUME policies' = Save(scope, state, preset, summary, rules), scope = "room",
             NEW timeAt \in {enrollment.timeAt, now},
             enrollment' = [enrollment EXCEPT
                !.mode = preset, !.time = Given(time, @), !.policyAt = now,
                !.timeAt = timeAt, !.revision = @ + 1]
      PROVE  RemindersInv'
  <2>1. PICK p : p = Save(scope, state, preset, summary, rules)
    OBVIOUS
  <2>2. PoliciesOK(p) /\ p["room"].rules = rules /\ p["room"].summary = summary
    BY <1>1, <1>2, <1>9, <2>1, KnownIs, OpStarts, SaveIs
  <2>3. PICK t \in Times : t = Given(time, enrollment.time)
    BY <1>1, KnownIs DEF Given
  <2>4. PICK e : e = [old EXCEPT !.mode = preset, !.time = t, !.policyAt = now,
                                 !.timeAt = timeAt, !.revision = @ + 1]
    OBVIOUS
  <2>5. old.revision + 1 \in Nat /\ timeAt \in Moment /\ now \in Moment
    BY <1>1, <1>6, OpStarts DEF EnrollmentRow
  <2>6. /\ e \in EnrollmentRow /\ e.mode = preset /\ e.token = old.token
        /\ e.version = old.version /\ e.expires = old.expires /\ e.status = old.status
    BY <1>1, <1>9, <2>4, <2>5 DEF EnrollmentRow
  <2>7. enrollment' = e
    BY <1>6, <1>9, <2>3, <2>4
  <2>8. e.token \in DOMAIN tokens /\ Backed(e)
    BY <1>1, <1>6, <2>6, KnownIs DEF Backed
  <2>9. RunsMode(p["room"], e.mode)
    BY <1>2, <2>2, <2>6 DEF RunsMode
  <2> QED BY <1>1, <1>4, <1>9, <2>1, <2>2, <2>6, <2>7, <2>8, <2>9, SettingsStep
<1> QED BY <1>3, <1>7, <1>8, <1>9

-----------------------------------------------------------------------------
(* Cookies, passwords, the clock and the item.                             *)

\* A step of the room's access: the settings stay, a grant may be cut.
LEMMA AccessStep ==
    ASSUME RemindersInv, UNCHANGED <<device, policies, done, now, item>>, AccessOK',
           NEW e \in EnrollmentRow \cup {None}, enrollment' = e,
           e = None <=> enrollment = None,
           e # None => /\ e.mode = enrollment.mode
                       /\ e.token \in DOMAIN tokens'
                       /\ e.status = "active" =>
                             /\ e.version = version'
                             /\ tokens'[e.token].state # "revoked"
                             /\ e.expires <= tokens'[e.token].created + Lifetime
    PROVE  RemindersInv'
<1>1. RowsOK /\ RestOK /\ RoomRuns(enrollment)
  BY InvariantParts
<1>2. RowsOK' /\ RestOK'
  BY <1>1 DEF RowsOK, PoliciesOK, RestOK
<1>3. Backed(enrollment)' /\ RoomRuns(enrollment)'
  BY <1>1 DEF Backed, RoomRuns, RunsMode
<1>4. /\ RowsOK' /\ AccessOK' /\ RestOK' /\ Backed(enrollment)' /\ RoomRuns(enrollment)'
      => RemindersInv'
  BY InvariantParts, PTL
<1> QED BY <1>2, <1>3, <1>4

\* The invariant where an access step starts.
LEMMA AccessIs ==
    ASSUME RemindersInv
    PROVE  /\ version \in Nat /\ version <= MaxVersion /\ now \in Moment
           /\ tokens \in Seq(Token) /\ cookie \in DOMAIN tokens \cup {None}
           /\ enrollment \in EnrollmentRow \cup {None}
           /\ enrollment # None => enrollment.token \in DOMAIN tokens
           /\ Backed(enrollment)
<1>1. RowsOK /\ AccessOK /\ RestOK /\ Backed(enrollment)
  BY InvariantParts
<1> QED BY <1>1, Bounds DEF RowsOK, AccessOK, RestOK

LEMMA NewTokenIs ==
    ASSUME now \in Moment, NEW at \in Nat
    PROVE  NewToken(at) \in Token
BY DEF NewToken, Token

LEMMA SignInKeeps ==
    ASSUME RemindersInv, SignIn
    PROVE  RemindersInv'
<1>0. UNCHANGED <<device, policies, done, now, item, version, enrollment>>
  BY DEF SignIn, settings
<1>1. PICK new \in Token : tokens' = Append(tokens, new)
  BY AccessIs, NewTokenIs DEF SignIn
<1>2. /\ tokens' \in Seq(Token) /\ DOMAIN tokens' = DOMAIN tokens \cup {Len(tokens) + 1}
      /\ \A token \in DOMAIN tokens : tokens'[token] = tokens[token]
  BY <1>1, AccessIs
<1>3. AccessOK'
  BY <1>0, <1>2, AccessIs, Bounds DEF AccessOK, SignIn
<1>4. PICK e \in EnrollmentRow \cup {None} : e = enrollment
  BY AccessIs
<1> QED BY <1>0, <1>2, <1>3, <1>4, AccessIs, AccessStep DEF Backed

\* Signing out cuts the grant of the token it revokes.
LEMMA SignOutKeeps ==
    ASSUME RemindersInv, SignOut
    PROVE  RemindersInv'
<1>0. /\ UNCHANGED <<device, policies, done, now, item, version>>
      /\ cookie \in DOMAIN tokens /\ cookie' = None
  BY AccessIs DEF SignOut, settings
<1>1. PICK e \in EnrollmentRow \cup {None} :
         e = IF enrollment # None /\ enrollment.token = cookie THEN Cut(enrollment) ELSE enrollment
  BY AccessIs, CutIs
<1>2. enrollment' = e
  BY <1>1 DEF SignOut
<1>3. PICK revoked : revoked = [tokens[cookie] EXCEPT !.state = IF @ = "live" THEN "revoked" ELSE @]
  OBVIOUS
<1>4. tokens' = [tokens EXCEPT ![cookie] = revoked]
  BY <1>3 DEF SignOut
<1>5. revoked \in Token
  <2>1. tokens[cookie] \in Token
    BY <1>0, AccessIs
  <2> QED BY <1>3, <2>1 DEF Token
<1>6. /\ tokens' \in Seq(Token) /\ DOMAIN tokens' = DOMAIN tokens
      /\ \A token \in DOMAIN tokens \ {cookie} : tokens'[token] = tokens[token]
  BY <1>0, <1>4, <1>5, AccessIs
<1>7. AccessOK'
  BY <1>0, <1>6, AccessIs, Bounds DEF AccessOK
<1>8. /\ e = None <=> enrollment = None
      /\ e # None => e.mode = enrollment.mode /\ e.token \in DOMAIN tokens'
  BY <1>1, <1>6, AccessIs, CutIs
<1>9. e # None /\ e.status = "active" => e = enrollment /\ e.token # cookie
  BY <1>1, AccessIs, CutIs
<1> QED BY <1>0, <1>2, <1>6, <1>7, <1>8, <1>9, AccessIs, AccessStep DEF Backed

LEMMA DeletedIs ==
    ASSUME tokens \in Seq(Token)
    PROVE  Deleted \in Seq(Token) /\ DOMAIN Deleted = DOMAIN tokens /\ Len(Deleted) = Len(tokens)
<1>1. ASSUME NEW row \in Token
      PROVE  [row EXCEPT !.state = "deleted"] \in Token
  BY DEF Token
<1>2. DOMAIN tokens = 1..Len(tokens) /\ Len(tokens) \in Nat
  OBVIOUS
<1>4. ASSUME NEW token \in DOMAIN tokens
      PROVE  [tokens[token] EXCEPT !.state = "deleted"] \in Token
  <2>1. tokens[token] \in Token
    BY <1>2
  <2> QED BY <2>1, <1>1
<1>3. Deleted \in [1..Len(tokens) -> Token]
  BY <1>2, <1>4 DEF Deleted
<1> QED BY <1>2, <1>3

\* A new password cuts whatever grant there is.
LEMMA NewPasswordKeeps ==
    ASSUME RemindersInv, NEW own \in BOOLEAN, NewPassword(own)
    PROVE  RemindersInv'
<1>0. /\ UNCHANGED <<device, policies, done, now, item>> /\ version' \in 0..MaxVersion
  BY AccessIs, Bounds DEF NewPassword, settings
<1>1. PICK e \in EnrollmentRow \cup {None} : e = Cut(enrollment)
  BY AccessIs, CutIs
<1>2. enrollment' = e
  BY <1>1 DEF NewPassword
<1>3. /\ tokens' \in Seq(Token) /\ DOMAIN tokens \subseteq DOMAIN tokens'
      /\ cookie' \in DOMAIN tokens' \cup {None}
  <2>1. CASE own
    <3>1. PICK new \in Token : tokens' = Append(Deleted, new) /\ cookie' = Len(tokens) + 1
      BY <2>1, AccessIs, NewTokenIs DEF NewPassword
    <3> QED BY <3>1, AccessIs, DeletedIs
  <2>2. CASE ~own
    BY <2>2, AccessIs, DeletedIs DEF NewPassword
  <2> QED BY <2>1, <2>2
<1>4. AccessOK'
  BY <1>0, <1>3 DEF AccessOK
<1>5. /\ e = None <=> enrollment = None
      /\ e # None => /\ e.mode = enrollment.mode /\ e.token \in DOMAIN tokens'
                     /\ e.status # "active"
  BY <1>1, <1>3, AccessIs, CutIs
<1> QED BY <1>0, <1>2, <1>4, <1>5, AccessStep

\* A token that was pushed out is deleted, not revoked.
LEMMA PruneTokenKeeps ==
    ASSUME RemindersInv, PruneToken
    PROVE  RemindersInv'
<1>0. /\ UNCHANGED <<device, policies, done, now, item, version, cookie, enrollment>>
      /\ enrollment # None
  BY DEF PruneToken, settings
<1>1. PICK token \in DOMAIN tokens : token = enrollment.token
  BY <1>0, AccessIs
<1>2. PICK pruned : pruned = [tokens[token] EXCEPT !.state = "deleted"]
  OBVIOUS
<1>3. tokens' = [tokens EXCEPT ![token] = pruned]
  BY <1>1, <1>2 DEF PruneToken
<1>4. tokens[token] \in Token
  BY AccessIs
<1>5. pruned \in Token /\ pruned.state = "deleted" /\ pruned.created = tokens[token].created
  BY <1>2, <1>4 DEF Token
<1>6. /\ tokens' \in Seq(Token) /\ DOMAIN tokens' = DOMAIN tokens
      /\ tokens'[token] = pruned
  BY <1>3, <1>5, AccessIs
<1>7. AccessOK'
  BY <1>0, <1>6, AccessIs, Bounds DEF AccessOK
<1>8. PICK e \in EnrollmentRow \cup {None} : e = enrollment
  BY AccessIs
<1> QED BY <1>0, <1>1, <1>5, <1>6, <1>7, <1>8, AccessIs, AccessStep DEF Backed

\* The clock, the item and a composed change touch no row of the settings.
LEMMA RestStep ==
    ASSUME RemindersInv, UNCHANGED <<access, device, enrollment, policies>>, RestOK'
    PROVE  RemindersInv'
<1>1. RowsOK /\ AccessOK /\ RoomRuns(enrollment) /\ Backed(enrollment)
  BY InvariantParts
<1>2. RowsOK' /\ AccessOK' /\ RoomRuns(enrollment)' /\ Backed(enrollment)'
  BY <1>1 DEF RowsOK, PoliciesOK, AccessOK, RoomRuns, RunsMode, Backed, access
<1>3. /\ RowsOK' /\ AccessOK' /\ RestOK' /\ Backed(enrollment)' /\ RoomRuns(enrollment)'
      => RemindersInv'
  BY InvariantParts, PTL
<1> QED BY <1>2, <1>3

LEMMA ClockAndItemKeep ==
    ASSUME RemindersInv,
           Tick \/ ComeBack \/ (\E dated \in BOOLEAN : EditDue(dated))
           \/ (\E op \in OpIds : Compose(op)) \/ UNCHANGED vars
    PROVE  RemindersInv'
<1>0. RestOK
  BY InvariantParts
<1>1. None \notin Moment
  BY NoneIsNoRow, MomentIsNat
<1>2. UNCHANGED <<access, device, enrollment, policies>>
  BY DEF Tick, ComeBack, EditDue, Compose, settings, vars, access
<1>3. RestOK'
  <2>1. CASE Tick
    BY <1>0, <2>1, Bounds DEF Tick, settings, RestOK, Moment
  <2>2. CASE \E dated \in BOOLEAN : EditDue(dated)
    BY <1>0, <1>1, <2>2 DEF EditDue, NewCycle, settings, RestOK
  <2>3. CASE ComeBack
    BY <1>0, <1>1, <2>3 DEF ComeBack, NewCycle, settings, RestOK
  <2>4. CASE (\E op \in OpIds : Compose(op)) \/ UNCHANGED vars
    BY <1>0, <2>4 DEF Compose, vars, RestOK
  <2> QED BY <2>1, <2>2, <2>3, <2>4
<1> QED BY <1>2, <1>3, RestStep

-----------------------------------------------------------------------------
(* The specification.                                                      *)

LEMMA InitHolds ==
    ASSUME Init
    PROVE  RemindersInv
<1>1. 0 \in Moment /\ 0 + Lifetime \in Nat
  BY Bounds, LifetimeIsPositive DEF Moment
<1>2. AccessOK
  <2>1. [version |-> 0, state |-> "live", created |-> 0] \in Token
    BY <1>1 DEF Token
  <2> QED BY <2>1, Bounds DEF Init, AccessOK
<1>3. RestOK
  BY <1>1, NoneIsNoRow, MomentIsNat DEF Init, RestOK
<1>4. PoliciesOK(policies) /\ policies["room"] = None /\ \A scope \in Scopes : policies[scope] = None
  BY DEF Init, NoPolicies, PoliciesOK, Scopes
<1>5. CASE device = None /\ enrollment = None
  <2>1. RowsOK
    BY <1>4, <1>5 DEF RowsOK
  <2> QED BY <1>2, <1>3, <1>4, <1>5, <2>1, InvariantParts DEF Backed, RoomRuns
<1>6. CASE /\ device \in {NewDevice(1, zone) : zone \in Zones}
           /\ enrollment = NewEnrollment(DefaultMode, DefaultTime)
  <2>0. DefaultMode \in Presets /\ DefaultTime \in Times
    BY KnownPresets, BodiesAreTyped DEF DefaultMode, DefaultTime
  <2>1. now = 0 /\ cookie = 1 /\ version = 0 /\ DOMAIN tokens = {1}
        /\ tokens[1] = [version |-> 0, state |-> "live", created |-> 0]
    BY DEF Init
  <2>2. GrantExpiry(1) \in Nat /\ GrantExpiry(1) <= tokens[1].created + Lifetime
    BY <1>1, <2>1, GrantExpiryIs
  <2>3. /\ enrollment \in EnrollmentRow /\ enrollment.token = 1 /\ enrollment.version = 0
        /\ enrollment.expires = GrantExpiry(1)
    BY <1>1, <1>6, <2>0, <2>1, <2>2 DEF NewEnrollment, EnrollmentRow
  <2>4. device \in DeviceRow
    BY <1>1, <1>6, <2>0, <2>1 DEF NewDevice, DeviceRow
  <2>5. RowsOK
    BY <1>4, <2>1, <2>3, <2>4, NoneIsNoRow DEF RowsOK
  <2>6. Backed(enrollment)
    BY <2>1, <2>2, <2>3 DEF Backed
  <2> QED BY <1>2, <1>3, <1>4, <2>5, <2>6, InvariantParts DEF RoomRuns
<1> QED BY <1>5, <1>6 DEF Init

LEMMA PersonalKeeps ==
    ASSUME RemindersInv, NEW op \in OpIds, Personal(op)
    PROVE  RemindersInv'
<1>1. ASSUME NEW mode \in Presets \cup {None}, NEW time \in Times \cup {None},
             NEW zone \in Zones \cup {None},
             EnrollNewDevice(op, zone, mode, time) \/ Resume(op, zone, mode, time)
      PROVE  RemindersInv'
  BY <1>1, EnrollKeeps, ResumeKeeps
<1>2. ASSUME NEW mode \in Presets \cup {None}, NEW time \in Times \cup {None},
             NEW optOut \in BOOLEAN, PatchPreferences(op, mode, time, optOut)
      PROVE  RemindersInv'
  BY <1>2, PatchPreferencesKeeps
<1>3. ASSUME NEW zone \in Zones \cup {None}, NEW allDay \in Times \cup {None},
             PatchDevice(op, zone, allDay)
      PROVE  RemindersInv'
  BY <1>3, PatchDeviceKeeps
<1>4. ASSUME NEW scope \in Scopes, NEW state \in {"inherit", "off", "replace"},
             NEW preset \in Presets \cup {None}, NEW custom \in Customs \cup {None},
             NEW time \in Times \cup {None},
             PutPolicy(op, scope, state, preset, custom, time)
      PROVE  RemindersInv'
  BY <1>4, PutPolicyKeeps
<1> QED BY <1>1, <1>2, <1>3, <1>4 DEF Personal

LEMMA NextKeeps ==
    ASSUME RemindersInv, [Next]_vars
    PROVE  RemindersInv'
<1>1. ASSUME NEW op \in OpIds, Personal(op)
      PROVE  RemindersInv'
  BY <1>1, PersonalKeeps
<1>2. CASE SignIn \/ SignOut \/ PruneToken \/ \E own \in BOOLEAN : NewPassword(own)
  BY <1>2, SignInKeeps, SignOutKeeps, PruneTokenKeeps, NewPasswordKeeps
<1>3. CASE \/ Tick \/ ComeBack \/ \E dated \in BOOLEAN : EditDue(dated)
           \/ (\E op \in OpIds : Compose(op)) \/ UNCHANGED vars
  BY <1>3, ClockAndItemKeep
<1> QED BY <1>1, <1>2, <1>3 DEF Next

\* The three invariants of the settings, together.
THEOREM RemindersInvariant == Spec => []RemindersInv
<1>1. Init => RemindersInv
  BY InitHolds
<1>2. RemindersInv /\ [Next]_vars => RemindersInv'
  BY NextKeeps
<1> QED BY <1>1, <1>2, PTL DEF Spec

\* The rows of reminders.db keep their shape.
THEOREM RowsKeepTheirShape == Spec => []TypeOK
<1>1. RemindersInv => TypeOK
  BY DEF RemindersInv
<1> QED BY <1>1, RemindersInvariant, PTL

\* No sign-out, password change, resume or preference leaves a grant active that
\* nothing backs.
THEOREM GrantsAreBacked == Spec => []ActiveGrantIsBacked
<1>1. RemindersInv => ActiveGrantIsBacked
  BY DEF RemindersInv
<1> QED BY <1>1, RemindersInvariant, PTL

\* The mode and the rules that run agree, whichever handler changed one of them.
THEOREM PresetsRun == Spec => []PresetIsWhatRuns
<1>1. RemindersInv => PresetIsWhatRuns
  BY DEF RemindersInv
<1> QED BY <1>1, RemindersInvariant, PTL

-----------------------------------------------------------------------------
(* What a settings op changes, and what its author had seen of it.         *)

\* A policy's revision; 0 before its first row.
Rev(row) == IF row = None THEN 0 ELSE row.revision

\* The policies after one scope's policy was saved now.
SavedNow(p, scope) ==
    \E row \in PolicyRow :
        /\ row.at = now /\ row.revision = Rev(policies[scope]) + 1
        /\ p = [policies EXCEPT ![scope] = row]

\* Settings of an enrollment that a page shows.
SameSettings(d, e) == d.status = e.status /\ d.mode = e.mode /\ d.time = e.time
SameDevice(d, e)   == d.zone = e.zone /\ d.allDay = e.allDay

\* The op was composed on this revision of the enrollment, or of the policy.
OnEnrollment(op) ==
    /\ drafts[op].enrollment # None
    /\ drafts[op].enrollment.revision = enrollment.revision
OnPolicy(op, scope) ==
    /\ drafts[op].enrollment # None
    /\ BaseRevision(op, scope) = Rev(policies[scope])

DeviceMove(op) ==
    /\ device' \in DeviceRow /\ device'.id = device.id
    /\ device'.anchorAt \in {device.anchorAt, now} /\ device'.zoneAt \in {device.zoneAt, now}
    /\ \/ device'.revision = device.revision /\ SameDevice(device', device)
       \/ /\ device'.revision = device.revision + 1
          /\ drafts[op].device # None /\ drafts[op].device.revision = device.revision

EnrollmentMove(op) ==
    /\ enrollment' \in EnrollmentRow
    /\ enrollment'.activatedAt \in {enrollment.activatedAt, now}
    /\ enrollment'.timeAt \in {enrollment.timeAt, now}
    /\ \/ enrollment'.revision = enrollment.revision /\ SameSettings(enrollment', enrollment)
       \/ enrollment'.revision = enrollment.revision + 1 /\ OnEnrollment(op)
       \/ /\ enrollment'.revision = enrollment.revision + 1 /\ OnPolicy(op, "room")
          /\ enrollment'.status = enrollment.status

PolicyMove(op) ==
    \/ /\ policies' = policies /\ enrollment'.policyAt = enrollment.policyAt
       /\ enrollment'.mode = enrollment.mode /\ enrollment'.time = enrollment.time
    \/ /\ SavedNow(policies', "room")
       /\ enrollment'.policyAt = now
       /\ enrollment'.revision = enrollment.revision + 1
       /\ OnEnrollment(op) \/ OnPolicy(op, "room")
    \/ \E scope \in {"list", "item"} :
       /\ SavedNow(policies', scope)
       /\ enrollment' = enrollment
       /\ OnPolicy(op, scope)

\* What a settings op of a known installation does.
SettingsMove(op) ==
    /\ device \in DeviceRow /\ enrollment \in EnrollmentRow
    /\ UNCHANGED <<access, now, item>>
    /\ done' = done \cup {op} /\ drafts' = [drafts EXCEPT ![op] = None]
    /\ DeviceMove(op) /\ EnrollmentMove(op) /\ PolicyMove(op)

LEMMA SaveIsNow ==
    ASSUME PoliciesOK(policies), now \in Moment, NEW scope \in Scopes,
           NEW state \in {"inherit", "off", "replace"}, NEW preset \in Presets \cup {None},
           NEW summary \in BOOLEAN,
           NEW rules \in {custom.rules : custom \in Customs} \cup {{}, Scheduled}
    PROVE  SavedNow(Save(scope, state, preset, summary, rules), scope)
<1> DEFINE row == SavedRow(scope, policies[scope], state, preset, summary, rules)
<1> DEFINE revision == IF policies[scope] = None THEN 1 ELSE policies[scope].revision + 1
<1>1. policies[scope] \in PolicyRow \cup {None}
  BY DEF PoliciesOK
<1>2. revision \in Nat /\ revision = Rev(policies[scope]) + 1
  BY <1>1 DEF PolicyRow, Rev
<1>3. row = [state |-> state, preset |-> IF scope = "room" THEN None ELSE preset,
             summary |-> summary, rules |-> rules, revision |-> revision, at |-> now]
  BY DEF SavedRow
<1> HIDE DEF revision, row
<1>4. row \in PolicyRow /\ row.at = now /\ row.revision = revision
  BY <1>2, <1>3 DEF PolicyRow
<1>5. Save(scope, state, preset, summary, rules) = [policies EXCEPT ![scope] = row]
  BY DEF Save, row
<1> QED BY <1>2, <1>4, <1>5 DEF SavedNow

\* The room's policy is saved when the mode or the summary time changes.
LEMMA SyncedIsNow ==
    ASSUME RemindersInv, enrollment # None, NEW mode \in Presets, NEW timeChanged \in BOOLEAN,
           NEW synced, synced = SyncedPolicies(enrollment.mode, mode, timeChanged)
    PROVE  IF mode # enrollment.mode \/ timeChanged THEN SavedNow(synced, "room")
           ELSE synced = policies
<1>0. RowsOK /\ PoliciesOK(policies) /\ now \in Moment /\ "room" \in Scopes
      /\ enrollment \in EnrollmentRow
  BY InvariantParts DEF RestOK, RowsOK, Scopes
<1>1. CASE mode # enrollment.mode
  <2>1. synced = Save("room", "replace", None, PresetSummary(mode), PresetRules(mode))
    BY <1>1 DEF SyncedPolicies, ModeChanges
  <2>2. PresetRules(mode) \in {{}, Scheduled} /\ PresetSummary(mode) \in BOOLEAN
    BY PresetIs
  <2>3. SavedNow(synced, "room")
    BY <1>0, <2>1, <2>2, SaveIsNow
  <2> QED BY <1>1, <2>3
<1>2. CASE mode = enrollment.mode /\ timeChanged
  <2> DEFINE current == OwnPolicy("room", [enrollment EXCEPT !.mode = mode])
  <2>1. synced = Save("room", "replace", None, current.summary, current.rules)
    BY <1>2 DEF SyncedPolicies, ModeChanges
  <2>2. /\ current.rules \in {custom.rules : custom \in Customs} \cup {{}, Scheduled}
        /\ current.summary \in BOOLEAN
    <3>1. CASE policies["room"] = None
      <4>1. [enrollment EXCEPT !.mode = mode].mode = mode
        BY <1>0 DEF EnrollmentRow
      <4>2. current.rules = PresetRules(mode) /\ current.summary = PresetSummary(mode)
        BY <3>1, <4>1 DEF OwnPolicy
      <4> QED BY <4>2, PresetIs
    <3>2. CASE policies["room"] # None
      <4>1. PICK row \in PolicyRow : row = policies["room"]
        BY <1>0, <3>2 DEF PoliciesOK
      <4>2. current = [row EXCEPT !.preset = [enrollment EXCEPT !.mode = mode].mode]
        BY <3>2, <4>1 DEF OwnPolicy
      <4> HIDE DEF current
      <4>3. current.rules = row.rules /\ current.summary = row.summary
        BY <4>2 DEF PolicyRow
      <4> QED BY <4>3 DEF PolicyRow
    <3> QED BY <3>1, <3>2
  <2> HIDE DEF current
  <2>3. SavedNow(synced, "room")
    BY <1>0, <2>1, <2>2, SaveIsNow
  <2> QED BY <1>2, <2>3
<1>3. CASE mode = enrollment.mode /\ ~timeChanged
  <2>1. synced = policies
    BY <1>3 DEF SyncedPolicies, ModeChanges
  <2> QED BY <1>3, <2>1
<1> QED BY <1>1, <1>2, <1>3

LEMMA SettingsAre ==
    ASSUME NEW enrolled \in EnrollmentRow, NEW mode \in Presets, NEW time \in Times, now \in Moment
    PROVE  LET set == WithSettings(enrolled, mode, time) IN
           /\ set.time = time
           /\ set.activatedAt = enrolled.activatedAt
           /\ set.timeAt \in {enrolled.timeAt, now}
           /\ set.policyAt = IF mode # enrolled.mode \/ time # enrolled.time
                             THEN now ELSE enrolled.policyAt
BY DEF WithSettings, EnrollmentRow

LEMMA ResumeMoves ==
    ASSUME RemindersInv, NEW op \in OpIds, NEW zone,
           NEW mode \in Presets \cup {None}, NEW time \in Times \cup {None},
           Resume(op, zone, mode, time)
    PROVE  /\ SettingsMove(op)
           /\ enrollment'.activatedAt = IF WasActive THEN enrollment.activatedAt ELSE now
           /\ enrollment'.token = cookie
<1> DEFINE newMode == Given(mode, enrollment.mode)
<1> DEFINE newTime == Given(time, enrollment.time)
<1>1. /\ FirstRun(op) /\ Known /\ UNCHANGED <<access, now, item>>
      /\ done' = done \cup {op} /\ drafts' = [drafts EXCEPT ![op] = None]
      /\ OnEnrollment(op)
  BY DEF Resume, Ran, OnEnrollment
<1>2. newMode \in Presets /\ newTime \in Times
  BY <1>1, KnownIs DEF Given
<1>3. PICK w \in EnrollmentRow :
         /\ w = WithSettings(enrollment, newMode, newTime)
         /\ w.mode = newMode /\ w.time = newTime /\ w.revision = enrollment.revision
         /\ w.activatedAt = enrollment.activatedAt
         /\ w.timeAt \in {enrollment.timeAt, now}
         /\ w.policyAt = IF newMode # enrollment.mode \/ newTime # enrollment.time
                         THEN now ELSE enrollment.policyAt
  <2>1. now \in Moment /\ enrollment \in EnrollmentRow
    BY <1>1, KnownIs, OpStarts
  <2> HIDE DEF newMode, newTime
  <2> QED BY <1>2, <2>1, WithSettingsIs, SettingsAre
<1>4. GrantExpiry(cookie) \in Nat
  BY <1>1, OpStarts, GrantExpiryIs DEF Token
<1>5. PICK e : e = [w EXCEPT !.token = cookie, !.version = version, !.status = "active",
                             !.revision = @ + 1,
                             !.activatedAt = IF WasActive THEN @ ELSE now,
                             !.expires = GrantExpiry(cookie)]
  OBVIOUS
<1>6. enrollment' = e
  BY <1>3, <1>5 DEF Resume
<1>7. /\ e \in EnrollmentRow /\ e.token = cookie
      /\ e.mode = w.mode /\ e.time = w.time /\ e.revision = w.revision + 1
      /\ e.activatedAt = IF WasActive THEN w.activatedAt ELSE now
      /\ e.timeAt = w.timeAt /\ e.policyAt = w.policyAt
  <2>1. w.revision + 1 \in Nat /\ (IF WasActive THEN w.activatedAt ELSE now) \in Moment
    BY <1>1, OpStarts DEF EnrollmentRow
  <2> HIDE DEF newMode, newTime
  <2> QED BY <1>1, <1>4, <1>5, <2>1, OpStarts DEF EnrollmentRow
<1>8. PICK p : p = SyncedPolicies(enrollment.mode, newMode, newTime # enrollment.time)
  OBVIOUS
<1>9. policies' = p
  BY <1>8 DEF Resume
<1> HIDE DEF newMode, newTime
<1>10. IF newMode # enrollment.mode \/ newTime # enrollment.time THEN SavedNow(p, "room")
       ELSE p = policies
  BY <1>1, <1>2, <1>8, KnownIs, SyncedIsNow
<1>11. PolicyMove(op)
  BY <1>1, <1>3, <1>6, <1>7, <1>9, <1>10 DEF PolicyMove
<1>12. EnrollmentMove(op)
  BY <1>1, <1>3, <1>6, <1>7 DEF EnrollmentMove
<1>13. DeviceMove(op)
  <2>1. device \in DeviceRow /\ device' = [device EXCEPT !.expires = now + Lifetime]
    BY <1>1, KnownIs DEF Resume
  <2>2. /\ device' \in DeviceRow /\ device'.id = device.id /\ device'.revision = device.revision
        /\ device'.anchorAt = device.anchorAt /\ device'.zoneAt = device.zoneAt
        /\ device'.zone = device.zone /\ device'.allDay = device.allDay
    BY <1>1, <2>1, OpStarts DEF DeviceRow
  <2> QED BY <2>2 DEF DeviceMove, SameDevice
<1>14. device \in DeviceRow /\ enrollment \in EnrollmentRow
  BY <1>1, KnownIs
<1> QED BY <1>1, <1>3, <1>6, <1>7, <1>11, <1>12, <1>13, <1>14 DEF SettingsMove

LEMMA PatchPreferencesMoves ==
    ASSUME RemindersInv, NEW op \in OpIds, NEW optOut \in BOOLEAN,
           NEW mode \in Presets \cup {None}, NEW time \in Times \cup {None},
           PatchPreferences(op, mode, time, optOut)
    PROVE  /\ SettingsMove(op) /\ UNCHANGED device
           /\ enrollment'.activatedAt = enrollment.activatedAt
           /\ enrollment'.token = enrollment.token /\ enrollment'.version = enrollment.version
           /\ enrollment'.expires = enrollment.expires
           /\ enrollment'.status \in {enrollment.status, "opted_out"}
<1> DEFINE newMode == Given(mode, enrollment.mode)
<1> DEFINE newTime == Given(time, enrollment.time)
<1>1. /\ FirstRun(op) /\ Known /\ UNCHANGED <<access, now, item, device>>
      /\ done' = done \cup {op} /\ drafts' = [drafts EXCEPT ![op] = None]
      /\ OnEnrollment(op)
  BY DEF PatchPreferences, Ran, OnEnrollment
<1>2. newMode \in Presets /\ newTime \in Times
  BY <1>1, KnownIs DEF Given
<1>3. PICK w \in EnrollmentRow :
         /\ w = WithSettings(enrollment, newMode, newTime)
         /\ w.mode = newMode /\ w.time = newTime /\ w.revision = enrollment.revision
         /\ w.token = enrollment.token /\ w.version = enrollment.version
         /\ w.status = enrollment.status /\ w.expires = enrollment.expires
         /\ w.activatedAt = enrollment.activatedAt
         /\ w.timeAt \in {enrollment.timeAt, now}
         /\ w.policyAt = IF newMode # enrollment.mode \/ newTime # enrollment.time
                         THEN now ELSE enrollment.policyAt
  <2>1. now \in Moment /\ enrollment \in EnrollmentRow
    BY <1>1, KnownIs, OpStarts
  <2> HIDE DEF newMode, newTime
  <2> QED BY <1>2, <2>1, WithSettingsIs, SettingsAre
<1>4. PICK set : set = [w EXCEPT !.status = IF optOut THEN "opted_out" ELSE @]
  OBVIOUS
<1>5. PICK e : e = IF set = enrollment THEN enrollment ELSE [set EXCEPT !.revision = @ + 1]
  OBVIOUS
<1>6. enrollment' = e
  BY <1>3, <1>4, <1>5 DEF PatchPreferences
<1>7. PICK p : p = SyncedPolicies(enrollment.mode, newMode, newTime # enrollment.time)
  OBVIOUS
<1>8. policies' = p
  BY <1>7 DEF PatchPreferences
<1> HIDE DEF newMode, newTime
<1>9. /\ set \in EnrollmentRow /\ set.mode = w.mode /\ set.time = w.time
      /\ set.token = w.token /\ set.version = w.version /\ set.expires = w.expires
      /\ set.activatedAt = w.activatedAt /\ set.timeAt = w.timeAt /\ set.policyAt = w.policyAt
      /\ set.status \in {w.status, "opted_out"} /\ set.revision = w.revision
  BY <1>4 DEF EnrollmentRow
<1>10. set.revision + 1 \in Nat
  BY <1>9 DEF EnrollmentRow
<1>11. /\ e \in EnrollmentRow /\ e.mode = w.mode /\ e.time = w.time
       /\ e.token = w.token /\ e.version = w.version /\ e.expires = w.expires
       /\ e.activatedAt = w.activatedAt /\ e.timeAt = w.timeAt /\ e.policyAt = w.policyAt
       /\ e.status \in {w.status, "opted_out"}
       /\ e = enrollment \/ e.revision = enrollment.revision + 1
  <2>1. CASE set = enrollment
    BY <1>5, <1>9, <2>1
  <2>2. CASE set # enrollment
    <3>1. e = [set EXCEPT !.revision = @ + 1]
      BY <1>5, <2>2
    <3> QED BY <1>3, <1>9, <1>10, <3>1 DEF EnrollmentRow
  <2> QED BY <2>1, <2>2
<1>12. IF newMode # enrollment.mode \/ newTime # enrollment.time THEN SavedNow(p, "room")
       ELSE p = policies
  BY <1>1, <1>2, <1>7, KnownIs, SyncedIsNow
<1>13. PolicyMove(op)
  BY <1>1, <1>3, <1>6, <1>8, <1>11, <1>12 DEF PolicyMove
<1>14. EnrollmentMove(op)
  BY <1>1, <1>3, <1>6, <1>11 DEF EnrollmentMove, SameSettings
<1>15. device \in DeviceRow /\ enrollment \in EnrollmentRow
  BY <1>1, KnownIs
<1>16. DeviceMove(op)
  BY <1>1, <1>15 DEF DeviceMove, SameDevice
<1> QED BY <1>1, <1>3, <1>6, <1>11, <1>13, <1>14, <1>15, <1>16 DEF SettingsMove

LEMMA PatchDeviceMoves ==
    ASSUME RemindersInv, NEW op \in OpIds, NEW zone \in Zones \cup {None},
           NEW allDay \in Times \cup {None}, PatchDevice(op, zone, allDay)
    PROVE  SettingsMove(op) /\ UNCHANGED <<enrollment, policies>> /\ device'.expires = device.expires
<1>1. /\ FirstRun(op) /\ Known /\ UNCHANGED <<access, now, item, enrollment, policies>>
      /\ done' = done \cup {op} /\ drafts' = [drafts EXCEPT ![op] = None]
      /\ drafts[op].device # None /\ drafts[op].device.revision = device.revision
  BY DEF PatchDevice, Ran
<1>2. PICK z \in Zones, a \in Times : z = Given(zone, device.zone) /\ a = Given(allDay, device.allDay)
  BY <1>1, KnownIs DEF Given, DeviceRow
<1>3. device' = WithDeviceSettings(z, a)
  BY <1>2 DEF PatchDevice
<1>4. device \in DeviceRow /\ now \in Moment /\ enrollment \in EnrollmentRow
  BY <1>1, KnownIs, OpStarts
<1>5. PICK set : set = [device EXCEPT !.zone = z, !.allDay = a,
                           !.zoneAt = IF z # device.zone THEN now ELSE @,
                           !.anchorAt = IF z # device.zone \/ a # device.allDay THEN now ELSE @]
  OBVIOUS
<1>6. device' = IF set = device THEN device ELSE [set EXCEPT !.revision = @ + 1]
  BY <1>3, <1>5 DEF WithDeviceSettings
<1>7. /\ set \in DeviceRow /\ set.id = device.id /\ set.revision = device.revision
      /\ set.anchorAt \in {device.anchorAt, now} /\ set.zoneAt \in {device.zoneAt, now}
      /\ set.expires = device.expires
  BY <1>4, <1>5 DEF DeviceRow
<1>8. CASE set = device
  BY <1>1, <1>4, <1>6, <1>8
     DEF SettingsMove, DeviceMove, SameDevice, EnrollmentMove, SameSettings, PolicyMove
<1>9. CASE set # device
  <2>1. device' = [set EXCEPT !.revision = @ + 1]
    BY <1>6, <1>9
  <2>2. /\ device' \in DeviceRow /\ device'.id = device.id
        /\ device'.revision = device.revision + 1
        /\ device'.anchorAt \in {device.anchorAt, now} /\ device'.zoneAt \in {device.zoneAt, now}
        /\ device'.expires = device.expires
    <3>1. set.revision + 1 \in Nat
      BY <1>7 DEF DeviceRow
    <3> QED BY <1>7, <2>1, <3>1 DEF DeviceRow
  <2>3. DeviceMove(op)
    BY <1>1, <2>2 DEF DeviceMove
  <2> QED BY <1>1, <1>4, <2>2, <2>3 DEF SettingsMove, EnrollmentMove, SameSettings, PolicyMove
<1> QED BY <1>8, <1>9

LEMMA OwnRevision ==
    ASSUME PoliciesOK(policies), NEW scope \in Scopes
    PROVE  OwnPolicy(scope, enrollment).revision = Rev(policies[scope])
<1>1. CASE policies[scope] = None
  BY <1>1 DEF OwnPolicy, Rev
<1>2. CASE policies[scope] # None
  <2>1. PICK row \in PolicyRow : row = policies[scope]
    BY <1>2 DEF PoliciesOK
  <2>2. PICK preset : OwnPolicy(scope, enrollment) = [row EXCEPT !.preset = preset]
    BY <1>2, <2>1 DEF OwnPolicy
  <2>3. OwnPolicy(scope, enrollment).revision = row.revision
    BY <2>2 DEF PolicyRow
  <2> QED BY <1>2, <2>1, <2>3 DEF Rev
<1> QED BY <1>1, <1>2

LEMMA PutPolicyMoves ==
    ASSUME RemindersInv, NEW op \in OpIds, NEW scope \in Scopes,
           NEW state \in {"inherit", "off", "replace"}, NEW preset \in Presets \cup {None},
           NEW custom \in Customs \cup {None}, NEW time \in Times \cup {None},
           PutPolicy(op, scope, state, preset, custom, time)
    PROVE  /\ SettingsMove(op) /\ UNCHANGED device
           /\ enrollment'.activatedAt = enrollment.activatedAt
           /\ enrollment'.token = enrollment.token /\ enrollment'.version = enrollment.version
           /\ enrollment'.expires = enrollment.expires
           /\ enrollment'.status = enrollment.status
<1> DEFINE rules   == IF preset = "custom" THEN custom.rules ELSE PresetRules(preset)
<1> DEFINE summary == IF preset = "custom" THEN custom.summary ELSE PresetSummary(preset)
<1>1. /\ FirstRun(op) /\ Known /\ UNCHANGED <<access, now, item, device>>
      /\ done' = done \cup {op} /\ drafts' = [drafts EXCEPT ![op] = None]
      /\ drafts[op].enrollment # None
      /\ OwnPolicy(scope, enrollment).revision = BaseRevision(op, scope)
      /\ scope = "room" => preset \in Presets
      /\ preset = "custom" => custom \in Customs
  BY DEF PutPolicy, Ran
<1>2. /\ rules \in {c.rules : c \in Customs} \cup {{}, Scheduled}
      /\ summary \in BOOLEAN
  <2>1. CASE preset = "custom"
    BY <1>1, <2>1, BodiesAreTyped
  <2>2. CASE preset # "custom"
    BY <2>2, PresetIs
  <2> QED BY <2>1, <2>2
<1>3. OnPolicy(op, scope)
  BY <1>1, KnownIs, OwnRevision DEF OnPolicy
<1>4. PICK p : p = Save(scope, state, preset, summary, rules)
  OBVIOUS
<1>5. SavedNow(p, scope)
  BY <1>1, <1>2, <1>4, KnownIs, OpStarts, SaveIsNow
<1>6. \/ enrollment' = enrollment /\ policies' = policies
      \/ policies' = p /\ scope # "room" /\ enrollment' = enrollment
      \/ /\ policies' = p /\ scope = "room"
         /\ \E timeAt \in {enrollment.timeAt, now} :
              enrollment' = [enrollment EXCEPT
                !.mode = preset, !.time = Given(time, @), !.policyAt = now,
                !.timeAt = timeAt, !.revision = @ + 1]
  BY <1>4 DEF PutPolicy
<1> HIDE DEF rules, summary
<1>7. /\ device \in DeviceRow /\ enrollment \in EnrollmentRow /\ DeviceMove(op)
  BY <1>1, KnownIs DEF DeviceMove, SameDevice
<1>8. CASE enrollment' = enrollment /\ policies' = policies
  BY <1>1, <1>7, <1>8 DEF SettingsMove, EnrollmentMove, SameSettings, PolicyMove
<1>9. CASE policies' = p /\ scope # "room" /\ enrollment' = enrollment
  <2>1. scope \in {"list", "item"}
    BY <1>9 DEF Scopes
  <2>2. PolicyMove(op)
    BY <1>3, <1>5, <1>9, <2>1 DEF PolicyMove
  <2> QED BY <1>1, <1>7, <1>9, <2>2 DEF SettingsMove, EnrollmentMove, SameSettings
<1>10. ASSUME policies' = p, scope = "room", NEW timeAt \in {enrollment.timeAt, now},
              enrollment' = [enrollment EXCEPT
                !.mode = preset, !.time = Given(time, @), !.policyAt = now,
                !.timeAt = timeAt, !.revision = @ + 1]
       PROVE  /\ SettingsMove(op)
              /\ enrollment'.activatedAt = enrollment.activatedAt
              /\ enrollment'.token = enrollment.token /\ enrollment'.version = enrollment.version
              /\ enrollment'.expires = enrollment.expires
              /\ enrollment'.status = enrollment.status
  <2>1. PICK old \in EnrollmentRow : old = enrollment
    BY <1>7
  <2>2. PICK t \in Times : t = Given(time, enrollment.time)
    BY <1>1, KnownIs DEF Given
  <2>3. PICK e : e = [old EXCEPT !.mode = preset, !.time = t, !.policyAt = now,
                                 !.timeAt = timeAt, !.revision = @ + 1]
    OBVIOUS
  <2>4. old.revision + 1 \in Nat /\ timeAt \in Moment /\ now \in Moment
    BY <1>1, <2>1, OpStarts DEF EnrollmentRow
  <2>5. /\ e \in EnrollmentRow /\ e.token = old.token /\ e.version = old.version
        /\ e.expires = old.expires /\ e.status = old.status
        /\ e.activatedAt = old.activatedAt /\ e.policyAt = now /\ e.timeAt = timeAt
        /\ e.revision = old.revision + 1
    BY <1>1, <1>10, <2>3, <2>4 DEF EnrollmentRow
  <2>6. enrollment' = e
    BY <1>10, <2>1, <2>2, <2>3
  <2>7. PolicyMove(op)
    BY <1>3, <1>5, <1>10, <2>1, <2>5, <2>6 DEF PolicyMove
  <2>8. EnrollmentMove(op)
    BY <1>3, <1>10, <2>1, <2>5, <2>6 DEF EnrollmentMove
  <2> QED BY <1>1, <1>7, <2>1, <2>5, <2>6, <2>7, <2>8 DEF SettingsMove
<1> QED BY <1>1, <1>6, <1>8, <1>9, <1>10

\* What the settings op of a page does, whichever it is.
LEMMA PersonalIs ==
    ASSUME RemindersInv, NEW op \in OpIds, Personal(op)
    PROVE  /\ FirstRun(op)
           /\ \/ Known /\ SettingsMove(op)
              \/ \E zone \in Zones \cup {None}, mode \in Presets \cup {None},
                    time \in Times \cup {None} : EnrollNewDevice(op, zone, mode, time)
<1>1. ASSUME NEW mode \in Presets \cup {None}, NEW time \in Times \cup {None},
             NEW zone \in Zones \cup {None}, EnrollNewDevice(op, zone, mode, time)
      PROVE  FirstRun(op)
  BY <1>1 DEF EnrollNewDevice
<1>2. ASSUME NEW mode \in Presets \cup {None}, NEW time \in Times \cup {None},
             NEW zone \in Zones \cup {None}, Resume(op, zone, mode, time)
      PROVE  FirstRun(op) /\ Known /\ SettingsMove(op)
  <2>1. SettingsMove(op)
    BY <1>2, ResumeMoves
  <2> QED BY <1>2, <2>1 DEF Resume
<1>3. ASSUME NEW mode \in Presets \cup {None}, NEW time \in Times \cup {None},
             NEW optOut \in BOOLEAN, PatchPreferences(op, mode, time, optOut)
      PROVE  FirstRun(op) /\ Known /\ SettingsMove(op)
  <2>1. SettingsMove(op)
    BY <1>3, PatchPreferencesMoves
  <2> QED BY <1>3, <2>1 DEF PatchPreferences
<1>4. ASSUME NEW zone \in Zones \cup {None}, NEW allDay \in Times \cup {None},
             PatchDevice(op, zone, allDay)
      PROVE  FirstRun(op) /\ Known /\ SettingsMove(op)
  <2>1. SettingsMove(op)
    BY <1>4, PatchDeviceMoves
  <2> QED BY <1>4, <2>1 DEF PatchDevice
<1>5. ASSUME NEW scope \in Scopes, NEW state \in {"inherit", "off", "replace"},
             NEW preset \in Presets \cup {None}, NEW custom \in Customs \cup {None},
             NEW time \in Times \cup {None},
             PutPolicy(op, scope, state, preset, custom, time)
      PROVE  FirstRun(op) /\ Known /\ SettingsMove(op)
  <2>1. SettingsMove(op)
    BY <1>5, PutPolicyMoves
  <2> QED BY <1>5, <2>1 DEF PutPolicy
<1> QED BY <1>1, <1>2, <1>3, <1>4, <1>5 DEF Personal

-----------------------------------------------------------------------------
(* What a page showed is an earlier state of the rows: its revisions are   *)
(* no newer than the rows', and where one is the same, so is what it       *)
(* counts.  The enrollment's revision counts the mode and the room's       *)
(* policy as well, and the room policy's revision counts the mode too.     *)

SeenIs(d) ==
    /\ d.device.revision <= device.revision
    /\ d.device.revision = device.revision => SameDevice(d.device, device)
    /\ d.enrollment.revision <= enrollment.revision
    /\ d.enrollment.revision = enrollment.revision =>
          /\ SameSettings(d.enrollment, enrollment)
          /\ d.policies["room"] = policies["room"]
    /\ \A scope \in Scopes :
          /\ Rev(d.policies[scope]) <= Rev(policies[scope])
          /\ Rev(d.policies[scope]) = Rev(policies[scope]) => d.policies[scope] = policies[scope]
    /\ Rev(d.policies["room"]) = Rev(policies["room"]) =>
          d.enrollment.mode = enrollment.mode /\ d.enrollment.time = enrollment.time

\* The numbers of what a page showed.
Numbered(d) ==
    /\ d.device.id \in Nat /\ d.device.revision \in Nat /\ d.enrollment.revision \in Nat
    /\ \A scope \in Scopes : Rev(d.policies[scope]) \in Nat

\* It showed no installation, an earlier one, or the present one as it was.
DraftOK(d) ==
    \/ d.device = None /\ d.enrollment = None
    \/ /\ Numbered(d) /\ device # None /\ d.device.id <= device.id
       /\ d.device.id = device.id => SeenIs(d)

DraftsOK ==
    /\ drafts = [op \in OpIds |-> drafts[op]]
    /\ \A op \in OpIds : drafts[op] # None => DraftOK(drafts[op])

\* The rows have moved on from what they were, and kept what their revisions count.
Forward ==
    /\ device \in DeviceRow /\ enrollment \in EnrollmentRow
    /\ device' \in DeviceRow /\ enrollment' \in EnrollmentRow
    /\ device'.id = device.id
    /\ device'.revision >= device.revision
    /\ device'.revision = device.revision => SameDevice(device', device)
    /\ enrollment'.revision >= enrollment.revision
    /\ enrollment'.revision = enrollment.revision =>
          SameSettings(enrollment', enrollment) /\ policies'["room"] = policies["room"]
    /\ \A scope \in Scopes :
          /\ Rev(policies[scope]) \in Nat /\ Rev(policies'[scope]) \in Nat
          /\ Rev(policies'[scope]) >= Rev(policies[scope])
          /\ Rev(policies'[scope]) = Rev(policies[scope]) => policies'[scope] = policies[scope]
    /\ Rev(policies'["room"]) = Rev(policies["room"]) =>
          enrollment'.mode = enrollment.mode /\ enrollment'.time = enrollment.time

LEMMA ForwardKeeps ==
    ASSUME Forward, NEW d, DraftOK(d)
    PROVE  DraftOK(d)'
<1>0. /\ device # None /\ device' # None
      /\ device.id \in Nat /\ device.revision \in Nat /\ enrollment.revision \in Nat
      /\ device'.id = device.id /\ device'.revision \in Nat /\ enrollment'.revision \in Nat
  BY NoneIsNoRow DEF Forward, DeviceRow, EnrollmentRow
<1>1. CASE d.device = None /\ d.enrollment = None
  BY <1>1 DEF DraftOK
<1>2. CASE /\ Numbered(d) /\ device # None /\ d.device.id <= device.id
           /\ d.device.id # device.id
  BY <1>0, <1>2 DEF DraftOK, Numbered
<1>3. CASE Numbered(d) /\ device # None /\ d.device.id = device.id /\ SeenIs(d)
  <2>0. d.device.revision \in Nat /\ d.enrollment.revision \in Nat
    BY <1>3 DEF Numbered
  <2>1. /\ d.device.revision <= device'.revision
        /\ d.device.revision = device'.revision => SameDevice(d.device, device')
    BY <1>0, <1>3, <2>0 DEF Forward, SeenIs, SameDevice
  <2>2. /\ d.enrollment.revision <= enrollment'.revision
        /\ d.enrollment.revision = enrollment'.revision =>
              /\ SameSettings(d.enrollment, enrollment')
              /\ d.policies["room"] = policies'["room"]
    BY <1>0, <1>3, <2>0 DEF Forward, SeenIs, SameSettings
  <2>3. ASSUME NEW scope \in Scopes
        PROVE  /\ Rev(d.policies[scope]) <= Rev(policies'[scope])
               /\ Rev(d.policies[scope]) = Rev(policies'[scope]) =>
                     d.policies[scope] = policies'[scope]
               /\ Rev(d.policies[scope]) = Rev(policies'[scope]) =>
                     Rev(policies[scope]) = Rev(policies'[scope])
    <3>1. /\ Rev(policies[scope]) \in Nat /\ Rev(policies'[scope]) \in Nat
          /\ Rev(d.policies[scope]) \in Nat
          /\ Rev(policies'[scope]) >= Rev(policies[scope])
          /\ Rev(policies'[scope]) = Rev(policies[scope]) => policies'[scope] = policies[scope]
      BY <1>3 DEF Forward, Numbered
    <3>2. /\ Rev(d.policies[scope]) <= Rev(policies[scope])
          /\ Rev(d.policies[scope]) = Rev(policies[scope]) => d.policies[scope] = policies[scope]
      BY <1>3 DEF SeenIs
    <3> QED BY <3>1, <3>2
  <2>4. Rev(d.policies["room"]) = Rev(policies'["room"]) =>
          d.enrollment.mode = enrollment'.mode /\ d.enrollment.time = enrollment'.time
    <3>1. "room" \in Scopes
      BY DEF Scopes
    <3> QED BY <1>3, <2>3, <3>1 DEF Forward, SeenIs
  <2>5. SeenIs(d)'
    BY <2>1, <2>2, <2>3, <2>4 DEF SeenIs, SameDevice, SameSettings, Rev
  <2> QED BY <1>0, <1>3, <2>5 DEF DraftOK, Numbered
<1> QED BY <1>1, <1>2, <1>3 DEF DraftOK

LEMMA RevIs ==
    ASSUME NEW row \in PolicyRow \cup {None}
    PROVE  Rev(row) \in Nat
BY DEF Rev, PolicyRow

\* A saved policy is newer, the other scopes' stay.
LEMMA SavedIs ==
    ASSUME PoliciesOK(policies), NEW scope \in Scopes, NEW p, SavedNow(p, scope)
    PROVE  /\ PoliciesOK(policies) /\ Rev(p[scope]) = Rev(policies[scope]) + 1
           /\ p[scope] \in PolicyRow /\ p[scope].at = now
           /\ \A other \in Scopes \ {scope} : p[other] = policies[other]
           /\ \A s \in Scopes : p[s] \in PolicyRow \cup {None}
<1>1. PICK row \in PolicyRow :
        /\ row.at = now /\ row.revision = Rev(policies[scope]) + 1
        /\ p = [policies EXCEPT ![scope] = row]
  BY DEF SavedNow
<1>2. p[scope] = row /\ \A other \in Scopes \ {scope} : p[other] = policies[other]
  BY <1>1 DEF PoliciesOK
<1>3. row # None
  BY NoneIsNoRow
<1> QED BY <1>1, <1>2, <1>3 DEF Rev, PoliciesOK

LEMMA SettingsMoveForward ==
    ASSUME RemindersInv, NEW op \in OpIds, Known, SettingsMove(op)
    PROVE  Forward
<1>1. /\ device \in DeviceRow /\ enrollment \in EnrollmentRow
      /\ DeviceMove(op) /\ EnrollmentMove(op) /\ PolicyMove(op)
      /\ PoliciesOK(policies) /\ "room" \in Scopes
      /\ device.revision \in Nat /\ enrollment.revision \in Nat
  BY KnownIs DEF SettingsMove, DeviceRow, EnrollmentRow, Scopes
<1>2. /\ device' \in DeviceRow /\ device'.id = device.id
      /\ device'.revision >= device.revision
      /\ device'.revision = device.revision => SameDevice(device', device)
  BY <1>1 DEF DeviceMove
<1>3. /\ enrollment' \in EnrollmentRow
      /\ enrollment'.revision >= enrollment.revision
      /\ enrollment'.revision = enrollment.revision => SameSettings(enrollment', enrollment)
  BY <1>1 DEF EnrollmentMove
<1>4. \A scope \in Scopes : Rev(policies[scope]) \in Nat
  BY <1>1, RevIs DEF PoliciesOK
<1>5. CASE /\ policies' = policies
           /\ enrollment'.mode = enrollment.mode /\ enrollment'.time = enrollment.time
  BY <1>1, <1>2, <1>3, <1>4, <1>5 DEF Forward
<1>6. CASE SavedNow(policies', "room") /\ enrollment'.revision = enrollment.revision + 1
  <2>1. PICK p : p = policies'
    OBVIOUS
  <2>2. /\ Rev(p["room"]) = Rev(policies["room"]) + 1
        /\ \A other \in Scopes \ {"room"} : p[other] = policies[other]
        /\ \A s \in Scopes : p[s] \in PolicyRow \cup {None}
    BY <1>1, <1>6, <2>1, SavedIs
  <2>3. \A s \in Scopes : Rev(p[s]) \in Nat
    BY <2>2, RevIs
  <2>4. ASSUME NEW s \in Scopes
        PROVE  Rev(p[s]) >= Rev(policies[s]) /\ (Rev(p[s]) = Rev(policies[s]) => p[s] = policies[s])
    <3>1. CASE s = "room"
      BY <1>4, <2>2, <3>1
    <3>2. CASE s # "room"
      BY <1>4, <2>2, <3>2
    <3> QED BY <3>1, <3>2
  <2>5. Rev(p["room"]) # Rev(policies["room"]) /\ enrollment'.revision # enrollment.revision
    BY <1>1, <1>4, <1>6, <2>2
  <2> QED BY <1>1, <1>2, <1>3, <1>4, <2>1, <2>3, <2>4, <2>5 DEF Forward
<1>7. ASSUME NEW scope \in {"list", "item"}, SavedNow(policies', scope), enrollment' = enrollment
      PROVE  Forward
  <2>1. PICK p : p = policies'
    OBVIOUS
  <2>2. /\ Rev(p[scope]) = Rev(policies[scope]) + 1
        /\ \A other \in Scopes \ {scope} : p[other] = policies[other]
        /\ \A s \in Scopes : p[s] \in PolicyRow \cup {None}
    BY <1>1, <1>7, <2>1, SavedIs DEF Scopes
  <2>3. \A s \in Scopes : Rev(p[s]) \in Nat
    BY <2>2, RevIs
  <2>4. ASSUME NEW s \in Scopes
        PROVE  Rev(p[s]) >= Rev(policies[s]) /\ (Rev(p[s]) = Rev(policies[s]) => p[s] = policies[s])
    <3>1. CASE s = scope
      BY <1>4, <2>2, <3>1
    <3>2. CASE s # scope
      BY <1>4, <2>2, <3>2
    <3> QED BY <3>1, <3>2
  <2>5. p["room"] = policies["room"]
    BY <1>1, <2>2
  <2> QED BY <1>1, <1>2, <1>3, <1>4, <1>7, <2>1, <2>3, <2>4, <2>5 DEF Forward
<1> QED BY <1>1, <1>5, <1>6, <1>7 DEF PolicyMove

LEMMA CutRevision ==
    ASSUME NEW enrolled \in EnrollmentRow
    PROVE  /\ Cut(enrolled) \in EnrollmentRow
           /\ Cut(enrolled) = enrolled \/ Cut(enrolled).revision = enrolled.revision + 1
           /\ Cut(enrolled).activatedAt = enrolled.activatedAt
           /\ Cut(enrolled).policyAt = enrolled.policyAt
           /\ Cut(enrolled).timeAt = enrolled.timeAt
           /\ Cut(enrolled).mode = enrolled.mode /\ Cut(enrolled).time = enrolled.time
           /\ Cut(enrolled).token = enrolled.token
<1>1. CASE enrolled.status = "active"
  <2>1. PICK revision \in Nat : revision = enrolled.revision + 1
    BY DEF EnrollmentRow
  <2>2. Cut(enrolled) = [enrolled EXCEPT !.status = "revoked", !.revision = revision]
    BY <1>1, <2>1, NoneIsNoRow DEF Cut
  <2> QED BY <2>1, <2>2 DEF EnrollmentRow
<1>2. CASE enrolled.status # "active"
  BY <1>2 DEF Cut
<1> QED BY <1>1, <1>2

\* Any other step leaves the installation and its policies, and may cut the grant.
Others == SignIn \/ SignOut \/ PruneToken \/ (\E own \in BOOLEAN : NewPassword(own))
          \/ Tick \/ ComeBack \/ \E dated \in BOOLEAN : EditDue(dated)

LEMMA OthersAre ==
    ASSUME Others
    PROVE  UNCHANGED settings /\ enrollment' \in {enrollment, Cut(enrollment)}
BY DEF Others, SignIn, SignOut, PruneToken, NewPassword, Tick, ComeBack, EditDue

LEMMA CutForward ==
    ASSUME RemindersInv, device # None, UNCHANGED <<device, policies>>,
           enrollment' \in {enrollment, Cut(enrollment)}
    PROVE  Forward
<1>1. device \in DeviceRow /\ enrollment \in EnrollmentRow /\ PoliciesOK(policies)
  BY InvariantParts DEF RowsOK
<1>2. PICK e \in EnrollmentRow :
        /\ e = enrollment'
        /\ e = enrollment \/ e.revision = enrollment.revision + 1
        /\ e.mode = enrollment.mode /\ e.time = enrollment.time
  BY <1>1, CutRevision
<1>3. \A scope \in Scopes : Rev(policies[scope]) \in Nat
  BY <1>1, RevIs DEF PoliciesOK
<1>4. device.revision \in Nat /\ enrollment.revision \in Nat
  BY <1>1 DEF DeviceRow, EnrollmentRow
<1> QED BY <1>1, <1>2, <1>3, <1>4 DEF Forward, SameDevice, SameSettings

\* Where there is no installation, no page has shown one.
LEMMA NoneKeeps ==
    ASSUME NEW d, DraftOK(d), device = None
    PROVE  DraftOK(d)'
BY DEF DraftOK

LEMMA ShownIsOK ==
    ASSUME RemindersInv
    PROVE  DraftOK(Shown)
<1>1. CASE ~Known
  <2>1. Shown = Nothing
    BY <1>1 DEF Shown
  <2>2. Nothing.device = None /\ Nothing.enrollment = None
    BY DEF Nothing
  <2> QED BY <2>1, <2>2 DEF DraftOK
<1>2. CASE Known
  <2>1. /\ device \in DeviceRow /\ enrollment \in EnrollmentRow /\ PoliciesOK(policies)
        /\ device # None
    BY <1>2, KnownIs DEF Known
  <2>2. PICK dev, enr :
          /\ dev = [id |-> device.id, revision |-> device.revision, zone |-> device.zone,
                    allDay |-> device.allDay]
          /\ enr = [revision |-> enrollment.revision, status |-> enrollment.status,
                    mode |-> enrollment.mode, time |-> enrollment.time]
    OBVIOUS
  <2>3. Shown = [device |-> dev, enrollment |-> enr, policies |-> policies]
    BY <1>2, <2>2 DEF Shown
  <2>4. Shown.device = dev /\ Shown.enrollment = enr /\ Shown.policies = policies
    BY <2>3
  <2>5. /\ dev.id = device.id /\ dev.revision = device.revision /\ SameDevice(dev, device)
        /\ enr.revision = enrollment.revision /\ SameSettings(enr, enrollment)
    BY <2>2 DEF SameDevice, SameSettings
  <2>6. /\ device.id \in Nat /\ device.revision \in Nat /\ enrollment.revision \in Nat
        /\ \A scope \in Scopes : Rev(policies[scope]) \in Nat
    BY <2>1, RevIs DEF DeviceRow, EnrollmentRow, PoliciesOK
  <2>7. Numbered(Shown)
    BY <2>4, <2>5, <2>6 DEF Numbered
  <2>8. SeenIs(Shown)
    <3>1. enr.mode = enrollment.mode /\ enr.time = enrollment.time
      BY <2>5 DEF SameSettings
    <3> QED BY <2>4, <2>5, <2>6, <3>1 DEF SeenIs
  <2> QED BY <2>1, <2>4, <2>5, <2>6, <2>7, <2>8 DEF DraftOK
<1> QED BY <1>1, <1>2

\* A new installation has an id of its own, and no page has shown it yet.
LEMMA NewDeviceKeeps ==
    ASSUME RemindersInv, NEW d, DraftOK(d),
           device # None => device.id \in Nat,
           device' # None, device'.id = IF device = None THEN 1 ELSE device.id + 1
    PROVE  DraftOK(d)'
<1>1. CASE d.device = None /\ d.enrollment = None
  BY <1>1 DEF DraftOK
<1>2. CASE Numbered(d) /\ device # None /\ d.device.id <= device.id
  <2>1. d.device.id \in Nat /\ device.id \in Nat /\ device'.id = device.id + 1
    BY <1>2 DEF Numbered
  <2>2. d.device.id <= device'.id /\ d.device.id # device'.id
    BY <1>2, <2>1
  <2> QED BY <1>2, <2>2 DEF DraftOK, Numbered
<1> QED BY <1>1, <1>2 DEF DraftOK

\* No step makes what a page showed newer than the rows.
StillSeen == \A d : DraftOK(d) => DraftOK(d)'

LEMMA StepsKeepSeen ==
    ASSUME RemindersInv,
           \/ \E op \in OpIds : Compose(op) \/ Personal(op)
           \/ Others \/ UNCHANGED vars
    PROVE  StillSeen
<1>1. ASSUME UNCHANGED <<device, policies>>, enrollment' \in {enrollment, Cut(enrollment)}
      PROVE  StillSeen
  <2>1. CASE device = None
    BY <1>1, <2>1, NoneKeeps DEF StillSeen
  <2>2. CASE device # None
    <3>1. Forward
      BY <1>1, <2>2, CutForward
    <3> QED BY <3>1, ForwardKeeps DEF StillSeen
  <2> QED BY <2>1, <2>2
<1>2. ASSUME NEW op \in OpIds, Compose(op)
      PROVE  StillSeen
  BY <1>1, <1>2 DEF Compose
<1>3. CASE Others
  BY <1>1, <1>3, OthersAre DEF settings
<1>4. CASE UNCHANGED vars
  BY <1>1, <1>4 DEF vars
<1>5. ASSUME NEW op \in OpIds, Personal(op)
      PROVE  StillSeen
  <2>1. CASE Known /\ SettingsMove(op)
    <3>1. Forward
      BY <2>1, SettingsMoveForward
    <3> QED BY <3>1, ForwardKeeps DEF StillSeen
  <2>2. ASSUME NEW zone \in Zones \cup {None}, NEW mode \in Presets \cup {None},
               NEW time \in Times \cup {None}, EnrollNewDevice(op, zone, mode, time)
        PROVE  StillSeen
    <3>1. /\ device' # None /\ (device # None => device.id \in Nat)
          /\ device'.id = IF device = None THEN 1 ELSE device.id + 1
      BY <2>2, NewDeviceIs, NoneIsNoRow
    <3> QED BY <3>1, NewDeviceKeeps DEF StillSeen
  <2> QED BY <1>5, <2>1, <2>2, PersonalIs
<1> QED BY <1>2, <1>3, <1>4, <1>5

LEMMA InitSeen ==
    ASSUME Init
    PROVE  DraftsOK
BY DEF Init, DraftsOK

LEMMA DraftsFollow ==
    ASSUME RemindersInv, DraftsOK, [Next]_vars
    PROVE  DraftsOK'
<1>1. \/ \E op \in OpIds : Compose(op) \/ Personal(op)
      \/ Others \/ UNCHANGED vars
  BY DEF Next, Others
<1>2. StillSeen
  BY <1>1, StepsKeepSeen
<1>3. ASSUME drafts' = drafts
      PROVE  DraftsOK'
  BY <1>2, <1>3 DEF DraftsOK, StillSeen
<1>4. ASSUME NEW op \in OpIds, drafts' = [drafts EXCEPT ![op] = None]
      PROVE  DraftsOK'
  <2>1. drafts' = [other \in OpIds |-> IF other = op THEN None ELSE drafts[other]]
    BY <1>4 DEF DraftsOK
  <2>2. drafts' = [other \in OpIds |-> drafts'[other]]
    BY <2>1
  <2>3. \A other \in OpIds : drafts'[other] # None => DraftOK(drafts[other])'
    BY <1>2, <2>1 DEF DraftsOK, StillSeen
  <2> QED BY <2>2, <2>3 DEF DraftsOK
<1>5. ASSUME NEW op \in OpIds, Compose(op)
      PROVE  DraftsOK'
  <2>1. DraftOK(Shown) /\ drafts' = [drafts EXCEPT ![op] = Shown]
    BY <1>5, ShownIsOK DEF Compose
  <2>2. drafts' = [other \in OpIds |-> IF other = op THEN Shown ELSE drafts[other]]
    BY <2>1 DEF DraftsOK
  <2>3. drafts' = [other \in OpIds |-> drafts'[other]]
    BY <2>2
  <2>4. PICK shot : shot = Shown
    OBVIOUS
  <2>5. DraftOK(shot)'
    BY <1>2, <2>1, <2>4 DEF StillSeen
  <2> QED BY <1>2, <2>2, <2>3, <2>4, <2>5 DEF DraftsOK, StillSeen
<1>6. ASSUME NEW op \in OpIds, Personal(op)
      PROVE  drafts' = [drafts EXCEPT ![op] = None]
  BY <1>6, PersonalIs DEF SettingsMove, EnrollNewDevice
<1>7. CASE Others \/ UNCHANGED vars
  BY <1>3, <1>7, OthersAre DEF settings, vars
<1> QED BY <1>1, <1>4, <1>5, <1>6, <1>7

\* Together with the rows, what the pages showed is inductive.
LEMMA DraftsInvariant == Spec => [](RemindersInv /\ DraftsOK)
<1>1. Init => RemindersInv /\ DraftsOK
  BY InitHolds, InitSeen
<1>2. RemindersInv /\ DraftsOK /\ [Next]_vars => (RemindersInv /\ DraftsOK)'
  BY NextKeeps, DraftsFollow
<1> QED BY <1>1, <1>2, PTL DEF Spec

\* What an op changes, its author had seen.
UnseenIsKept(op) ==
    (drafts[op].device # None /\ drafts[op].device.id = device.id) =>
      /\ \A part \in {"status", "mode", "time"} :
            enrollment'[part] # enrollment[part] =>
                drafts[op].enrollment[part] = enrollment[part]
      /\ \A part \in {"zone", "allDay"} :
            device'[part] # device[part] => drafts[op].device[part] = device[part]
      /\ \A scope \in Scopes :
            policies'[scope] # policies[scope] =>
                drafts[op].policies[scope] = policies[scope]

LEMMA MoveKeepsUnseen ==
    ASSUME RemindersInv, DraftsOK, NEW op \in OpIds, drafts[op] # None, SettingsMove(op)
    PROVE  UnseenIsKept(op)
<1> SUFFICES ASSUME drafts[op].device # None, drafts[op].device.id = device.id
             PROVE  UnseenIsKept(op)
  BY DEF UnseenIsKept
<1>1. PICK d : d = drafts[op]
  OBVIOUS
<1>2. SeenIs(d)
  <2>1. DraftOK(d)
    BY <1>1 DEF DraftsOK
  <2> QED BY <1>1, <2>1 DEF DraftOK
<1>3. \A part \in {"status", "mode", "time"} :
        enrollment'[part] # enrollment[part] => d.enrollment[part] = enrollment[part]
  <2>1. CASE SameSettings(enrollment', enrollment)
    BY <2>1 DEF SameSettings
  <2>2. CASE OnEnrollment(op)
    <3>1. SameSettings(d.enrollment, enrollment)
      BY <1>1, <1>2, <2>2 DEF OnEnrollment, SeenIs
    <3> QED BY <3>1 DEF SameSettings
  <2>3. CASE OnPolicy(op, "room") /\ enrollment'.status = enrollment.status
    <3>1. Rev(d.policies["room"]) = Rev(policies["room"])
      BY <1>1, <2>3 DEF OnPolicy, BaseRevision, Rev
    <3>2. d.enrollment.mode = enrollment.mode /\ d.enrollment.time = enrollment.time
      BY <1>2, <3>1 DEF SeenIs
    <3> QED BY <2>3, <3>2
  <2> QED BY <2>1, <2>2, <2>3 DEF SettingsMove, EnrollmentMove
<1>4. \A part \in {"zone", "allDay"} :
        device'[part] # device[part] => d.device[part] = device[part]
  <2>1. CASE SameDevice(device', device)
    BY <2>1 DEF SameDevice
  <2>2. CASE d.device.revision = device.revision
    <3>1. SameDevice(d.device, device)
      BY <1>2, <2>2 DEF SeenIs
    <3> QED BY <3>1 DEF SameDevice
  <2> QED BY <1>1, <2>1, <2>2 DEF SettingsMove, DeviceMove
<1>5. \A scope \in Scopes :
        policies'[scope] # policies[scope] => d.policies[scope] = policies[scope]
  <2>0. PoliciesOK(policies) /\ "room" \in Scopes
    BY InvariantParts DEF RowsOK, Scopes
  <2>1. CASE policies' = policies
    BY <2>1
  <2>2. CASE SavedNow(policies', "room") /\ (OnEnrollment(op) \/ OnPolicy(op, "room"))
    <3>1. \A other \in Scopes \ {"room"} : policies'[other] = policies[other]
      <4>1. PICK p : p = policies'
        OBVIOUS
      <4> QED BY <2>0, <2>2, <4>1, SavedIs
    <3>2. CASE OnEnrollment(op)
      BY <1>1, <1>2, <3>1, <3>2 DEF OnEnrollment, SeenIs
    <3>3. CASE OnPolicy(op, "room")
      <4>1. Rev(d.policies["room"]) = Rev(policies["room"])
        BY <1>1, <3>3 DEF OnPolicy, BaseRevision, Rev
      <4>2. d.policies["room"] = policies["room"]
        BY <1>2, <2>0, <4>1 DEF SeenIs
      <4> QED BY <3>1, <4>2
    <3> QED BY <2>2, <3>2, <3>3
  <2>3. ASSUME NEW scope \in {"list", "item"}, SavedNow(policies', scope), OnPolicy(op, scope)
        PROVE  \A s \in Scopes : policies'[s] # policies[s] => d.policies[s] = policies[s]
    <3>1. \A other \in Scopes \ {scope} : policies'[other] = policies[other]
      <4>1. PICK p : p = policies'
        OBVIOUS
      <4> QED BY <2>0, <2>3, <4>1, SavedIs DEF Scopes
    <3>2. Rev(d.policies[scope]) = Rev(policies[scope])
      BY <1>1, <2>3 DEF OnPolicy, BaseRevision, Rev
    <3>3. d.policies[scope] = policies[scope]
      BY <1>2, <3>2 DEF SeenIs, Scopes
    <3> QED BY <3>1, <3>3
  <2> QED BY <2>1, <2>2, <2>3 DEF SettingsMove, PolicyMove
<1> QED BY <1>1, <1>3, <1>4, <1>5 DEF UnseenIsKept

LEMMA NextKeepsUnseen ==
    ASSUME RemindersInv, DraftsOK, [Next]_vars,
           device # None, device'.id = device.id, NEW op \in done' \ done
    PROVE  UnseenIsKept(op)
<1>1. ASSUME NEW own \in OpIds, Personal(own)
      PROVE  UnseenIsKept(op)
  <2>1. CASE SettingsMove(own)
    <3>1. op = own
      BY <2>1 DEF SettingsMove
    <3>2. drafts[own] # None
      BY <1>1, PersonalIs DEF FirstRun
    <3> QED BY <2>1, <3>1, <3>2, MoveKeepsUnseen
  <2>2. ASSUME NEW zone \in Zones \cup {None}, NEW mode \in Presets \cup {None},
               NEW time \in Times \cup {None}, EnrollNewDevice(own, zone, mode, time)
        PROVE  FALSE
    BY <2>2, NewDeviceIs
  <2> QED BY <1>1, <2>1, <2>2, PersonalIs
<1>2. CASE Others \/ UNCHANGED vars \/ \E own \in OpIds : Compose(own)
  BY <1>2, OthersAre DEF settings, vars, Compose
<1> QED BY <1>1, <1>2 DEF Next, Others

\* Two tabs, a sign-out and a new password come between what a page showed and
\* what it sends: whatever the op then changes, its author had seen as it was
\* (the revisions that _check_revision compares, api/reminders.py).
THEOREM ChangesAreSeen == Spec => NothingUnseenReplaced
<1>1. RemindersInv /\ DraftsOK /\ [Next]_vars =>
        [(device # None /\ device'.id = device.id) =>
          \A op \in done' \ done :
            (drafts[op].device # None /\ drafts[op].device.id = device.id) =>
              /\ \A part \in {"status", "mode", "time"} :
                    enrollment'[part] # enrollment[part] =>
                        drafts[op].enrollment[part] = enrollment[part]
              /\ \A part \in {"zone", "allDay"} :
                    device'[part] # device[part] => drafts[op].device[part] = device[part]
              /\ \A scope \in Scopes :
                    policies'[scope] # policies[scope] =>
                        drafts[op].policies[scope] = policies[scope]]_vars
  BY NextKeepsUnseen DEF UnseenIsKept
<1> QED BY <1>1, DraftsInvariant, PTL DEF Spec, NothingUnseenReplaced

-----------------------------------------------------------------------------
(* A grant that is not active becomes active by an enrollment alone.       *)

StartsAnew ==
    GrantState' = "active" =>
      IF GrantState = "active" /\ device'.id = device.id
      THEN enrollment'.activatedAt = enrollment.activatedAt
      ELSE /\ enrollment'.activatedAt = now'
           /\ enrollment'.token = cookie /\ Access

LEMMA GrantStateIs ==
    GrantState = "active" <=>
        /\ enrollment # None /\ enrollment.status = "active"
        /\ now < device.expires /\ now < enrollment.expires
        /\ Live(enrollment.token) /\ enrollment.version = version
BY DEF GrantState

LEMMA GrantStateNext ==
    GrantState' = "active" <=>
        /\ enrollment' # None /\ enrollment'.status = "active"
        /\ now' < device'.expires /\ now' < enrollment'.expires
        /\ Live(enrollment.token)' /\ enrollment'.version = version'
BY DEF GrantState

LEMMA StaysActive ==
    ASSUME RemindersInv, device'.id = device.id, device'.expires = device.expires,
           enrollment'.token = enrollment.token, enrollment'.version = enrollment.version,
           enrollment'.expires = enrollment.expires,
           enrollment'.activatedAt = enrollment.activatedAt,
           enrollment'.status = "active" => enrollment.status = "active",
           enrollment' # None => enrollment # None,
           now' \in {now, now + 1}, version' = version,
           NEW token, token = enrollment.token, token # None,
           tokens'[token].state = "live" => tokens[token].state = "live",
           tokens'[token].version = tokens[token].version
    PROVE  StartsAnew
<1> SUFFICES ASSUME GrantState' = "active"
             PROVE  GrantState = "active"
  BY DEF StartsAnew
<1>1. /\ enrollment' # None /\ enrollment'.status = "active"
      /\ now' < device'.expires /\ now' < enrollment'.expires
      /\ tokens'[enrollment'.token].state = "live"
      /\ tokens'[enrollment'.token].version = version' /\ enrollment'.version = version'
  BY GrantStateNext DEF Live
<1>2. /\ enrollment # None /\ enrollment.status = "active"
      /\ Live(enrollment.token) /\ enrollment.version = version
  BY <1>1 DEF Live
<1>3. device \in DeviceRow /\ enrollment \in EnrollmentRow /\ now \in Nat
  BY <1>2, InvariantParts, MomentIsNat DEF RowsOK, RestOK
<1>4. device.expires \in Nat /\ enrollment.expires \in Nat
  BY <1>3 DEF DeviceRow, EnrollmentRow
<1>5. now < device.expires /\ now < enrollment.expires
  BY <1>1, <1>3, <1>4
<1> QED BY <1>2, <1>5, GrantStateIs

\* Where no grant is left, or it is not active any more.
LEMMA NotActive ==
    ASSUME enrollment' = None \/ enrollment'.status # "active"
           \/ tokens'[enrollment'.token].state # "live"
    PROVE  StartsAnew
BY GrantStateNext DEF StartsAnew, Live

LEMMA PersonalStartsAnew ==
    ASSUME RemindersInv, NEW op \in OpIds, Personal(op)
    PROVE  StartsAnew
<1>0. FirstRun(op) /\ Access
  BY PersonalIs DEF FirstRun
<1>1. ASSUME NEW mode \in Presets \cup {None}, NEW time \in Times \cup {None},
             NEW zone \in Zones \cup {None}, EnrollNewDevice(op, zone, mode, time)
      PROVE  StartsAnew
  <2>1. enrollment'.activatedAt = now /\ enrollment'.token = cookie /\ now' = now
    BY <1>1 DEF EnrollNewDevice, NewEnrollment
  <2>2. GrantState = "active" => device # None
    BY InvariantParts DEF GrantState, RowsOK
  <2>3. ~(GrantState = "active" /\ device'.id = device.id)
    BY <1>1, <2>2, NewDeviceIs
  <2> QED BY <1>0, <2>1, <2>3 DEF StartsAnew
<1>2. ASSUME NEW mode \in Presets \cup {None}, NEW time \in Times \cup {None},
             NEW zone \in Zones \cup {None}, Resume(op, zone, mode, time)
      PROVE  StartsAnew
  <2>1. /\ device'.id = device.id /\ now' = now
        /\ enrollment'.activatedAt = IF WasActive THEN enrollment.activatedAt ELSE now
        /\ enrollment'.token = cookie
    BY <1>2, ResumeMoves DEF SettingsMove, DeviceMove
  <2> QED BY <1>0, <2>1 DEF StartsAnew, WasActive
<1>3. ASSUME SettingsMove(op), device'.expires = device.expires,
             enrollment'.activatedAt = enrollment.activatedAt,
             enrollment'.token = enrollment.token, enrollment'.version = enrollment.version,
             enrollment'.expires = enrollment.expires,
             enrollment'.status = "active" => enrollment.status = "active"
      PROVE  StartsAnew
  <2>1. /\ enrollment \in EnrollmentRow /\ device'.id = device.id
        /\ now' = now /\ tokens' = tokens /\ version' = version
    BY <1>3 DEF SettingsMove, DeviceMove, access
  <2>2. enrollment # None /\ enrollment.token # None
    BY <2>1, NoneIsNoRow DEF EnrollmentRow
  <2>3. PICK token : token = enrollment.token
    OBVIOUS
  <2> QED BY <1>3, <2>1, <2>2, <2>3, StaysActive
<1>4. ASSUME NEW mode \in Presets \cup {None}, NEW time \in Times \cup {None},
             NEW optOut \in BOOLEAN, PatchPreferences(op, mode, time, optOut)
      PROVE  StartsAnew
  <2>1. /\ SettingsMove(op) /\ device' = device
        /\ enrollment'.activatedAt = enrollment.activatedAt
        /\ enrollment'.token = enrollment.token /\ enrollment'.version = enrollment.version
        /\ enrollment'.expires = enrollment.expires
        /\ enrollment'.status \in {enrollment.status, "opted_out"}
    BY <1>4, PatchPreferencesMoves
  <2> QED BY <1>3, <2>1
<1>5. ASSUME NEW zone \in Zones \cup {None}, NEW allDay \in Times \cup {None},
             PatchDevice(op, zone, allDay)
      PROVE  StartsAnew
  <2>1. SettingsMove(op) /\ enrollment' = enrollment /\ device'.expires = device.expires
    BY <1>5, PatchDeviceMoves
  <2> QED BY <1>3, <2>1
<1>6. ASSUME NEW scope \in Scopes, NEW state \in {"inherit", "off", "replace"},
             NEW preset \in Presets \cup {None}, NEW custom \in Customs \cup {None},
             NEW time \in Times \cup {None},
             PutPolicy(op, scope, state, preset, custom, time)
      PROVE  StartsAnew
  <2>1. /\ SettingsMove(op) /\ device' = device
        /\ enrollment'.activatedAt = enrollment.activatedAt
        /\ enrollment'.token = enrollment.token /\ enrollment'.version = enrollment.version
        /\ enrollment'.expires = enrollment.expires
        /\ enrollment'.status = enrollment.status
    BY <1>6, PutPolicyMoves
  <2> QED BY <1>3, <2>1
<1> QED BY <1>1, <1>2, <1>4, <1>5, <1>6 DEF Personal

\* A step that leaves the enrollment and its token as they were.
LEMMA SameGrant ==
    ASSUME RemindersInv, UNCHANGED <<device, enrollment, version>>, now' \in {now, now + 1},
           enrollment # None => tokens'[enrollment.token] = tokens[enrollment.token]
    PROVE  StartsAnew
<1>1. CASE enrollment = None
  BY <1>1, NotActive
<1>2. CASE enrollment # None
  <2>1. PICK token : token = enrollment.token
    OBVIOUS
  <2>2. token # None
    BY <1>2, <2>1, InvariantParts, NoneIsNoRow DEF RowsOK, EnrollmentRow
  <2> QED BY <1>2, <2>1, <2>2, StaysActive
<1> QED BY <1>1, <1>2

LEMMA OthersStartNothing ==
    ASSUME RemindersInv, Others \/ UNCHANGED vars \/ \E op \in OpIds : Compose(op)
    PROVE  StartsAnew
<1>1. /\ tokens \in Seq(Token) /\ enrollment \in EnrollmentRow \cup {None}
      /\ enrollment # None => enrollment.token \in DOMAIN tokens
  BY AccessIs
<1>2. CASE SignIn
  <2>1. PICK new : tokens' = Append(tokens, new)
    BY <1>2 DEF SignIn
  <2>2. UNCHANGED <<device, enrollment, version, now>>
    BY <1>2 DEF SignIn, settings
  <2> QED BY <1>1, <2>1, <2>2, SameGrant
<1>3. CASE SignOut
  <2>1. CASE enrollment # None /\ enrollment.token = cookie
    <3>1. enrollment' = Cut(enrollment)
      BY <1>3, <2>1 DEF SignOut
    <3> QED BY <1>1, <2>1, <3>1, CutIs, NotActive
  <2>2. CASE ~(enrollment # None /\ enrollment.token = cookie)
    <3>1. UNCHANGED <<device, enrollment, version, now>>
      BY <1>3, <2>2 DEF SignOut, settings
    <3>2. PICK row : tokens' = [tokens EXCEPT ![cookie] = row]
      BY <1>3 DEF SignOut
    <3>3. enrollment # None => tokens'[enrollment.token] = tokens[enrollment.token]
      BY <1>1, <2>2, <3>2
    <3> QED BY <3>1, <3>3, SameGrant
  <2> QED BY <2>1, <2>2
<1>4. CASE \E own \in BOOLEAN : NewPassword(own)
  <2>1. enrollment' = Cut(enrollment)
    BY <1>4 DEF NewPassword
  <2> QED BY <1>1, <2>1, CutIs, NotActive
<1>5. CASE PruneToken
  <2>1. /\ enrollment' = enrollment /\ enrollment # None
        /\ tokens' = [tokens EXCEPT ![enrollment.token].state = "deleted"]
    BY <1>5 DEF PruneToken
  <2>2. tokens[enrollment.token] \in Token
    BY <1>1, <2>1
  <2>3. tokens'[enrollment'.token].state = "deleted"
    BY <1>1, <2>1, <2>2 DEF Token
  <2> QED BY <2>3, NotActive
<1>6. CASE Tick \/ ComeBack \/ (\E dated \in BOOLEAN : EditDue(dated))
           \/ UNCHANGED vars \/ \E op \in OpIds : Compose(op)
  <2>1. UNCHANGED <<device, enrollment, version, tokens>> /\ now' \in {now, now + 1}
    BY <1>6 DEF Tick, ComeBack, EditDue, Compose, vars, access, settings
  <2> QED BY <2>1, SameGrant
<1> QED BY <1>2, <1>3, <1>4, <1>5, <1>6 DEF Others

\* A sign-in, a PATCH, the end of a pause or a token that comes back resumes no
\* grant: only POST enrollment does, with access to the room, and the grant then
\* counts from now (enroll_room_locked, identity.py).
THEOREM GrantsStartAnew == Spec => ResumeStartsAnew
<1>1. RemindersInv /\ [Next]_vars => StartsAnew
  <2>1. [Next]_vars => \/ \E op \in OpIds : Compose(op) \/ Personal(op)
                       \/ Others \/ UNCHANGED vars
    BY DEF Next, Others
  <2> QED BY <2>1, PersonalStartsAnew, OthersStartNothing
<1>2. RemindersInv /\ [Next]_vars =>
        [GrantState' = "active" =>
          IF GrantState = "active" /\ device'.id = device.id
          THEN enrollment'.activatedAt = enrollment.activatedAt
          ELSE /\ enrollment'.activatedAt = now'
               /\ enrollment'.token = cookie /\ Access]_vars
  BY <1>1 DEF StartsAnew
<1> QED BY <1>2, RemindersInvariant, PTL DEF Spec, ResumeStartsAnew

-----------------------------------------------------------------------------
(* The instants that reminders count from.  None is ahead of the clock, and *)
(* a step that changes one sets it to now.                                 *)

DatesOK ==
    /\ enrollment # None => /\ enrollment.activatedAt <= now
                            /\ enrollment.policyAt <= now /\ enrollment.timeAt <= now
    /\ device # None => device.anchorAt <= now /\ device.zoneAt <= now
    /\ item.cycleAt # None => item.cycleAt <= now
    /\ \A scope \in Scopes : policies[scope] # None => policies[scope].at <= now

\* The types of those instants.
LEMMA DatesAreNat ==
    ASSUME RemindersInv
    PROVE  /\ now \in Nat
           /\ enrollment # None => /\ enrollment.activatedAt \in Nat
                                   /\ enrollment.policyAt \in Nat /\ enrollment.timeAt \in Nat
           /\ device # None => device.anchorAt \in Nat /\ device.zoneAt \in Nat
           /\ item.cycleAt # None => item.cycleAt \in Nat
           /\ \A scope \in Scopes : policies[scope] # None => policies[scope].at \in Nat
<1>1. RowsOK /\ RestOK
  BY InvariantParts
<1>2. now \in Nat /\ (item.cycleAt # None => item.cycleAt \in Nat)
  BY <1>1, MomentIsNat DEF RestOK
<1>3. enrollment # None => /\ enrollment.activatedAt \in Nat
                           /\ enrollment.policyAt \in Nat /\ enrollment.timeAt \in Nat
  BY <1>1, MomentIsNat DEF RowsOK, EnrollmentRow
<1>4. device # None => device.anchorAt \in Nat /\ device.zoneAt \in Nat
  BY <1>1, MomentIsNat DEF RowsOK, DeviceRow
<1>5. \A scope \in Scopes : policies[scope] # None => policies[scope].at \in Nat
  BY <1>1, MomentIsNat DEF RowsOK, PoliciesOK, PolicyRow
<1> QED BY <1>2, <1>3, <1>4, <1>5

LEMMA InitDates ==
    ASSUME Init
    PROVE  DatesOK
<1>1. now = 0 /\ item.cycleAt = None /\ \A scope \in Scopes : policies[scope] = None
  BY DEF Init, NoPolicies
<1>2. device # None => device.anchorAt = 0 /\ device.zoneAt = 0
  BY DEF Init, NewDevice
<1>3. enrollment # None => /\ enrollment.activatedAt = 0
                           /\ enrollment.policyAt = 0 /\ enrollment.timeAt = 0
  BY DEF Init, NewEnrollment
<1> QED BY <1>1, <1>2, <1>3 DEF DatesOK

LEMMA PersonalDates ==
    ASSUME RemindersInv, DatesOK, NEW op \in OpIds, Personal(op)
    PROVE  DatesOK'
<1>0. now \in Nat /\ item = item' /\ now' = now
  BY DatesAreNat, PersonalIs DEF SettingsMove, EnrollNewDevice
<1>1. CASE Known /\ SettingsMove(op)
  <2>1. device # None /\ enrollment # None /\ PoliciesOK(policies)
    BY <1>1, KnownIs DEF Known
  <2>2. /\ enrollment'.activatedAt \in {enrollment.activatedAt, now}
        /\ enrollment'.timeAt \in {enrollment.timeAt, now}
        /\ device'.anchorAt \in {device.anchorAt, now} /\ device'.zoneAt \in {device.zoneAt, now}
    BY <1>1 DEF SettingsMove, DeviceMove, EnrollmentMove
  <2>3. enrollment'.policyAt \in {enrollment.policyAt, now}
    BY <1>1 DEF SettingsMove, PolicyMove
  <2>4. \A scope \in Scopes : policies'[scope] # None => policies'[scope].at <= now
    <3>1. CASE policies' = policies
      BY <3>1 DEF DatesOK
    <3>2. ASSUME NEW saved \in Scopes, SavedNow(policies', saved)
          PROVE  \A scope \in Scopes : policies'[scope] # None => policies'[scope].at <= now
      <4>1. PICK p : p = policies'
        OBVIOUS
      <4>2. p[saved].at = now /\ \A other \in Scopes \ {saved} : p[other] = policies[other]
        BY <2>1, <3>2, <4>1, SavedIs
      <4> QED BY <1>0, <4>1, <4>2 DEF DatesOK
    <3> QED BY <1>1, <3>1, <3>2 DEF SettingsMove, PolicyMove, Scopes
  <2> QED BY <1>0, <2>1, <2>2, <2>3, <2>4 DEF DatesOK
<1>2. ASSUME NEW zone \in Zones \cup {None}, NEW mode \in Presets \cup {None},
             NEW time \in Times \cup {None}, EnrollNewDevice(op, zone, mode, time)
      PROVE  DatesOK'
  <2>1. /\ enrollment'.activatedAt = now /\ enrollment'.policyAt = now /\ enrollment'.timeAt = now
    BY <1>2 DEF EnrollNewDevice, NewEnrollment
  <2>2. device'.anchorAt = now /\ device'.zoneAt = now
    BY <1>2 DEF EnrollNewDevice, NewDevice
  <2>3. \A scope \in Scopes : policies'[scope] = None
    BY <1>2 DEF EnrollNewDevice, NoPolicies
  <2> QED BY <1>0, <2>1, <2>2, <2>3 DEF DatesOK
<1> QED BY <1>1, <1>2, PersonalIs

\* Where another step leaves the instants, and what the clock does.
LEMMA OthersDate ==
    ASSUME RemindersInv, Others \/ UNCHANGED vars \/ \E op \in OpIds : Compose(op)
    PROVE  /\ UNCHANGED <<device, policies>> /\ (enrollment' # None => enrollment # None)
           /\ enrollment # None =>
                 /\ enrollment'.activatedAt = enrollment.activatedAt
                 /\ enrollment'.policyAt = enrollment.policyAt
                 /\ enrollment'.timeAt = enrollment.timeAt
           /\ \/ now' = now /\ item'.cycleAt \in {item.cycleAt, None, now}
              \/ now' = now + 1 /\ item' = item
<1>0. enrollment \in EnrollmentRow \cup {None} /\ item \in [dated : BOOLEAN, cycleAt : Moment \cup {None}]
  BY InvariantParts DEF RowsOK, RestOK
<1>1. UNCHANGED <<device, policies>> /\ enrollment' \in {enrollment, Cut(enrollment)}
  BY OthersAre DEF settings, vars, Compose
<1>2. enrollment = None => enrollment' = None
  BY <1>1 DEF Cut
<1>3. enrollment # None => /\ enrollment'.activatedAt = enrollment.activatedAt
                           /\ enrollment'.policyAt = enrollment.policyAt
                           /\ enrollment'.timeAt = enrollment.timeAt
  BY <1>0, <1>1, CutRevision
<1>4. \/ now' = now /\ item' = item
      \/ now' = now + 1 /\ item' = item
      \/ now' = now /\ \E at \in {None, now}, dated \in BOOLEAN :
                          item' = [item EXCEPT !.dated = dated, !.cycleAt = at]
  <2>1. CASE SignIn \/ SignOut \/ PruneToken \/ (\E own \in BOOLEAN : NewPassword(own)) \/ Tick
             \/ UNCHANGED vars \/ \E op \in OpIds : Compose(op)
    BY <2>1 DEF SignIn, SignOut, PruneToken, NewPassword, Tick, Compose, vars
  <2>2. ASSUME NEW dated \in BOOLEAN, EditDue(dated)
        PROVE  now' = now /\ \E at \in {None, now}, d \in BOOLEAN :
                                item' = [item EXCEPT !.dated = d, !.cycleAt = at]
    BY <2>2 DEF EditDue, NewCycle
  <2>3. CASE ComeBack
    <3>1. item' = [item EXCEPT !.dated = item.dated, !.cycleAt = NewCycle(item.dated)]
      BY <1>0, <2>3 DEF ComeBack
    <3>2. NewCycle(item.dated) \in {None, now} /\ item.dated \in BOOLEAN /\ now' = now
      BY <1>0, <2>3 DEF ComeBack, NewCycle
    <3> QED BY <3>1, <3>2
  <2> QED BY <2>1, <2>2, <2>3 DEF Others
<1>5. \/ now' = now /\ item'.cycleAt \in {item.cycleAt, None, now}
      \/ now' = now + 1 /\ item' = item
  BY <1>0, <1>4
<1> QED BY <1>1, <1>2, <1>3, <1>5

LEMMA NextDates ==
    ASSUME RemindersInv, DatesOK, [Next]_vars
    PROVE  DatesOK'
<1>1. CASE \E op \in OpIds : Personal(op)
  BY <1>1, PersonalDates
<1>2. CASE Others \/ UNCHANGED vars \/ \E op \in OpIds : Compose(op)
  <2>1. device' # None => device'.anchorAt <= now' /\ device'.zoneAt <= now'
    BY <1>2, OthersDate, DatesAreNat DEF DatesOK
  <2>2. enrollment' # None => /\ enrollment'.activatedAt <= now'
                              /\ enrollment'.policyAt <= now' /\ enrollment'.timeAt <= now'
    BY <1>2, OthersDate, DatesAreNat DEF DatesOK
  <2>3. item'.cycleAt # None => item'.cycleAt <= now'
    BY <1>2, OthersDate, DatesAreNat DEF DatesOK
  <2>4. \A scope \in Scopes : policies'[scope] # None => policies'[scope].at <= now'
    <3>1. policies' = policies /\ now' \in {now, now + 1}
      BY <1>2, OthersDate
    <3> QED BY <3>1, DatesAreNat DEF DatesOK
  <2> QED BY <2>1, <2>2, <2>3, <2>4 DEF DatesOK
<1> QED BY <1>1, <1>2 DEF Next, Others

LEMMA DatesInvariant == Spec => [](RemindersInv /\ DatesOK)
<1>1. Init => RemindersInv /\ DatesOK
  BY InitHolds, InitDates
<1>2. RemindersInv /\ DatesOK /\ [Next]_vars => (RemindersInv /\ DatesOK)'
  BY NextKeeps, NextDates
<1> QED BY <1>1, <1>2, PTL DEF Spec

\* The policies in force, as operators of the rows.
StateIn(p, scope) ==
    IF p[scope] # None THEN p[scope].state ELSE IF scope = "room" THEN "replace" ELSE "inherit"
AtIn(p, enrolled, scope) ==
    IF p[scope] # None THEN p[scope].at ELSE IF scope = "room" THEN enrolled.policyAt ELSE None
ChainIn(p) ==
    {"item"} \cup {s \in {"list"} : StateIn(p, "item") = "inherit"}
             \cup {s \in {"room"} : StateIn(p, "item") = "inherit" /\ StateIn(p, "list") = "inherit"}
CutoffsIn(p, enrolled) ==
    {enrolled.activatedAt} \cup ({AtIn(p, enrolled, scope) : scope \in ChainIn(p)} \ {None})

LEMMA OwnIs ==
    ASSUME PoliciesOK(policies), NEW scope \in Scopes
    PROVE  /\ OwnPolicy(scope, enrollment).state = StateIn(policies, scope)
           /\ OwnPolicy(scope, enrollment).at = AtIn(policies, enrollment, scope)
<1>1. CASE policies[scope] = None
  BY <1>1 DEF OwnPolicy, StateIn, AtIn
<1>2. CASE policies[scope] # None
  <2>1. PICK row \in PolicyRow : row = policies[scope]
    BY <1>2 DEF PoliciesOK
  <2>2. PICK preset : OwnPolicy(scope, enrollment) = [row EXCEPT !.preset = preset]
    BY <1>2, <2>1 DEF OwnPolicy
  <2>3. /\ OwnPolicy(scope, enrollment).state = row.state
        /\ OwnPolicy(scope, enrollment).at = row.at
    BY <2>2 DEF PolicyRow
  <2> QED BY <1>2, <2>1, <2>3 DEF StateIn, AtIn
<1> QED BY <1>1, <1>2

CutoffsOfRows == ChainCutoffs = CutoffsIn(policies, enrollment)

LEMMA CutoffsAre == RowsOK => CutoffsOfRows
<1> SUFFICES ASSUME RowsOK
             PROVE  ChainCutoffs = CutoffsIn(policies, enrollment)
  BY DEF CutoffsOfRows
<1>1. PoliciesOK(policies)
  BY DEF RowsOK
<1>2. Chain = ChainIn(policies)
  <2>1. /\ OwnPolicy("item", enrollment).state = StateIn(policies, "item")
        /\ OwnPolicy("list", enrollment).state = StateIn(policies, "list")
    BY <1>1, OwnIs DEF Scopes
  <2> QED BY <2>1 DEF Chain, ChainIn
<1>3. ChainIn(policies) \subseteq Scopes
  BY DEF ChainIn, Scopes
<1>4. \A scope \in Chain : OwnPolicy(scope, enrollment).at = AtIn(policies, enrollment, scope)
  BY <1>1, <1>2, <1>3, OwnIs
<1> QED BY <1>2, <1>4 DEF ChainCutoffs, CutoffsIn

\* The instants of the chain are the same, or now is one of them.
LEMMA SavedCutoffs ==
    ASSUME NEW p, NEW q, NEW e, NEW f, NEW at, at # None, NEW saved \in Scopes,
           f.activatedAt = e.activatedAt, saved # "room" => f.policyAt = e.policyAt,
           q[saved] # None, q[saved].at = at,
           \A other \in Scopes \ {saved} : q[other] = p[other]
    PROVE  CutoffsIn(q, f) = CutoffsIn(p, e) \/ at \in CutoffsIn(q, f)
<1>1. CASE saved \in ChainIn(q)
  <2>1. AtIn(q, f, saved) = at
    BY DEF AtIn
  <2> QED BY <1>1, <2>1 DEF CutoffsIn
<1>2. CASE saved \notin ChainIn(q)
  <2>1. "item" \in ChainIn(q) /\ saved \in {"list", "room"}
    BY <1>2 DEF ChainIn, Scopes
  <2>2. StateIn(q, "item") = StateIn(p, "item")
    BY <2>1 DEF StateIn, Scopes
  <2>3. ChainIn(q) = ChainIn(p)
    <3>1. CASE saved = "list"
      <4>1. StateIn(q, "item") # "inherit"
        BY <1>2, <3>1 DEF ChainIn
      <4> QED BY <2>2, <4>1 DEF ChainIn
    <3>2. CASE saved = "room"
      <4>1. StateIn(q, "list") = StateIn(p, "list")
        BY <3>2 DEF StateIn, Scopes
      <4> QED BY <2>2, <4>1 DEF ChainIn
    <3> QED BY <2>1, <3>1, <3>2
  <2>4. ChainIn(q) \subseteq Scopes \ {saved}
    BY <1>2 DEF ChainIn, Scopes
  <2>5. ASSUME NEW scope \in ChainIn(q)
        PROVE  AtIn(q, f, scope) = AtIn(p, e, scope)
    <3>1. q[scope] = p[scope] /\ scope # saved
      BY <2>4
    <3>2. scope = "room" => saved # "room"
      BY <3>1
    <3> QED BY <3>1, <3>2 DEF AtIn
  <2> QED BY <2>3, <2>5 DEF CutoffsIn
<1> QED BY <1>1, <1>2

LEMMA SameCutoffs ==
    ASSUME NEW p, NEW e, NEW f, f.activatedAt = e.activatedAt, f.policyAt = e.policyAt
    PROVE  CutoffsIn(p, f) = CutoffsIn(p, e)
<1>1. \A scope \in ChainIn(p) : AtIn(p, f, scope) = AtIn(p, e, scope)
  BY DEF AtIn
<1> QED BY <1>1 DEF CutoffsIn

LEMMA ChainMoves ==
    ASSUME RemindersInv, RowsOK', [Next]_vars, device # None, device'.id = device.id
    PROVE  ChainCutoffs' = ChainCutoffs \/ now' \in ChainCutoffs'
<1>0. /\ ChainCutoffs = CutoffsIn(policies, enrollment) /\ RowsOK
      /\ now \in Nat /\ now # None /\ enrollment # None
  BY InvariantParts, CutoffsAre, DatesAreNat, NoneIsNoRow DEF RowsOK, CutoffsOfRows
<1>1. PICK q, f : q = policies' /\ f = enrollment'
  OBVIOUS
<1>2. ChainCutoffs' = CutoffsIn(q, f)
  <2>1. RowsOK' => CutoffsOfRows'
    BY CutoffsAre, PTL
  <2> QED BY <1>1, <2>1 DEF CutoffsOfRows
<1>3. ASSUME NEW op \in OpIds, Personal(op)
      PROVE  ChainCutoffs' = ChainCutoffs \/ now' \in ChainCutoffs'
  <2>1. ASSUME NEW zone \in Zones \cup {None}, NEW mode \in Presets \cup {None},
               NEW time \in Times \cup {None}, EnrollNewDevice(op, zone, mode, time)
        PROVE  FALSE
    BY <2>1, NewDeviceIs
  <2>2. SettingsMove(op) /\ now' = now
    BY <1>3, <2>1, PersonalIs DEF SettingsMove
  <2>3. CASE f.activatedAt = now
    BY <1>2, <2>2, <2>3 DEF CutoffsIn
  <2>4. CASE f.activatedAt = enrollment.activatedAt
    <3>1. CASE policies' = policies /\ enrollment'.policyAt = enrollment.policyAt
      BY <1>0, <1>1, <1>2, <2>4, <3>1, SameCutoffs
    <3>2. ASSUME NEW saved \in Scopes, SavedNow(policies', saved),
                 saved # "room" => enrollment' = enrollment
          PROVE  ChainCutoffs' = ChainCutoffs \/ now' \in ChainCutoffs'
      <4>1. /\ q[saved] \in PolicyRow /\ q[saved].at = now
            /\ \A other \in Scopes \ {saved} : q[other] = policies[other]
        BY <1>0, <1>1, <3>2, SavedIs DEF RowsOK
      <4>2. q[saved] # None
        BY <4>1, NoneIsNoRow
      <4>3. PICK at, p, e : at = now /\ p = policies /\ e = enrollment
        OBVIOUS
      <4>4. CutoffsIn(q, f) = CutoffsIn(p, e) \/ at \in CutoffsIn(q, f)
        BY <1>0, <1>1, <2>4, <3>2, <4>1, <4>2, <4>3, SavedCutoffs
      <4> QED BY <1>0, <1>2, <2>2, <4>3, <4>4
    <3> QED BY <2>2, <3>1, <3>2 DEF SettingsMove, PolicyMove, Scopes
  <2> QED BY <1>1, <2>2, <2>3, <2>4 DEF SettingsMove, EnrollmentMove
<1>4. CASE Others \/ UNCHANGED vars \/ \E op \in OpIds : Compose(op)
  <2>1. /\ policies' = policies /\ f.activatedAt = enrollment.activatedAt
        /\ f.policyAt = enrollment.policyAt
    BY <1>0, <1>1, <1>4, OthersDate
  <2> QED BY <1>0, <1>1, <1>2, <2>1, SameCutoffs
<1> QED BY <1>3, <1>4 DEF Next, Others

\* The largest of the instants, if none is ahead of the clock.
LEMMA MaxMoves ==
    ASSUME NEW S, NEW T, NEW at \in Nat,
           T = S \/ at \in T, \A x \in T : x \in Nat /\ x <= at
    PROVE  Max(T) \in {Max(S), at}
<1>1. CASE T = S
  BY <1>1
<1>2. CASE at \in T
  <2>1. \A x \in T : (\A y \in T : x >= y) => x = at
    BY <1>2
  <2>2. \A y \in T : at >= y
    OBVIOUS
  <2> QED BY <1>2, <2>1, <2>2 DEF Max
<1> QED BY <1>1, <1>2

\* No instant of the chain is ahead of the clock.
LEMMA ChainIsPast ==
    ASSUME RemindersInv, DatesOK, enrollment # None
    PROVE  \A at \in ChainCutoffs : at \in Nat /\ at <= now
<1>1. ChainCutoffs = CutoffsIn(policies, enrollment)
  BY InvariantParts, CutoffsAre DEF CutoffsOfRows
<1>2. enrollment.activatedAt \in Nat /\ enrollment.activatedAt <= now
  BY DatesAreNat DEF DatesOK
<1>3. ASSUME NEW scope \in Scopes, AtIn(policies, enrollment, scope) # None
      PROVE  /\ AtIn(policies, enrollment, scope) \in Nat
             /\ AtIn(policies, enrollment, scope) <= now
  BY <1>3, DatesAreNat DEF DatesOK, AtIn
<1>4. ChainIn(policies) \subseteq Scopes
  BY DEF ChainIn, Scopes
<1> QED BY <1>1, <1>2, <1>3, <1>4 DEF CutoffsIn

\* The instants of the cutoffs.
ItemInstants(timed) == ChainCutoffs \cup {item.cycleAt} \cup {at \in {device.anchorAt} : ~timed}
SummaryInstants == ChainCutoffs \cup {enrollment.timeAt, device.zoneAt}

\* None of them is ahead of the clock.
InstantsArePast ==
    device # None =>
        /\ item.dated => \A timed \in BOOLEAN : \A at \in ItemInstants(timed) : at \in Nat /\ at <= now
        /\ \A at \in SummaryInstants : at \in Nat /\ at <= now

LEMMA PastInstants == RemindersInv /\ DatesOK => InstantsArePast
<1> SUFFICES ASSUME RemindersInv, DatesOK, device # None
             PROVE  InstantsArePast
  BY DEF InstantsArePast
<1>1. enrollment # None /\ (item.dated => item.cycleAt # None)
  BY InvariantParts DEF RowsOK, RestOK
<1>2. \A at \in ChainCutoffs : at \in Nat /\ at <= now
  BY <1>1, ChainIsPast
<1>3. /\ item.dated => item.cycleAt \in Nat /\ item.cycleAt <= now
      /\ device.anchorAt \in Nat /\ device.anchorAt <= now
      /\ device.zoneAt \in Nat /\ device.zoneAt <= now
      /\ enrollment.timeAt \in Nat /\ enrollment.timeAt <= now
  BY <1>1, DatesAreNat DEF DatesOK
<1>4. item.dated =>
        \A timed \in BOOLEAN : \A at \in ItemInstants(timed) : at \in Nat /\ at <= now
  BY <1>2, <1>3 DEF ItemInstants
<1>5. \A at \in SummaryInstants : at \in Nat /\ at <= now
  BY <1>2, <1>3 DEF SummaryInstants
<1> QED BY <1>4, <1>5 DEF InstantsArePast

\* Each instant is what it was, or now.
LEMMA InstantsMove ==
    ASSUME RemindersInv, RemindersInv', [Next]_vars, device # None, device'.id = device.id
    PROVE  /\ device' # None
           /\ enrollment'.timeAt \in {enrollment.timeAt, now'}
           /\ device'.anchorAt \in {device.anchorAt, now'}
           /\ device'.zoneAt \in {device.zoneAt, now'}
           /\ item'.dated => item'.cycleAt \in {item.cycleAt, now'}
<1>0. enrollment # None
  BY InvariantParts DEF RowsOK
<1>1. ASSUME NEW op \in OpIds, Personal(op)
      PROVE  /\ device' # None /\ now' = now /\ item' = item
             /\ enrollment'.timeAt \in {enrollment.timeAt, now}
             /\ device'.anchorAt \in {device.anchorAt, now}
             /\ device'.zoneAt \in {device.zoneAt, now}
  <2>1. ASSUME NEW zone \in Zones \cup {None}, NEW mode \in Presets \cup {None},
               NEW time \in Times \cup {None}, EnrollNewDevice(op, zone, mode, time)
        PROVE  FALSE
    BY <2>1, NewDeviceIs
  <2>2. SettingsMove(op)
    BY <1>1, <2>1, PersonalIs
  <2>3. device' \in DeviceRow
    BY <2>2 DEF SettingsMove, DeviceMove
  <2> QED BY <2>2, <2>3, NoneIsNoRow DEF SettingsMove, DeviceMove, EnrollmentMove
<1>2. CASE Others \/ UNCHANGED vars \/ \E op \in OpIds : Compose(op)
  <2>1. /\ device' = device /\ enrollment'.timeAt = enrollment.timeAt
        /\ \/ now' = now /\ item'.cycleAt \in {item.cycleAt, None, now}
           \/ now' = now + 1 /\ item' = item
    BY <1>0, <1>2, OthersDate
  <2>2. item'.dated => item'.cycleAt # None
    <3>1. RestOK'
      <4>1. RemindersInv' => RestOK'
        BY InvariantParts, PTL
      <4> QED BY <4>1
    <3> QED BY <3>1 DEF RestOK
  <2> QED BY <2>1, <2>2
<1> QED BY <1>1, <1>2 DEF Next, Others

LEMMA NextMovesCutoffs ==
    ASSUME RemindersInv, DatesOK, [Next]_vars, device # None, device'.id = device.id
    PROVE  /\ (item.dated /\ item'.dated) =>
                 \A timed \in BOOLEAN : Cutoff(timed)' \in {Cutoff(timed), now'}
           /\ SummaryCutoff' \in {SummaryCutoff, now'}
<1>1. RemindersInv' /\ RowsOK'
  <2>1. RemindersInv'
    BY NextKeeps
  <2>2. RemindersInv' => RowsOK'
    BY InvariantParts, PTL
  <2> QED BY <2>1, <2>2
<1>2. InstantsArePast'
  <2>1. DatesOK'
    BY NextDates
  <2>2. RemindersInv' /\ DatesOK' => InstantsArePast'
    BY PastInstants, PTL
  <2> QED BY <1>1, <2>1, <2>2
<1>3. ChainCutoffs' = ChainCutoffs \/ now' \in ChainCutoffs'
  BY <1>1, ChainMoves
<1>4. /\ device' # None
      /\ enrollment'.timeAt \in {enrollment.timeAt, now'}
      /\ device'.anchorAt \in {device.anchorAt, now'}
      /\ device'.zoneAt \in {device.zoneAt, now'}
      /\ item'.dated => item'.cycleAt \in {item.cycleAt, now'}
  BY <1>1, InstantsMove
<1>5. PICK at \in Nat : at = now'
  <2>1. RemindersInv' => RestOK'
    BY InvariantParts, PTL
  <2> QED BY <1>1, <2>1, MomentIsNat DEF RestOK
<1>6. ASSUME item'.dated, NEW timed \in BOOLEAN
      PROVE  Cutoff(timed)' \in {Cutoff(timed), now'}
  <2>1. PICK S, T : S = ItemInstants(timed) /\ T = ItemInstants(timed)'
    OBVIOUS
  <2>2. T = S \/ at \in T
    BY <1>3, <1>4, <1>5, <1>6, <2>1 DEF ItemInstants
  <2>3. \A x \in T : x \in Nat /\ x <= at
    BY <1>2, <1>4, <1>5, <1>6, <2>1 DEF InstantsArePast
  <2>4. Max(T) \in {Max(S), at}
    BY <2>2, <2>3, MaxMoves
  <2>5. Cutoff(timed) = Max(S) /\ Cutoff(timed)' = Max(T)
    BY <2>1 DEF Cutoff, ItemInstants
  <2> QED BY <1>5, <2>4, <2>5
<1>7. SummaryCutoff' \in {SummaryCutoff, now'}
  <2>1. PICK S, T : S = SummaryInstants /\ T = SummaryInstants'
    OBVIOUS
  <2>2. T = S \/ at \in T
    BY <1>3, <1>4, <1>5, <2>1 DEF SummaryInstants
  <2>3. \A x \in T : x \in Nat /\ x <= at
    BY <1>2, <1>4, <1>5, <2>1 DEF InstantsArePast
  <2>4. Max(T) \in {Max(S), at}
    BY <2>2, <2>3, MaxMoves
  <2>5. SummaryCutoff = Max(S) /\ SummaryCutoff' = Max(T)
    BY <2>1 DEF SummaryCutoff, SummaryInstants
  <2> QED BY <1>5, <2>4, <2>5
<1> QED BY <1>6, <1>7

\* Whatever is set, reset, resumed, checked or moved to another zone, the instant
\* before which an item's reminders stay off is kept or set to now: an old
\* reminder is never opened again (relative_cutoff, policies.py).
THEOREM CutoffsMoveToNow == Spec => CutoffMovesToNow
<1>1. RemindersInv /\ DatesOK /\ [Next]_vars =>
        [(device # None /\ device'.id = device.id) =>
          /\ (item.dated /\ item'.dated) =>
                \A timed \in BOOLEAN : Cutoff(timed)' \in {Cutoff(timed), now'}
          /\ SummaryCutoff' \in {SummaryCutoff, now'}]_vars
  BY NextMovesCutoffs
<1> QED BY <1>1, DatesInvariant, PTL DEF Spec, CutoffMovesToNow
=============================================================================
