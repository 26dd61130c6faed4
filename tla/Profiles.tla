------------------------------- MODULE Profiles -------------------------------
(***************************************************************************)
(* Connection profiles and the settings they apply (engine/app/profiles.go *)
(* and persist_settings.go).  The profiles are kept in memory under        *)
(* profiles.mu and in a versioned sidecar; the settings are in memory      *)
(* under a.mu and in settings.json, whose writers share settingsWrite.     *)
(***************************************************************************)
EXTENDS Integers, FiniteSets

CONSTANTS Callers,   \* goroutines that activate a profile or set the default
          Names,
          MaxId,     \* profile ids
          Limit,     \* profileLimit
          MaxOps     \* operations of the user

VARIABLES profiles,  \* by id
          active, default, next,
          future,    \* the sidecar has a newer schema
          file,      \* the sidecar
          settings,  \* a.settings
          disk,      \* settings.json
          save,      \* SettingsService.Save: "idle" or "written", and the settings
          call,      \* per caller
          owner,     \* the profile whose activation wrote the preferences last, or 0
          config,    \* whether the configuration that profiles refer to is stored
          raced,     \* whether a Save overlapped the application of the default
          ops

vars == <<profiles, active, default, next, future, file, settings, disk, save, call,
          owner, config, raced, ops>>

Ids == 1..MaxId
NoProfile == [name |-> "none", pref |-> 0, ref |-> FALSE]
Idle == [op |-> "idle", id |-> 0, other |-> 0]
NoSave == [step |-> "idle", value |-> [pref |-> 0, other |-> 0]]

Stored(p) == {i \in Ids : p[i] # NoProfile}

(* Preferences 1 are of mode auto, 2 of mode configs; either may refer to   *)
(* the configuration.                                                      *)
Specs == [name : Names, pref : {1, 2}, ref : BOOLEAN]

TypeOK ==
  /\ profiles \in [Ids -> Specs \cup {NoProfile}]
  /\ active \in 0..MaxId /\ default \in 0..MaxId /\ next \in 1..(MaxId + 1)
  /\ {future, config, raced} \subseteq BOOLEAN /\ owner \in 0..MaxId /\ ops \in 0..MaxOps
  /\ settings \in [pref : 0..2, other : 0..1] /\ disk \in [pref : 0..2, other : 0..1]

Empty == [i \in Ids |-> NoProfile]

(* A sidecar of this version, or one a newer program wrote. *)
Init ==
  /\ profiles = Empty /\ active = 0 /\ default = 0 /\ next = 1
  /\ future \in BOOLEAN
  /\ file = [newer |-> future, profiles |-> Empty, active |-> 0, default |-> 0]
  /\ settings = [pref |-> 0, other |-> 0] /\ disk = settings
  /\ save = NoSave /\ call = [c \in Callers |-> Idle]
  /\ owner = 0 /\ config \in BOOLEAN /\ raced = FALSE /\ ops = 0

-----------------------------------------------------------------------------
(* A mutation of Writable: the schema of the file is not looked at. *)
WritableAlways == TRUE

(* saveProfilesLocked refuses to write over a newer schema. *)
Writable == ~future

(* The memory has changed; the file follows unless the write fails. *)
SaveProfiles(p, a, d) ==
  LET doc == [newer |-> FALSE, profiles |-> p, active |-> a, default |-> d] IN
  file' \in {file} \cup {f \in {doc} : Writable}

(* A mutation of ProfilesFree: an activation gives profiles.mu back        *)
(* between the settings and the marker.                                    *)
ProfilesFreeBetween == TRUE

(* profiles.mu: a caller holds it from its first step to its last, but     *)
(* SetDefault gives it back between the marker and the application.        *)
ProfilesFree == \A c \in Callers : call[c].op \in {"idle", "defaulted"}

(* A mutation of Unique: the name is not compared. *)
UniqueNever(name, except) == TRUE

(* ensureUniqueNameLocked. *)
Unique(name, except) == \A i \in Stored(profiles) \ {except} : profiles[i].name # name

Begin ==
  /\ ops < MaxOps /\ ops' = ops + 1

Keep == UNCHANGED <<future, settings, disk, save, call, owner, config, raced>>

(* Create, and Duplicate with a derived name. *)
Create(spec) ==
  /\ Begin /\ ProfilesFree /\ next <= MaxId
  /\ Unique(spec.name, 0) /\ Cardinality(Stored(profiles)) < Limit
  /\ profiles' = [profiles EXCEPT ![next] = spec] /\ next' = next + 1
  /\ SaveProfiles(profiles', active, default)
  /\ UNCHANGED <<active, default>> /\ Keep

Duplicate(i) ==
  /\ Begin /\ ProfilesFree /\ next <= MaxId
  /\ i \in Stored(profiles) /\ Cardinality(Stored(profiles)) < Limit
  /\ \E name \in Names :
       /\ \A j \in Stored(profiles) : profiles[j].name # name
       /\ profiles' = [profiles EXCEPT ![next] = [profiles[i] EXCEPT !.name = name]]
  /\ next' = next + 1
  /\ SaveProfiles(profiles', active, default)
  /\ UNCHANGED <<active, default>> /\ Keep

(* Update, and Rename, which keeps everything but the name. *)
Update(i, spec) ==
  /\ Begin /\ ProfilesFree /\ i \in Stored(profiles) /\ Unique(spec.name, i)
  /\ profiles' = [profiles EXCEPT ![i] = spec]
  /\ SaveProfiles(profiles', active, default)
  /\ UNCHANGED <<active, default, next>> /\ Keep

Rename(i, name) ==
  /\ i \in Stored(profiles)
  /\ Update(i, [profiles[i] EXCEPT !.name = name])

(* A mutation of Cleared: a marker of the deleted profile stays. *)
ClearedNot(marker, i) == marker

Cleared(marker, i) == IF marker = i THEN 0 ELSE marker

Delete(i) ==
  /\ Begin /\ ProfilesFree /\ i \in Stored(profiles)
  /\ profiles' = [profiles EXCEPT ![i] = NoProfile]
  /\ active' = Cleared(active, i) /\ default' = Cleared(default, i)
  /\ SaveProfiles(profiles', active', default')
  /\ UNCHANGED next /\ Keep

ClearDefault ==
  /\ Begin /\ ProfilesFree
  /\ default' = 0 /\ SaveProfiles(profiles, active, 0)
  /\ UNCHANGED <<profiles, active, next>> /\ Keep

-----------------------------------------------------------------------------
SettingsFree == save = NoSave

(* SetActive: a profile that refers to a missing configuration is refused; *)
(* persistSettings writes the settings or fails, and the marker follows.   *)
Activate(c, i) ==
  /\ Begin /\ ProfilesFree /\ call[c] = Idle /\ SettingsFree
  /\ i \in Stored(profiles) /\ (profiles[i].pref = 2 /\ profiles[i].ref => config)
  /\ settings' = [settings EXCEPT !.pref = profiles[i].pref] /\ disk' = settings'
  /\ owner' = i
  /\ call' = [call EXCEPT ![c] = [op |-> "activating", id |-> i, other |-> 0]]
  /\ UNCHANGED <<profiles, active, default, next, future, file, save, config, raced>>

MarkActive(c) ==
  /\ call[c].op = "activating"
  /\ active' = call[c].id
  /\ SaveProfiles(profiles, active', default)
  /\ call' = [call EXCEPT ![c] = Idle]
  /\ UNCHANGED <<profiles, default, next, future, settings, disk, save, owner, config, raced, ops>>

(* SetDefault: the marker is saved, and only then is the profile applied.  *)
SetDefault(c, i) ==
  /\ Begin /\ ProfilesFree /\ call[c] = Idle /\ i \in Stored(profiles)
  /\ default' = i
  /\ SaveProfiles(profiles, active, i)
  /\ call' = [call EXCEPT ![c] = IF file' = file THEN Idle
                                 ELSE [op |-> "defaulted", id |-> 0, other |-> 0]]
  /\ UNCHANGED <<profiles, active, next, future, settings, disk, save, owner, config, raced>>

(* applyDefaultProfileAtBoot reads the settings, then stores them with the *)
(* preferences of the default, without settingsWrite.                      *)
ReadSettings(c) ==
  /\ call[c].op = "defaulted" /\ ProfilesFree
  /\ call' = [call EXCEPT ![c] = IF default = 0 THEN Idle
                                 ELSE [op |-> "applying", id |-> default, other |-> settings.other]]
  /\ raced' = (raced \/ ~SettingsFree)
  /\ UNCHANGED <<profiles, active, default, next, future, file, settings, disk, save,
                 owner, config, ops>>

ApplyDefault(c) ==
  /\ call[c].op = "applying"
  /\ settings' = [pref |-> profiles[call[c].id].pref, other |-> call[c].other]
  /\ owner' = 0
  /\ call' = [call EXCEPT ![c] = Idle]
  /\ UNCHANGED <<profiles, active, default, next, future, file, disk, save, config, raced, ops>>

(* SettingsService.Save: the file, then the memory, under settingsWrite. *)
SaveSettings ==
  /\ Begin /\ SettingsFree
  /\ raced' = (raced \/ \E c \in Callers : call[c].op = "applying")
  /\ \E other \in 0..1 :
       /\ disk' = [settings EXCEPT !.other = other]
       /\ save' = [step |-> "written", value |-> disk']
  /\ UNCHANGED <<profiles, active, default, next, future, file, settings, call, owner, config>>

SaveMemory ==
  /\ save.step = "written"
  /\ settings' = save.value /\ save' = NoSave
  /\ owner' = IF settings'.pref = settings.pref THEN owner ELSE 0
  /\ UNCHANGED <<profiles, active, default, next, future, file, disk, call, config, raced, ops>>

(* Create takes any configuration id; ingestion may store it later. *)
ConfigIngested ==
  /\ ~config /\ config' = TRUE
  /\ UNCHANGED <<profiles, active, default, next, future, file, settings, disk, save, call,
                 owner, raced, ops>>

-----------------------------------------------------------------------------
(* A mutation of NextId: the ids start after the number of profiles. *)
NextIdCounted(p) == Cardinality(Stored(p)) + 1

(* advanceNextIDLocked. *)
NextId(p) ==
  CHOOSE n \in 1..(MaxId + 1) :
    /\ n > Cardinality(Stored(p)) /\ \A i \in Stored(p) : n > i
    /\ n = Cardinality(Stored(p)) + 1 \/ n - 1 \in Stored(p)

Known(p, i) == IF i \in Stored(p) THEN i ELSE 0

(* A restart: loadProfiles, the missing references pruned and saved, and   *)
(* the default profile applied to the settings that were loaded.  A store  *)
(* that was repaired or replaced may lack the configuration.               *)
Restart ==
  LET p == IF file.newer THEN Empty ELSE file.profiles
      pruned == [i \in Ids |-> [p[i] EXCEPT !.ref = @ /\ config']] IN
  /\ Begin /\ config' \in {config, FALSE}
  /\ profiles' = pruned /\ future' = file.newer
  /\ active' = Known(p, file.active) /\ default' = Known(p, file.default)
  /\ next' = NextId(p)
  /\ IF pruned = p THEN file' = file
     ELSE file' \in {file, [file EXCEPT !.profiles = pruned]}
  /\ settings' = IF default' = 0 THEN disk ELSE [disk EXCEPT !.pref = p[default'].pref]
  /\ save' = NoSave /\ call' = [c \in Callers |-> Idle] /\ owner' = 0 /\ raced' = FALSE
  /\ UNCHANGED disk

Next ==
  \/ \E spec \in Specs : Create(spec) \/ \E i \in Ids : Update(i, spec)
  \/ \E i \in Ids : Duplicate(i) \/ Delete(i) \/ \E name \in Names : Rename(i, name)
  \/ \E c \in Callers, i \in Ids : Activate(c, i) \/ SetDefault(c, i)
  \/ \E c \in Callers : MarkActive(c) \/ ReadSettings(c) \/ ApplyDefault(c)
  \/ ClearDefault \/ SaveSettings \/ SaveMemory \/ ConfigIngested \/ Restart

Spec == Init /\ [][Next]_vars

-----------------------------------------------------------------------------
(* The names of the profiles stay distinct, the next id is a new one, and  *)
(* the active and the default marker each name a stored profile, across    *)
(* deletions, failed saves and restarts.                                   *)
ProfilesSound ==
  /\ \A i, j \in Stored(profiles) : i # j => profiles[i].name # profiles[j].name
  /\ next \notin Stored(profiles)
  /\ {active, default} \ {0} \subseteq Stored(profiles)

(* The sidecar of a newer program is never written over. *)
FutureKept == future => file.newer

(* Two activations never tear the state: once no call is under way, the    *)
(* profile whose preferences an activation stored last is the active one.  *)
Coherent ==
  (\A c \in Callers : call[c].op # "activating") /\ owner \in Stored(profiles)
    => active = owner

(* "Concurrent settings writers can never interleave and leave memory and  *)
(* disk diverging": what a profile does not set is the same in memory and  *)
(* on disk once Save returned.  The application of the default profile,    *)
(* which does not take the writers' lock, is the exception when it         *)
(* overlaps a Save.                                                        *)
SettingsAgree ==
  SettingsFree /\ ~raced /\ (\A c \in Callers : call[c] = Idle) => settings.other = disk.other
=============================================================================
