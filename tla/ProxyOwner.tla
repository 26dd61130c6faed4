----------------------------- MODULE ProxyOwner -----------------------------
(***************************************************************************)
(* The ownership of the system proxy setting: Controller.Enable and        *)
(* Disable of engine/tunnel, the WinINet backend they drive, the durable   *)
(* recovery marker, the recovery at boot and on demand, and crashes.       *)
(*                                                                         *)
(* A setting is the user's or FreeIran's.  Every platform or file call is  *)
(* one step and may fail.  The mutex of the controller makes its calls     *)
(* exclusive; the recovery takes no lock.                                  *)
(***************************************************************************)
EXTENDS Integers

VARIABLES
  platform,  \* the setting of the platform
  marker,    \* the former setting the marker file records, NoMarker without a file
  saved,     \* what the backend saved, NoMarker for nothing
  enabled,   \* Controller.enabled
  call,      \* the step the controller's call is at, "idle" without one, "booting", "down"
  previous,  \* local: the setting captured by Enable
  recovery,  \* the step RecoverStaleProxy is at
  mixed      \* whether Enable found our own setting in force, a recovery met a call or
             \* an enabled tunnel, or found a marker it could not use

vars == <<platform, marker, saved, enabled, call, previous, recovery, mixed>>

NoMarker == "none"
Settings == {"user", "ours"}

Init ==
  /\ platform = "user" /\ marker = NoMarker /\ saved = NoMarker
  /\ enabled = FALSE /\ call = "booting" /\ previous = NoMarker /\ recovery = "begin"
  /\ mixed = FALSE

Up == call # "down"
Alone == recovery = "idle"

-----------------------------------------------------------------------------
(* Enable.                                                                 *)

\* Current, before anything changes.
Capture ==
  /\ call = "idle" /\ ~enabled
  /\ previous' = platform /\ call' = "captured"
  /\ mixed' = (mixed \/ ~Alone \/ platform = "ours")
  /\ UNCHANGED <<platform, marker, saved, enabled, recovery>>

\* Mutant of Unmarked: without the marker Enable goes on.
UnmarkedGoesOn == "marked"
Unmarked == "idle"

\* writeRecoveryMarker: a temporary file and a rename.
WriteMarker ==
  /\ call = "captured"
  /\ \/ marker' = previous /\ call' = "marked"
     \/ marker' = marker /\ call' = Unmarked
  /\ UNCHANGED <<platform, saved, enabled, previous, recovery, mixed>>

\* The backend: the query saves what it finds, the set call activates; either may fail.
BackendQuery ==
  /\ call = "marked"
  /\ \/ saved' = platform /\ call' = "queried"
     \/ saved' = saved /\ call' = "rollback"
  /\ UNCHANGED <<platform, marker, enabled, previous, recovery, mixed>>

BackendSet ==
  /\ call = "queried"
  /\ \/ platform' = "ours" /\ call' = "set"
     \/ platform' = platform /\ call' = "rollback"
  /\ UNCHANGED <<marker, saved, enabled, previous, recovery, mixed>>

\* The verification of the activation; markOwnershipActive may fail without consequence.
Verify ==
  /\ call = "set"
  /\ \/ platform = "ours" /\ enabled' = TRUE /\ call' = "idle"
     \/ enabled' = enabled /\ call' = "rollback"
  /\ UNCHANGED <<platform, marker, saved, previous, recovery, mixed>>

\* Mutant of AfterFailedRestore: the marker is cleared in any case.
ClearsAnyway == "clear"
AfterFailedRestore == "idle"

\* rollbackEnable: a restore that fails keeps the marker.
Rollback ==
  /\ call = "rollback"
  /\ \/ platform' = previous /\ call' = "clear"
     \/ platform' = platform /\ call' = AfterFailedRestore
  /\ UNCHANGED <<marker, saved, enabled, previous, recovery, mixed>>

\* clearRecoveryMarker, the last step of a rollback and of Disable.
ClearMarker ==
  /\ call = "clear"
  /\ marker' \in {marker, NoMarker}
  /\ enabled' = FALSE /\ call' = "idle"
  /\ UNCHANGED <<platform, saved, previous, recovery, mixed>>

-----------------------------------------------------------------------------
\* Disable: the backend writes back what it saved; an error leaves the controller enabled.
Disable ==
  /\ call = "idle" /\ enabled /\ mixed' = (mixed \/ ~Alone)
  /\ \/ platform' = saved /\ saved' = NoMarker /\ call' = "clear"
     \/ UNCHANGED <<platform, saved, call>>
  /\ UNCHANGED <<marker, enabled, previous, recovery>>

-----------------------------------------------------------------------------
(* RecoverStaleProxy.                                                      *)

\* CleanupStaleOwnership runs it on demand.
Cleanup ==
  /\ Up /\ recovery = "idle" /\ recovery' = "begin"
  /\ mixed' = (mixed \/ call # "idle" \/ enabled)
  /\ UNCHANGED <<platform, marker, saved, enabled, call, previous>>

\* The recorded setting is restored; without a marker, or when that fails, nothing changes.
\* A marker that cannot be parsed, or is not valid, is removed and nothing is restored.
Booted == IF call = "booting" THEN "idle" ELSE call
Recover ==
  /\ Up /\ recovery = "begin"
  /\ \/ /\ marker # NoMarker /\ platform' = marker /\ recovery' = "restored"
        /\ UNCHANGED <<call, marker, mixed>>
     \/ /\ recovery' = "idle" /\ call' = Booted /\ UNCHANGED <<platform, marker, mixed>>
     \/ /\ marker # NoMarker /\ marker' \in {marker, NoMarker} /\ mixed' = TRUE
        /\ recovery' = "idle" /\ call' = Booted /\ UNCHANGED platform
  /\ UNCHANGED <<saved, enabled, previous>>

\* The marker goes once the restored setting has been read back.
RecoverClears ==
  /\ Up /\ recovery = "restored"
  /\ \/ platform = marker /\ marker' = NoMarker
     \/ UNCHANGED marker
  /\ recovery' = "idle" /\ call' = Booted
  /\ UNCHANGED <<platform, saved, enabled, previous, mixed>>

\* A crash loses memory and keeps the platform setting and the file.
Crash ==
  /\ Up /\ call' = "down" /\ recovery' = "idle"
  /\ saved' = NoMarker /\ enabled' = FALSE /\ previous' = NoMarker
  /\ UNCHANGED <<platform, marker, mixed>>

Restart ==
  /\ call = "down" /\ call' = "booting" /\ recovery' = "begin"
  /\ UNCHANGED <<platform, marker, saved, enabled, previous, mixed>>

Enable == Capture \/ WriteMarker \/ BackendQuery \/ BackendSet \/ Verify \/ Rollback \/ ClearMarker
Recovery == Recover \/ RecoverClears
Next == Enable \/ Disable \/ Cleanup \/ Recovery \/ Crash \/ Restart

Fairness == WF_vars(Enable) /\ WF_vars(Recovery) /\ WF_vars(Restart)
Spec == Init /\ [][Next]_vars

-----------------------------------------------------------------------------
TypeOK ==
  /\ mixed \in BOOLEAN
  /\ platform \in Settings /\ {marker, saved, previous} \subseteq Settings \cup {NoMarker}
  /\ enabled \in BOOLEAN /\ recovery \in {"begin", "restored", "idle"}

\* FreeIran's proxy is on the platform only with durable evidence of it, which records the
\* setting of the user: whatever the crash, the next boot can put the user's setting back.
\* The exceptions are an Enable that finds our setting, left by a restore that failed, and
\* records it as the user's, a recovery on demand during a call or a tunnel, and one that
\* finds the marker damaged.
ProxyRecoverable == ~mixed /\ platform = "ours" => marker = "user"
=============================================================================
