------------------------------ MODULE Migration ------------------------------
(***************************************************************************)
(* The one-time migration of a legacy workspace (system/                   *)
(* workspace_migrate.go): at boot, when the workspace holds no             *)
(* authoritative data and a legacy location does, the trees are copied     *)
(* file by file, the copy is verified by size and the outcome is recorded. *)
(* The process may die at any step and boots again.                        *)
(***************************************************************************)
EXTENDS Integers, Sequences, FiniteSets

CONSTANT MaxBoots

VARIABLES legacy,     \* the files of the legacy location
          file,       \* the workspace: "none", "part" or "whole" for each file
          boot,       \* "down", "copying", "verifying", "recording", "up", "failed"
          at,         \* the position in the walk of the trees
          copied,     \* the files copied so far
          status,     \* config/workspace.json: "none", "skipped" or "migrated"
          boots

vars == <<legacy, file, boot, at, copied, status, boots>>

(* The walk: config, data, cores, cache and providers, each in name order. *)
Walk == << [tree |-> "config", name |-> "sources"], [tree |-> "data", name |-> "chunk"],
           [tree |-> "data", name |-> "store.meta"], [tree |-> "cores", name |-> "core"],
           [tree |-> "providers", name |-> "provider"] >>

Files == {Walk[i] : i \in 1..Len(Walk)}

(* hasAuthoritativeData: the store's metadata or the source list exists,   *)
(* whatever its content.                                                   *)
Authoritative(present) ==
  \E f \in present : f.name \in {"sources", "store.meta"}

Present == {f \in Files : file[f] # "none"}

(* EnsureWorkspaceMigrated: skipped by the environment, by a workspace     *)
(* with authoritative data and by the absence of a legacy location; the    *)
(* outcome is recorded and an error of that is dropped.                    *)
Begin ==
  /\ boot \in {"down", "failed"} /\ boots < MaxBoots
  /\ boots' = boots + 1
  /\ \E disabled \in BOOLEAN :
       IF disabled \/ Authoritative(Present) \/ ~Authoritative(legacy)
       THEN /\ boot' = "up"
            /\ \E saved \in BOOLEAN : status' = IF saved THEN "skipped" ELSE status
            /\ UNCHANGED <<at, copied>>
       ELSE boot' = "copying" /\ at' = 1 /\ copied' = 0 /\ UNCHANGED status
  /\ UNCHANGED <<legacy, file>>

(* copyTree and copyFile: the target is created empty, filled and synced;  *)
(* files the legacy location does not have are not met.                    *)
Copy ==
  /\ boot = "copying"
  /\ IF at > Len(Walk)
     THEN boot' = "verifying" /\ UNCHANGED <<file, at, copied>>
     ELSE LET f == Walk[at] IN
          IF f \notin legacy THEN at' = at + 1 /\ UNCHANGED <<boot, file, copied>>
          ELSE \/ /\ file[f] # "part" /\ file' = [file EXCEPT ![f] = "part"]
                  /\ UNCHANGED <<boot, at, copied>>
               \/ /\ file[f] = "part" /\ file' = [file EXCEPT ![f] = "whole"]
                  /\ at' = at + 1 /\ copied' = copied + 1
                  /\ UNCHANGED boot
               \/ boot' = "failed" /\ UNCHANGED <<file, at, copied>>
  /\ UNCHANGED <<legacy, status, boots>>

(* An older install that still uses the legacy location adds a file there  *)
(* during the copy.  What it adds after the verification is not the        *)
(* migration's to carry.                                                   *)
LegacyWrites ==
  /\ boot = "copying"
  /\ \E f \in Files \ legacy : legacy' = legacy \cup {f}
  /\ UNCHANGED <<file, boot, at, copied, status, boots>>

(* The trees verifyCopy walks. *)
VerifiedTrees == {"config", "data", "cores", "cache"}

(* A mutation of Verified: the sizes are not compared. *)
VerifiedAny == TRUE

(* verifyCopy: every file of those trees is there with its size, and their *)
(* number is the number of files copied.                                   *)
Verified ==
  LET seen == {f \in legacy : f.tree \in VerifiedTrees} IN
  (\A f \in seen : file[f] = "whole") /\ Cardinality(seen) = copied

Verify ==
  /\ boot = "verifying"
  /\ boot' = IF Verified THEN "recording" ELSE "failed"
  /\ UNCHANGED <<legacy, file, at, copied, status, boots>>

(* saveWorkspaceStatus replaces config/workspace.json atomically. *)
Record ==
  /\ boot = "recording"
  /\ \E saved \in BOOLEAN :
       IF saved THEN status' = "migrated" /\ boot' = "up"
       ELSE boot' = "failed" /\ UNCHANGED status
  /\ UNCHANGED <<legacy, file, at, copied, boots>>

(* The process ends. *)
Dies ==
  /\ boot \notin {"down"}
  /\ boot' = "down"
  /\ UNCHANGED <<legacy, file, at, copied, status, boots>>

Init ==
  /\ legacy \in SUBSET Files
  /\ file = [f \in Files |-> "none"]
  /\ boot = "down" /\ at = 1 /\ copied = 0 /\ status = "none" /\ boots = 0

Next == Begin \/ Copy \/ LegacyWrites \/ Verify \/ Record \/ Dies

Spec == Init /\ [][Next]_vars

(***************************************************************************)
(* Properties                                                              *)
(***************************************************************************)
TypeOK ==
  /\ file \in [Files -> {"none", "part", "whole"}]
  /\ boot \in {"down", "copying", "verifying", "recording", "up", "failed"}
  /\ status \in {"none", "skipped", "migrated"} /\ copied \in 0..Len(Walk)

(* "migrated" is recorded only with every file of the legacy location in   *)
(* the workspace, whole: the status follows the verification.  The         *)
(* verification does not look at the providers tree.                       *)
MigratedWhole ==
  status = "migrated" =>
    \A f \in legacy : f.tree \in VerifiedTrees => file[f] = "whole"

(* The new workspace becomes authoritative after a verified copy: a        *)
(* workspace that is in use with data of the legacy location has all of    *)
(* it.                                                                     *)
(* The code does otherwise: TLC refutes this property (README, section 6). *)
AuthoritativeVerified ==
  boot = "up" /\ Authoritative(Present) => \A f \in legacy : file[f] = "whole"
=============================================================================
