---------------------------- MODULE CoreManager -----------------------------
(***************************************************************************)
(* engine/coremgr for one core: install with local reuse and adoption,     *)
(* activation with a retained predecessor, rollback, health check, enable, *)
(* disable, remove, the enrichment that ends after the call it belongs to, *)
(* and crashes between two renames.                                        *)
(*                                                                         *)
(* A binary is its install number, 0 for no complete file.  Paths of the   *)
(* bin directory: 1 is the active one, 2 ".previous", and every rollback   *)
(* appends ".rollforward", the next number.                                *)
(***************************************************************************)
EXTENDS Integers

CONSTANTS
  MaxInstalls,  \* bound: binaries placed
  MaxPath,      \* bound: paths, hence rollbacks in a row
  MaxFaults     \* bound: faults

VARIABLES
  file,    \* path -> binary
  mf,      \* manifest in memory: state, bin (path, Ext or 0), ver, prev (path or 0)
  disk,    \* manifest on disk
  op,      \* the call that holds the core's lock: pc, pre (snapshot), had (its binary
           \* was there), kept (it was retained)
  staged,  \* the archive in the staging directory: none, valid, invalid
  check,   \* version an update check under way compares with, 0 for none
  enrich,  \* enrichment under way: its snapshot, then the manifest it is to write
  placed,  \* binaries placed so far
  faults   \* manifests not written, or written late over a later one, and predecessors
           \* not retained or not restored, so far

vars == <<file, mf, disk, op, staged, check, enrich, placed, faults>>

Paths == 1 .. MaxPath
Ext == -1
Healthy == {"ready", "installed", "update"}
Blank == [state |-> "not_installed", bin |-> 0, ver |-> 0, prev |-> 0]
At(pc, pre, had) == [pc |-> pc, pre |-> pre, had |-> had, kept |-> FALSE]
Idle == At("idle", Blank, FALSE)
None == [at |-> "none", m |-> Blank]
\* The external executable is outside of the manager's directories, and stays.
Exists(b) == b = Ext \/ (b \in Paths /\ file[b] # 0)

Init ==
  /\ file = [p \in Paths |-> 0] /\ mf = Blank /\ disk = Blank
  /\ op = Idle /\ staged = "none" /\ check = 0 /\ enrich = None /\ placed = 0 /\ faults = 0

\* A step that may go wrong.
Try(ok) == ok \/ faults < MaxFaults
Counted(ok) == faults' = IF ok THEN faults ELSE faults + 1

\* updateManifest: in memory, then on disk; an error of the second is ignored.
Update(m) ==
  mf' = m /\ \E ok \in BOOLEAN : Try(ok) /\ Counted(ok) /\ disk' = IF ok THEN m ELSE disk

-----------------------------------------------------------------------------
(* Install.                                                                *)

\* The fail closure: staging goes, the former state returns if the former binary was there.
Failed(pre, had) ==
  [mf EXCEPT !.state = IF had /\ pre.state \in {"ready", "update"} THEN pre.state ELSE "broken"]
Fail(pre, had) == op' = Idle /\ Update(Failed(pre, had))

\* ensureReusable: a healthy active binary answers without the network, and an enrichment
\* follows; otherwise, with the release known, the active one is validated again.  Only an
\* external one stays active although it is older.  A local candidate may be adopted.
Kept == {"ready"} \cup IF mf.bin = Ext THEN {"update"} ELSE {}

ReuseOffline ==
  /\ op = Idle /\ Exists(mf.bin) /\ mf.state \in Healthy
  /\ \E s \in Kept : Update([mf EXCEPT !.state = s])
  /\ enrich' = IF enrich = None THEN [at |-> "apply", m |-> mf] ELSE enrich
  /\ UNCHANGED <<file, op, staged, check, placed>>

ReuseOnline ==
  /\ op = Idle /\ Exists(mf.bin)
  /\ \E s \in Kept : Update([mf EXCEPT !.state = s])
  /\ UNCHANGED <<file, op, staged, check, enrich, placed>>

Adopt ==
  /\ op = Idle
  /\ \E s \in {"ready", "update"} : Update([mf EXCEPT !.state = s, !.bin = Ext, !.ver = 0])
  /\ UNCHANGED <<file, op, staged, check, enrich, placed>>

\* No reuse: the release may be unknown, the new state may not reach the disk, or the
\* download starts.
Begin ==
  /\ op = Idle /\ placed < MaxInstalls
  /\ \/ Fail(mf, Exists(mf.bin)) /\ staged' = "none"
     \/ /\ UNCHANGED staged /\ mf' = [mf EXCEPT !.state = "installing"]
        /\ \E ok \in BOOLEAN :
             /\ Try(ok) /\ Counted(ok)
             /\ disk' = IF ok THEN mf' ELSE disk
             /\ op' = IF ok THEN At("staging", mf, Exists(mf.bin)) ELSE Idle
  /\ UNCHANGED <<file, check, enrich, placed>>

\* The asset must belong to the release; a complete staged archive is used again if it is
\* valid, otherwise one is downloaded, which may stop or bring other bytes.
Download ==
  /\ op.pc = "staging"
  /\ \/ Fail(op.pre, op.had) /\ staged' = "none"
     \/ /\ staged' \in IF staged = "valid" THEN {"valid"} ELSE {"valid", "invalid"}
        /\ op' = [op EXCEPT !.pc = "verify"] /\ UNCHANGED <<mf, disk, faults>>
  /\ UNCHANGED <<file, enrich, check, placed>>

\* Mutant of Verified: the size and the digest are not compared.
VerifiedAlways == TRUE
Verified == staged = "valid"

\* Size and digest, unpacking, version, validation and smoke test, all in staging.
Verify ==
  /\ op.pc = "verify"
  /\ \/ Fail(op.pre, op.had) /\ staged' = "none"
     \/ Verified /\ op' = [op EXCEPT !.pc = "retain"] /\ UNCHANGED <<mf, disk, faults, staged>>
  /\ UNCHANGED <<file, enrich, check, placed>>

\* Mutant of Retained: the predecessor is removed and not kept.
RetainedNot == [file EXCEPT ![1] = 0, ![2] = 0]
Retained == [file EXCEPT ![1] = 0, ![2] = file[1]]

\* activate: a managed predecessor is renamed; when that fails the install goes on.
Retain ==
  /\ op.pc = "retain"
  /\ \E ok \in {b \in BOOLEAN : Try(b)} :
       LET kept == op.pre.bin = 1 /\ file[1] # 0 /\ ok
       IN /\ file' = IF kept THEN Retained ELSE IF op.pre.bin = 1 /\ file[1] # 0
                     THEN [file EXCEPT ![2] = 0] ELSE file
          /\ op' = [op EXCEPT !.pc = "place", !.kept = kept] /\ Counted(ok)
  /\ UNCHANGED <<mf, disk, staged, check, enrich, placed>>

\* Mutant of Restored: the predecessor stays aside.
RestoredNot == file
Restored == [file EXCEPT ![1] = file[2], ![2] = 0]

\* The new binary is renamed or copied into place; if both fail, the predecessor returns,
\* or a copy cut short may be over the one that was not retained.  Nothing is restored when
\* the bin directory cannot be made, and an error of the restoring rename is ignored.
Place ==
  /\ op.pc = "place"
  /\ \/ /\ file' = [file EXCEPT ![1] = placed + 1] /\ placed' = placed + 1
        /\ op' = [op EXCEPT !.pc = "record"] /\ UNCHANGED <<mf, disk, faults, staged>>
     \/ /\ file' \in IF op.kept THEN {Restored} ELSE {file, [file EXCEPT ![1] = 0]}
        /\ Fail(op.pre, op.had) /\ staged' = "none" /\ UNCHANGED placed
     \/ /\ Try(FALSE) /\ Counted(FALSE)
        /\ op' = Idle /\ mf' = Failed(op.pre, op.had) /\ disk' = mf' /\ staged' = "none"
        /\ UNCHANGED <<file, placed>>
  /\ UNCHANGED <<check, enrich>>

Record ==
  /\ op.pc = "record"
  /\ Update([state |-> "ready", bin |-> 1, ver |-> file[1],
             prev |-> IF op.kept THEN 2 ELSE mf.prev])
  /\ op' = Idle /\ staged' = "none" /\ UNCHANGED <<file, check, enrich, placed>>

-----------------------------------------------------------------------------
(* Rollback, health, enable, disable, remove.                              *)

\* Rollback: the current binary moves aside, unless the active one is external ...
Aside ==
  /\ op = Idle /\ mf.prev \in 1 .. MaxPath - 1 /\ file[mf.prev] # 0
  /\ IF mf.bin = Ext THEN UNCHANGED file
     ELSE file[1] # 0 /\ file' = [file EXCEPT ![mf.prev + 1] = file[1], ![1] = 0]
  /\ op' = At("swap", mf, FALSE)
  /\ UNCHANGED <<faults, mf, disk, staged, check, enrich, placed>>

\* ... the retained one moves in, or the first rename is undone ...
Swap ==
  /\ op.pc = "swap"
  /\ LET from == op.pre.prev IN
     \/ /\ file' = [file EXCEPT ![1] = file[from], ![from] = 0]
        /\ op' = [op EXCEPT !.pc = "rolled"]
     \/ /\ file' = IF mf.bin = Ext THEN file
                   ELSE [file EXCEPT ![1] = file[from + 1], ![from + 1] = 0]
        /\ op' = Idle
  /\ UNCHANGED <<faults, mf, disk, staged, check, enrich, placed>>

\* ... and the manifest names what moved aside as the next target.
Rolled ==
  /\ op.pc = "rolled"
  /\ \E s \in {"ready", "broken"} :
       Update([state |-> s, bin |-> 1, ver |-> file[1], prev |-> op.pre.prev + 1])
  /\ op' = Idle /\ UNCHANGED <<file, staged, check, enrich, placed>>

\* HealthCheck: not while an install is recorded.
Check ==
  /\ op = Idle /\ mf.state # "installing"
  /\ Update([mf EXCEPT !.state = "checking", !.bin = IF mf.bin = 0 THEN 1 ELSE mf.bin])
  /\ op' = At("smoke", mf, FALSE) /\ UNCHANGED <<file, staged, check, enrich, placed>>

Checked ==
  /\ op.pc = "smoke"
  /\ \E s \in {"ready", "broken"} :
       /\ s = "ready" => Exists(mf.bin)
       /\ Update([mf EXCEPT !.state = s])
  /\ op' = Idle /\ UNCHANGED <<file, staged, check, enrich, placed>>

Disable ==
  /\ op = Idle /\ Update([mf EXCEPT !.state = "disabled"])
  /\ UNCHANGED <<file, op, staged, check, enrich, placed>>

Enable ==
  /\ op = Idle
  /\ LET b == IF mf.bin = 0 THEN 1 ELSE mf.bin
     IN Update(IF Exists(b) THEN [mf EXCEPT !.state = "installed", !.bin = b]
               ELSE [mf EXCEPT !.state = "broken"])
  /\ UNCHANGED <<file, op, staged, check, enrich, placed>>

Remove ==
  /\ op = Idle /\ file' = [p \in Paths |-> 0] /\ mf' = Blank /\ disk' = Blank /\ staged' = "none"
  /\ UNCHANGED <<op, check, enrich, placed, faults>>

\* CleanStaleStaging takes no lock; it removes what is old, never what was just unpacked.
CleanStaleStaging ==
  /\ staged # "none" /\ op.pc \notin {"retain", "place", "record"} /\ staged' = "none"
  /\ UNCHANGED <<file, mf, disk, op, check, enrich, placed, faults>>

\* CheckForUpdates reads the version, asks the release server, and takes the lock at the end.
CheckForUpdates ==
  /\ check = 0 /\ mf.ver # 0 /\ check' = mf.ver
  /\ UNCHANGED <<faults, file, mf, disk, op, staged, enrich, placed>>

CheckEnds ==
  /\ check # 0 /\ op = Idle /\ check' = 0
  /\ Update([mf EXCEPT !.state = IF @ = "ready" /\ check < MaxInstalls THEN "update" ELSE @])
  /\ UNCHANGED <<file, op, staged, enrich, placed>>

-----------------------------------------------------------------------------
\* Mutant of StillOwned: the manifest is written whatever happened since the snapshot.
AlwaysOwned(pre) == TRUE
StillOwned(pre) == mf.bin = pre.bin /\ mf.ver = pre.ver /\ mf.state \in Healthy

\* applyReuseEnrichment takes no lock of the core: it compares with its snapshot, then
\* persists a copy taken before the write.
Enrich ==
  /\ enrich.at = "apply"
  /\ \E s \in {enrich.m.state, "update"} :
       mf' = IF StillOwned(enrich.m) THEN [mf EXCEPT !.state = s] ELSE mf
  /\ enrich' = [at |-> "write", m |-> mf']
  /\ UNCHANGED <<faults, file, disk, op, staged, check, placed>>

EnrichWrite ==
  /\ enrich.at = "write" /\ disk' = enrich.m /\ enrich' = None
  /\ Try(enrich.m = mf) /\ Counted(enrich.m = mf)
  /\ UNCHANGED <<file, mf, op, staged, check, placed>>

\* A crash, and New with loadManifest at the next start.
Crash ==
  /\ op' = Idle /\ check' = 0 /\ enrich' = None
  /\ mf' = [disk EXCEPT !.bin = IF @ = 0 /\ disk # Blank THEN 1 ELSE @,
                         !.prev = IF @ # 0 THEN 2 ELSE 0]
  /\ UNCHANGED <<file, disk, staged, placed, faults>>

Install == ReuseOffline \/ ReuseOnline \/ Adopt \/ Begin \/ Download \/ Verify \/ Retain \/ Place \/ Record
Rollback == Aside \/ Swap \/ Rolled
Next ==
  \/ Install \/ Rollback \/ Check \/ Checked \/ Disable \/ Enable \/ Remove
  \/ CleanStaleStaging \/ CheckForUpdates \/ CheckEnds \/ Enrich \/ EnrichWrite \/ Crash

Spec == Init /\ [][Next]_vars

-----------------------------------------------------------------------------
TypeOK ==
  /\ file \in [Paths -> 0 .. MaxInstalls]
  /\ {mf.bin, mf.prev, disk.bin, disk.prev} \subseteq Paths \cup {0, Ext}
  /\ faults \in 0 .. MaxFaults

\* A binary that was activated is not lost: until the core is removed, one of its files is a
\* complete binary at every step of an install or a rollback, so a crash leaves one.  The
\* code goes on when a predecessor is not retained, not restored or a manifest not written;
\* with such a fault it may be lost.
BinaryKept == faults = 0 /\ mf.bin = 1 /\ mf.ver # 0 => \E p \in Paths : file[p] # 0

\* Only an archive that was verified as a whole is put into place, although a crash may
\* leave any archive in the staging directory for the next install to find.
OnlyVerifiedPlaced == op.pc \in {"retain", "place", "record"} => staged = "valid"

\* A failed install changes nothing for the user: a working binary and its state are what
\* they were before the call, again unless there was such a fault.
FailedInstallHarmlessStep ==
  /\ faults' = 0
  /\ op.pc \in {"staging", "verify", "place"} /\ op.pre.state = "ready" /\ op.pre.bin = 1 /\ op.had
  /\ op' = Idle /\ mf' # mf /\ ~Crash
  => mf'.state = "ready" /\ file'[1] # 0
FailedInstallHarmless == [][FailedInstallHarmlessStep]_vars

\* The late enrichment never makes a core healthy that a call since then found broken,
\* disabled, removed or is busy installing.
EnrichmentHarmlessStep ==
  Enrich /\ mf.state \notin Healthy => mf'.state \notin Healthy
EnrichmentHarmless == [][EnrichmentHarmlessStep]_vars
=============================================================================
