--------------------------- MODULE JournalProofs ---------------------------
(***************************************************************************)
(* What the flush worker alone guarantees about the journal: theorems for  *)
(* stores on which neither Compact, RebuildIndex nor CheckpointWAL runs    *)
(* concurrently with it, and every value of the other constants: writers,  *)
(* deletes, freezes, flush failures, Close, crashes and recovery included. *)
(***************************************************************************)
EXTENDS WatermarkProofs

\* With no maintenance call: how far the worker has made its table durable.
FlushProgress ==
  /\ compactPC = "idle"
  /\ flushPC = "metaImage" => flushImg.meta.lsn = flushing.lsn
  /\ flushPC = "persisted" => diskMeta.lsn = flushing.lsn
  /\ flushPC \in {"indexed", "indexImage", "indexed2"} => checkpointLSN = flushing.lsn

\* JournalCoversCheckpoint in inductive form: it also speaks of a journal whose
\* process is down, through the records that follow the missing one.
JournalInv ==
  /\ JournalCoversCheckpoint
  /\ \A l \in LSNs : phase # "down" /\ jlsn < l => wal[l] = NoRecord
  /\ \A l, m \in LSNs : l <= m /\ wal[l] = NoRecord /\ wal[m] # NoRecord => l <= diskMeta.lsn

FlushOnlyInv == TypeInv /\ WatermarkInv /\ FlushProgress /\ JournalInv

-----------------------------------------------------------------------------
USE DEF memVars, flushVars, compactVars, diskVars

\* The maintenance calls do not start when their bound is zero.
LEMMA NoMaintenance == ASSUME MaxCompacts = 0, TypeInv, FlushProgress PROVE ~Maintenance
<1>1. \A next : ~MaintenanceStart(next)
  BY DEF MaintenanceStart, TypeInv, TypeOK, Budgets
<1>2. QED
  BY <1>1 DEF FlushProgress, Maintenance, CompactStart, RebuildIndexStart, CompactFlushed,
     CompactVictims, CompactSnapshot, CompactWrite, CompactSwap, CompactRetire,
     CompactScansDrained, CompactRemove, RebuildIndex, CompactImageIndex, CompactPersistIndex,
     CompactImageMeta, CompactPersistMeta

\* A worker that holds a table belongs to a running process.
LEMMA WorkerRuns == ASSUME WatermarkInv, flushPC # "idle" PROVE phase # "down"
  BY DEF WatermarkInv, DownIsEmpty

\* The flush worker keeps FlushProgress, and so does everybody else.
LEMMA NextProgress ==
  ASSUME MaxCompacts = 0, TypeInv, WatermarkInv, FlushProgress, Next
  PROVE  FlushProgress'
<1>1. CASE Write
  BY <1>1 DEF Write, UpsertAppend, UpsertApply, DeleteCheck, DeleteAppend, DeleteApply, FlushProgress
<1>2. CASE ApplyPressure \/ FlushCall \/ CheckpointWAL
  BY <1>2 DEF ApplyPressure, FlushCall, CheckpointWAL, FlushProgress
<1>3. CASE FlushWorker
  <2>1. CASE FlushPop \/ FlushWriteChunk
    BY <2>1 DEF FlushPop, FlushWriteChunk, FlushProgress
  <2>2. CASE FlushIndex \/ FlushNothingLive
    BY <2>2 DEF FlushIndex, FlushNothingLive, TableLSN, FlushProgress
  <2>3. CASE FlushImageIndex \/ FlushPersistIndex
    BY <2>3 DEF FlushImageIndex, FlushPersistIndex, FlushProgress
  <2>4. CASE FlushImageMeta
    <3>1. flushImg'.meta.lsn = checkpointLSN
      BY <2>4 DEF FlushImageMeta, TypeInv, TypeOK, Images, MetaNow
    <3>2. QED
      BY <2>4, <3>1 DEF FlushImageMeta, FlushProgress
  <2>5. CASE FlushPersistMeta
    BY <2>5 DEF FlushPersistMeta, FlushProgress
  <2>6. CASE FlushCheckpoint \/ FlushDone
    BY <2>6 DEF FlushCheckpoint, FlushDone, FlushProgress
  <2>7. CASE FlushWriteFails \/ FlushPersistFails
    BY <2>7 DEF FlushWriteFails, FlushPersistFails, FlushFailed, FlushProgress
  <2>8. QED
    BY <1>3, <2>1, <2>2, <2>3, <2>4, <2>5, <2>6, <2>7 DEF FlushWorker
<1>4. CASE Scan
  BY <1>4 DEF Scan, ScanStart, ScanSnapshot, ScanEnd, FlushProgress
<1>5. CASE Lifecycle
  <2>1. CASE CloseBegin \/ CloseFreeze
    BY <2>1 DEF CloseBegin, CloseFreeze, FlushProgress
  <2>2. CASE CloseDone \/ Crash
    BY <2>2 DEF CloseDone, Crash, MemoryLost, FlushProgress
  <2>3. CASE Open
    BY <2>3 DEF Open, WatermarkInv, DownIsEmpty, FlushProgress
  <2>4. QED
    BY <1>5, <2>1, <2>2, <2>3 DEF Lifecycle
<1>6. QED
  BY <1>1, <1>2, <1>3, <1>4, <1>5, NoMaintenance DEF Next

\* store.meta only ever moves forward: the worker's image was taken after the
\* checkpoint moved, and nobody else writes the file.
LEMMA DiskMetaForward ==
  ASSUME MaxCompacts = 0, TypeInv, WatermarkInv, FlushProgress, Next
  PROVE  diskMeta.lsn <= diskMeta'.lsn /\ (diskMeta' # diskMeta => FlushPersistMeta)
<1>1. CASE FlushPersistMeta
  <2>1. flushPC = "metaImage" /\ diskMeta' = flushImg.meta
    BY <1>1 DEF FlushPersistMeta
  <2>2. diskMeta.lsn <= checkpointLSN /\ checkpointLSN <= flushing.lsn
    BY <2>1, WorkerRuns DEF WatermarkInv
  <2>3. QED
    BY <1>1, <2>1, <2>2, WatermarkTypes DEF FlushProgress
<1>2. CASE ~FlushPersistMeta
  <2>1. diskMeta' = diskMeta
    BY <1>2, NoMaintenance DEF Next, Write, UpsertAppend, UpsertApply, DeleteCheck, DeleteAppend,
       DeleteApply, ApplyPressure, FlushCall, CheckpointWAL, FlushWorker, FlushPop,
       FlushWriteChunk, FlushIndex, FlushNothingLive, FlushImageIndex, FlushPersistIndex,
       FlushImageMeta, FlushCheckpoint, FlushDone, FlushWriteFails, FlushPersistFails, Scan,
       ScanStart, ScanSnapshot, ScanEnd, Lifecycle, CloseBegin, CloseFreeze, CloseDone, Crash, Open
  <2>2. QED
    BY <2>1, WatermarkTypes
<1>3. QED
  BY <1>1, <1>2

-----------------------------------------------------------------------------
\* A record appended behind the last one leaves no gap.
LEMMA AppendJournal ==
  ASSUME TypeInv, WatermarkInv, JournalInv, NEW r, r # NoRecord, phase # "down",
         jlsn < MaxLSN, jlsn' = jlsn + 1, wal' = [wal EXCEPT ![jlsn + 1] = r],
         UNCHANGED <<phase, diskMeta>>
  PROVE  JournalInv'
<1>1. /\ jlsn \in Nat /\ jlsn + 1 \in LSNs /\ \A l \in LSNs : l \in Nat
      /\ \A l \in LSNs : wal'[l] = IF l = jlsn + 1 THEN r ELSE wal[l]
  BY WatermarkTypes, BoundsAssumption DEF TypeInv, TypeOK, LSNs
<1>2. ASSUME NEW l \in LSNs, l <= jlsn + 1, wal'[l] = NoRecord PROVE l <= diskMeta.lsn
  <2>1. l <= jlsn /\ wal[l] = NoRecord
    BY <1>1, <1>2
  <2>2. QED
    BY <2>1 DEF JournalInv, JournalCoversCheckpoint
<1>3. ASSUME NEW l \in LSNs, jlsn + 1 < l PROVE wal'[l] = NoRecord
  BY <1>1, <1>3 DEF JournalInv
<1>4. ASSUME NEW l \in LSNs, NEW m \in LSNs, l <= m, wal'[l] = NoRecord, wal'[m] # NoRecord
      PROVE  l <= diskMeta.lsn
  <2>1. m <= jlsn + 1
    BY <1>1, <1>3, <1>4
  <2>2. QED
    BY <1>1, <1>2, <1>4, <2>1
<1>5. QED
  BY <1>2, <1>3, <1>4 DEF JournalInv, JournalCoversCheckpoint

\* Truncating up to the durable checkpoint removes only records it covers.
LEMMA TruncateJournal ==
  ASSUME TypeInv, JournalInv, wal' = Truncate(diskMeta.lsn), UNCHANGED <<phase, jlsn, diskMeta>>
  PROVE  JournalInv'
<1>1. \A l \in LSNs : wal'[l] = IF l <= diskMeta.lsn THEN NoRecord ELSE wal[l]
  BY DEF Truncate
<1>2. QED
  BY <1>1 DEF JournalInv, JournalCoversCheckpoint

\* A store.meta with a later checkpoint covers more.
LEMMA MetaJournal ==
  ASSUME TypeInv, JournalInv, diskMeta.lsn <= diskMeta'.lsn, diskMeta'.lsn \in Nat,
         UNCHANGED <<phase, jlsn, wal>>
  PROVE  JournalInv'
<1>1. \A l \in LSNs : l <= diskMeta.lsn => l <= diskMeta'.lsn
  BY WatermarkTypes DEF LSNs
<1>2. QED
  BY <1>1 DEF JournalInv, JournalCoversCheckpoint

\* Open continues behind the last record on disk: nothing between the checkpoint
\* and that record is missing.
LEMMA OpenJournal == ASSUME TypeInv, JournalInv, Open PROVE JournalInv'
<1> DEFINE D == {l \in LSNs : wal[l] # NoRecord}
<1>1. /\ wal' = wal /\ diskMeta' = diskMeta /\ jlsn' = RecoveredLSN
      /\ \A l \in LSNs : l \in Nat
  BY DEF Open, LSNs
<1>2. D \in SUBSET (1 .. MaxLSN)
  BY DEF LSNs
<1>3. LastOnDisk = Newest(D) /\ LastOnDisk \in Nat
  BY <1>2, NewestType, BoundsAssumption DEF LastOnDisk
<1>4. ASSUME D # {} PROVE LastOnDisk \in D /\ \A l \in D : l <= LastOnDisk
  BY <1>2, <1>3, <1>4, NewestIsGreatest, BoundsAssumption
<1>5. RecoveredLSN = IF LastOnDisk > diskMeta.lsn THEN LastOnDisk ELSE diskMeta.lsn
  BY DEF RecoveredLSN
<1>6. ASSUME NEW l \in LSNs, l <= RecoveredLSN, wal[l] = NoRecord PROVE l <= diskMeta.lsn
  <2>1. CASE LastOnDisk > diskMeta.lsn
    <3>1. D # {}
      BY <1>3, <2>1, WatermarkTypes DEF Newest
    <3>2. LastOnDisk \in LSNs /\ wal[LastOnDisk] # NoRecord
      BY <1>4, <3>1
    <3>3. QED
      BY <1>5, <1>6, <2>1, <3>2 DEF JournalInv
  <2>2. CASE ~(LastOnDisk > diskMeta.lsn)
    BY <1>5, <1>6, <2>2
  <2>3. QED
    BY <2>1, <2>2
<1>7. ASSUME NEW l \in LSNs, RecoveredLSN < l PROVE wal[l] = NoRecord
  <2>1. SUFFICES ASSUME l \in D PROVE FALSE
    OBVIOUS
  <2>2. l <= LastOnDisk /\ LastOnDisk <= RecoveredLSN
    BY <1>3, <1>4, <1>5, <2>1, WatermarkTypes
  <2>3. RecoveredLSN \in Nat
    BY <1>3, <1>5, WatermarkTypes
  <2>4. QED
    BY <1>1, <1>3, <1>7, <2>2, <2>3
<1>8. QED
  BY <1>1, <1>6, <1>7 DEF JournalInv, JournalCoversCheckpoint

\* Every step keeps the journal invariant.
LEMMA NextJournal ==
  ASSUME MaxCompacts = 0, ~Checkpoints, FlushOnlyInv, Next
  PROVE  JournalInv'
<1> USE DEF FlushOnlyInv
<1>1. CASE Write
  <2>1. ASSUME NEW k \in Keys, UpsertAppend(k) \/ DeleteAppend(k) PROVE JournalInv'
    <3>1. phase # "down"
      BY <2>1 DEF UpsertAppend, DeleteAppend, WatermarkInv, DownIsEmpty
    <3>2. PICK r : r # NoRecord /\ wal' = [wal EXCEPT ![jlsn + 1] = r]
      BY <2>1 DEF UpsertAppend, DeleteAppend, NoRecord
    <3>3. jlsn < MaxLSN /\ jlsn' = jlsn + 1 /\ UNCHANGED <<phase, diskMeta>>
      BY <2>1 DEF UpsertAppend, DeleteAppend, LSNLeft
    <3>4. QED
      BY <3>1, <3>2, <3>3, AppendJournal
  <2>2. ASSUME UpsertApply \/ DeleteApply \/ \E k \in Keys : DeleteCheck(k) PROVE JournalInv'
    BY <2>2 DEF UpsertApply, DeleteApply, DeleteCheck, JournalInv, JournalCoversCheckpoint
  <2>3. QED
    BY <1>1, <2>1, <2>2 DEF Write
<1>2. CASE ApplyPressure \/ FlushCall \/ CheckpointWAL
  BY <1>2 DEF ApplyPressure, FlushCall, CheckpointWAL, JournalInv, JournalCoversCheckpoint
<1>3. CASE FlushWorker
  <2>1. CASE FlushCheckpoint
    BY <2>1, TruncateJournal DEF FlushCheckpoint, TableLSN, FlushProgress
  <2>2. CASE FlushPersistMeta
    <3>1. diskMeta.lsn <= diskMeta'.lsn
      BY DiskMetaForward
    <3>2. diskMeta'.lsn \in Nat
      BY <2>2, WatermarkTypes DEF FlushPersistMeta
    <3>3. QED
      BY <2>2, <3>1, <3>2, MetaJournal DEF FlushPersistMeta
  <2>3. CASE ~FlushCheckpoint /\ ~FlushPersistMeta
    <3>1. UNCHANGED <<phase, jlsn, wal, diskMeta>>
      BY <1>3, <2>3 DEF FlushWorker, FlushPop, FlushWriteChunk, FlushIndex, FlushNothingLive,
         FlushImageIndex, FlushPersistIndex, FlushImageMeta, FlushDone, FlushWriteFails,
         FlushPersistFails
    <3>2. QED
      BY <3>1 DEF JournalInv, JournalCoversCheckpoint
  <2>4. QED
    BY <2>1, <2>2, <2>3
<1>4. CASE Scan
  BY <1>4 DEF Scan, ScanStart, ScanSnapshot, ScanEnd, JournalInv, JournalCoversCheckpoint
<1>5. CASE Lifecycle
  <2>1. CASE CloseBegin \/ CloseFreeze
    <3>1. UNCHANGED <<jlsn, wal, diskMeta>> /\ phase # "down"
      BY <2>1 DEF CloseBegin, CloseFreeze
    <3>2. QED
      BY <3>1 DEF JournalInv, JournalCoversCheckpoint
  <2>2. CASE CloseDone \/ Crash
    <3>1. UNCHANGED <<wal, diskMeta>> /\ phase' = "down" /\ jlsn' = 0
      BY <2>2 DEF CloseDone, Crash, MemoryLost
    <3>2. \A l \in LSNs : ~(l <= 0)
      BY DEF LSNs
    <3>3. QED
      BY <3>1, <3>2 DEF JournalInv, JournalCoversCheckpoint
  <2>3. CASE Open
    BY <2>3, OpenJournal
  <2>4. QED
    BY <1>5, <2>1, <2>2, <2>3 DEF Lifecycle
<1>6. QED
  BY <1>1, <1>2, <1>3, <1>4, <1>5, NoMaintenance DEF Next

-----------------------------------------------------------------------------
\* The two invariants hold initially.
LEMMA InitFlushOnly == Init => FlushProgress /\ JournalInv
<1> SUFFICES ASSUME Init PROVE FlushProgress /\ JournalInv
  OBVIOUS
<1>1. \A l \in LSNs : wal[l] = NoRecord /\ ~(l <= 0)
  BY DEF Init, LSNs
<1>2. QED
  BY <1>1 DEF Init, FlushProgress, JournalInv, JournalCoversCheckpoint

\* A step that changes nothing keeps them.
LEMMA StutterFlushOnly ==
  ASSUME FlushProgress, JournalInv, UNCHANGED vars
  PROVE  FlushProgress' /\ JournalInv'
  BY DEF vars, FlushProgress, JournalInv, JournalCoversCheckpoint

\* FlushProgress always holds on a store without maintenance calls.
THEOREM FlushProgressHolds == ASSUME MaxCompacts = 0 PROVE Spec => []FlushProgress
<1>1. Init => FlushProgress
  BY InitFlushOnly
<1>2. TypeInv /\ WatermarkInv /\ FlushProgress /\ [Next]_vars => FlushProgress'
  <2>1. ASSUME UNCHANGED vars, FlushProgress PROVE FlushProgress'
    BY <2>1 DEF vars, FlushProgress
  <2>2. QED
    BY <2>1, NextProgress
<1>3. QED
  BY <1>1, <1>2, TypeInvHolds, WatermarkInvHolds, PTL DEF Spec

\* Without Compact, the checkpoint recorded in store.meta never moves back:
\* neither a failed and retried flush nor a restart writes an older one.
THEOREM MetaMovesForward ==
  ASSUME MaxCompacts = 0
  PROVE  Spec => DurableCheckpointMonotone
<1>1. TypeInv /\ WatermarkInv /\ FlushProgress /\ [Next]_vars
        => [diskMeta.lsn <= diskMeta'.lsn]_vars
  BY DiskMetaForward
<1>2. QED
  BY <1>1, TypeInvHolds, WatermarkInvHolds, FlushProgressHolds, PTL
     DEF Spec, DurableCheckpointMonotone

\* Without Compact, RebuildIndex and CheckpointWAL, the journal never loses a
\* record that the durable checkpoint does not cover: flushTable truncates only
\* after store.meta carries the table's watermark, whatever fails, crashes or is
\* retried, so what replay needs is on disk whenever the process dies.
THEOREM JournalAlwaysCovers ==
  ASSUME MaxCompacts = 0, ~Checkpoints
  PROVE  Spec => []JournalCoversCheckpoint
<1>1. Init => JournalInv
  BY InitFlushOnly
<1>2. TypeInv /\ WatermarkInv /\ FlushProgress /\ JournalInv /\ [Next]_vars => JournalInv'
  BY NextJournal, StutterFlushOnly DEF FlushOnlyInv
<1>3. Spec => []JournalInv
  BY <1>1, <1>2, TypeInvHolds, WatermarkInvHolds, FlushProgressHolds, PTL DEF Spec
<1>4. JournalInv => JournalCoversCheckpoint
  BY DEF JournalInv
<1>5. QED
  BY <1>3, <1>4, PTL

=============================================================================
