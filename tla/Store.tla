------------------------------- MODULE Store -------------------------------
(***************************************************************************)
(* The record store of engine/store: memtable levels, the background flush *)
(* worker, compaction, scans, the maintenance entry points, Close, a crash *)
(* at any point, and the recovery that Open performs.                      *)
(*                                                                         *)
(* A value is identified with the LSN of the journal record that wrote it, *)
(* so two writes never look alike.  A memtable entry is Absent, Tombstone  *)
(* or such an LSN.  A location is a chunk sequence number: a chunk holds a *)
(* key at most once, so the byte offset adds nothing.  The write-ahead log *)
(* appears here as the set of records still on disk; module Journal models *)
(* its segments.  Every lock region of the code is one step, every file    *)
(* write that replaces a file by rename is one step, and the code between  *)
(* two such points is not observable by anybody else.                      *)
(***************************************************************************)
EXTENDS Integers, Sequences, FiniteSets

CONSTANTS
  Keys,            \* record fingerprints
  MaxLSN,          \* bound: journal records ever appended
  MaxSeq,          \* bound: chunk sequence numbers ever allocated
  MaxCrashes,      \* bound: process deaths
  MaxFaults,       \* bound: failing writes met by the flush worker
  MaxFreezes,      \* bound: freezes asked for by pressure or Flush callers
  MaxCompacts,     \* bound: Compact / RebuildIndex calls
  MaxScans,        \* bound: Iterate calls
  Deletes,         \* whether clients call Delete
  Checkpoints,     \* whether the cleanup coordinator calls CheckpointWAL
  Closes,          \* whether the owner calls Close
  ShutdownFaults,  \* whether a flush may also fail after Close was called
  MemtableRecords  \* adaptiveLimits.memtableRecords

ASSUME KeysAssumption == IsFiniteSet(Keys)
ASSUME BoundsAssumption ==
  /\ MaxLSN \in Nat /\ MaxSeq \in Nat /\ MaxCrashes \in Nat /\ MaxFaults \in Nat
  /\ MaxFreezes \in Nat /\ MaxCompacts \in Nat /\ MaxScans \in Nat
  /\ Deletes \in BOOLEAN /\ Checkpoints \in BOOLEAN
  /\ Closes \in BOOLEAN /\ ShutdownFaults \in BOOLEAN
  /\ MemtableRecords \in Nat \ {0}

VARIABLES
  (* process memory *)
  phase,          \* closed / stopping flags of Store: open, closing, draining, down
  active,         \* Store.active
  frozen,         \* Store.frozen, oldest first
  flushing,       \* Store.flushing, NoTable for nil
  index,          \* Store.index: chunk of each key, 0 when missing
  known,          \* domain of Store.chunksMap
  live,           \* chunkMeta.Live of the registered chunks
  nextSeq,        \* Store.nextSeq
  lsn,            \* Store.lsn, last LSN applied by an upsert
  checkpointLSN,  \* Store.checkpointLSN
  jlsn,           \* journal.lsn, last LSN assigned
  writer,         \* the record appended under writeMu and not yet applied
  deleting,       \* keys whose Delete call is past its liveness check
  flushPC,        \* position of the flush worker in flushOne / flushTable
  flushSeq,       \* chunk being flushed
  flushImg,       \* bytes the worker is about to rename into place
  flushErr,       \* Store.flushErr is set
  compactPC,      \* position in Compact / RebuildIndex (compactMu holder)
  victims,        \* chunks being compacted away
  refs,           \* compactGroup's snapshot: victim chunk of each live key
  compactSeq,     \* replacement chunk
  compactImg,     \* bytes the compaction is about to rename into place
  scan,           \* one Iterate call: off, started, or its snapshot of locations
  (* disk *)
  chunk,          \* chunk files: value of each key, 0 when missing
  diskIndex,      \* index.bin
  diskMeta,       \* store.meta
  wal,            \* journal records on disk, by LSN
  (* counters of the bounds, and the observer *)
  budget,         \* crashes, faults, freezes, compactions and scans used so far, and
                  \* the rebuilds that met a stale copy
  want            \* last upsert journaled for each key, 0 after a delete

memVars == <<active, frozen, flushing, index, known, live, nextSeq, lsn,
             checkpointLSN, jlsn>>
flushVars == <<flushPC, flushSeq, flushImg, flushErr>>
compactVars == <<compactPC, victims, refs, compactSeq, compactImg>>
diskVars == <<chunk, diskIndex, diskMeta, wal>>
vars == <<phase, memVars, writer, deleting, flushVars, compactVars, scan,
          diskVars, budget, want>>

-----------------------------------------------------------------------------
LSNs == 1 .. MaxLSN
Seqs == 1 .. MaxSeq
Absent == -1
Tombstone == 0
Values == 0 .. MaxLSN
Entries == Values \cup {Absent}

NoEntries == [k \in Keys |-> Absent]
NoRecords == [k \in Keys |-> 0]
NoTable == [entries |-> NoEntries, lsn |-> 0]
NoRecord == [key |-> 0, op |-> "none"]
NoWriter == [key |-> 0, op |-> "none", lsn |-> 0]
NoMeta == [ok |-> FALSE, known |-> {}, live |-> [s \in Seqs |-> 0],
           nextSeq |-> 0, lsn |-> 0]
NoIndex == [ok |-> FALSE, at |-> NoRecords]
NoScan == [on |-> FALSE, taken |-> FALSE, at |-> NoRecords]

Tables == [entries : [Keys -> Entries], lsn : Values]
Locations == [Keys -> 0 .. MaxSeq]
MetaImages == [ok : BOOLEAN, known : SUBSET Seqs, live : [Seqs -> Nat],
               nextSeq : 0 .. MaxSeq + 1, lsn : Values]
IndexImages == [ok : BOOLEAN, at : Locations]
Images == [index : IndexImages, meta : MetaImages]
NoImage == [index |-> NoIndex, meta |-> NoMeta]
Ops == {"upsert", "delete"}
Budgets == [crashes : Nat, faults : Nat, freezes : Nat, compacts : Nat, scans : Nat,
            stale : Nat]

FlushPCs == {"idle", "popped", "written", "indexed", "indexImage", "indexed2",
             "metaImage", "persisted", "done"}
CompactPCs == {"idle", "flush", "victims", "read", "write", "written", "swapped",
               "retired", "remove", "removed", "indexImage", "indexed", "metaImage",
               "rebuildFlush", "rebuild", "rebuilt", "rebuiltImage"}

Spend(what) == budget' = [budget EXCEPT ![what] = @ + 1]

-----------------------------------------------------------------------------
(* Reading the levels.                                                     *)

\* lookupLevels: active, then frozen from newest to oldest, then flushing.
\* One definition of "newest level that holds the key", over the levels
\* ordered from oldest to newest.
Levels == <<flushing.entries>> \o [i \in 1 .. Len(frozen) |-> frozen[i].entries]
            \o <<active>>
Holding(k) == {i \in DOMAIN Levels : Levels[i][k] # Absent}
InLevels(k) == Holding(k) # {}
LookupLevels(k) ==
  IF InLevels(k)
  THEN Levels[CHOOSE i \in Holding(k) : \A j \in Holding(k) : j <= i][k]
  ELSE Absent

\* get: the levels shadow the index; 0 is ErrNotFound.
Get(k) ==
  IF InLevels(k) THEN LookupLevels(k)
  ELSE IF index[k] # 0 THEN chunk[index[k]][k] ELSE 0

\* isLive, the check of Has and Delete.
IsLive(k) == IF InLevels(k) THEN LookupLevels(k) # Tombstone ELSE index[k] # 0

Size(entries) == Cardinality({k \in Keys : entries[k] # Absent})
PendingTables == Len(frozen) + (IF flushPC = "idle" THEN 0 ELSE 1)
Exists(s) == chunk[s] # NoRecords
Records(recs) == Cardinality({k \in Keys : recs[k] # 0})

-----------------------------------------------------------------------------
(* Writers.                                                                *)

\* Mutant of OneLess: the counter has no floor.
OneLessNoFloor(lv, k) ==
  [s \in Seqs |-> IF s = index[k] /\ s \in known THEN lv[s] - 1 ELSE lv[s]]

\* The live counter of the chunk that holds k's indexed record drops by one,
\* if that chunk is registered and the counter is positive.
OneLess(lv, k) ==
  [s \in Seqs |-> IF s = index[k] /\ s \in known /\ lv[s] > 0 THEN lv[s] - 1 ELSE lv[s]]

\* freezeLocked, given the active table and the lsn of the moment.
FreezeTables(entries, at) ==
  IF entries = NoEntries THEN frozen
  ELSE Append(frozen, [entries |-> entries, lsn |-> at])

\* Bound: every Delete under way keeps one LSN for itself.
LSNLeft == jlsn < MaxLSN /\ jlsn + Cardinality(deleting) < MaxLSN

\* UpsertBatch up to wal.Append: writeMu is taken, the record is durable.
UpsertAppend(k) ==
  /\ phase = "open"
  /\ writer = NoWriter
  /\ LSNLeft
  /\ jlsn' = jlsn + 1
  /\ wal' = [wal EXCEPT ![jlsn + 1] = [key |-> k, op |-> "upsert"]]
  /\ writer' = [key |-> k, op |-> "upsert", lsn |-> jlsn + 1]
  /\ want' = [want EXCEPT ![k] = jlsn + 1]
  /\ UNCHANGED <<phase, active, frozen, flushing, index, known, live, nextSeq, lsn,
                 checkpointLSN, deleting, flushVars, compactVars, scan, chunk,
                 diskIndex, diskMeta, budget>>

\* writeRecords under s.mu: applyUpsert, the lsn watermark, and the freeze when
\* the table reached its record limit.  An upsert of a key that is in no level
\* marks its indexed record dead.
UpsertApply ==
  /\ writer.op = "upsert"
  /\ LET k == writer.key
         entries == [active EXCEPT ![k] = writer.lsn]
         mark == IF writer.lsn > lsn THEN writer.lsn ELSE lsn
         full == Size(entries) >= MemtableRecords
     IN /\ live' = IF InLevels(k) THEN live ELSE OneLess(live, k)
        /\ lsn' = mark
        /\ active' = IF full THEN NoEntries ELSE entries
        /\ frozen' = IF full THEN FreezeTables(entries, mark) ELSE frozen
  /\ writer' = NoWriter
  /\ UNCHANGED <<phase, flushing, index, known, nextSeq, checkpointLSN, jlsn, deleting,
                 flushVars, compactVars, scan, diskVars, budget, want>>

\* Delete up to its liveness check: a key that is not live returns at once.
DeleteCheck(k) ==
  /\ Deletes
  /\ phase = "open"
  /\ k \notin deleting
  /\ LSNLeft
  /\ IsLive(k)
  /\ deleting' = deleting \cup {k}
  /\ UNCHANGED <<phase, memVars, writer, flushVars, compactVars, scan, diskVars,
                 budget, want>>

\* Delete under writeMu up to wal.Append.
DeleteAppend(k) ==
  /\ k \in deleting
  /\ writer = NoWriter
  /\ jlsn < MaxLSN
  /\ jlsn' = jlsn + 1
  /\ wal' = [wal EXCEPT ![jlsn + 1] = [key |-> k, op |-> "delete"]]
  /\ writer' = [key |-> k, op |-> "delete", lsn |-> jlsn + 1]
  /\ deleting' = deleting \ {k}
  /\ want' = [want EXCEPT ![k] = 0]
  /\ UNCHANGED <<phase, active, frozen, flushing, index, known, live, nextSeq, lsn,
                 checkpointLSN, flushVars, compactVars, scan, chunk, diskIndex,
                 diskMeta, budget>>

\* applyDelete: the index entry goes, its record dies, and a tombstone shadows
\* the older levels.  The lsn watermark is not advanced.
DeleteApply ==
  /\ writer.op = "delete"
  /\ LET k == writer.key
         present == InLevels(k) \/ index[k] # 0
     IN /\ live' = OneLess(live, k)
        /\ index' = [index EXCEPT ![k] = 0]
        /\ active' = IF present THEN [active EXCEPT ![k] = Tombstone] ELSE active
  /\ writer' = NoWriter
  /\ UNCHANGED <<phase, frozen, flushing, known, nextSeq, lsn, checkpointLSN, jlsn,
                 deleting, flushVars, compactVars, scan, diskVars, budget, want>>

\* freezeLocked as one step of its own.
Freeze ==
  /\ active # NoEntries
  /\ frozen' = FreezeTables(active, lsn)
  /\ active' = NoEntries

\* ApplyPressure at High or Critical: freezes under s.mu alone, so it may run
\* between a writer's append and its apply.
ApplyPressure ==
  /\ phase # "down"
  /\ budget.freezes < MaxFreezes
  /\ Freeze
  /\ Spend("freezes")
  /\ UNCHANGED <<phase, flushing, index, known, live, nextSeq, lsn, checkpointLSN, jlsn,
                 writer, deleting, flushVars, compactVars, scan, diskVars, want>>

\* Flush (and ForceFreeze): freezes with writeMu held; waiting for the worker
\* changes nothing.
FlushCall ==
  /\ phase = "open"
  /\ writer = NoWriter
  /\ budget.freezes < MaxFreezes
  /\ Freeze
  /\ Spend("freezes")
  /\ UNCHANGED <<phase, flushing, index, known, live, nextSeq, lsn, checkpointLSN, jlsn,
                 writer, deleting, flushVars, compactVars, scan, diskVars, want>>

-----------------------------------------------------------------------------
(* The flush worker: flushOne, drainForShutdown and flushTable.            *)

MetaNow == [ok |-> TRUE, known |-> known, live |-> live, nextSeq |-> nextSeq,
            lsn |-> checkpointLSN]
IndexNow == [ok |-> TRUE, at |-> index]
Flushed == [k \in Keys |-> IF flushing.entries[k] > 0 THEN flushing.entries[k] ELSE 0]
\* Mutant of TableLSN: the store's current lsn instead of the table's.
StoreLSN == lsn
\* Mutant of Truncate: off by one.
TruncateOneMore(at) == [l \in LSNs |-> IF l <= at + 1 THEN NoRecord ELSE wal[l]]
\* The watermark a flush of this table may move to.
TableLSN == flushing.lsn
\* wal.Checkpoint(at): at worst every record up to it is gone.
Truncate(at) == [l \in LSNs |-> IF l <= at THEN NoRecord ELSE wal[l]]

\* The oldest frozen table becomes the flushing one.
FlushPop ==
  /\ phase # "down"
  /\ flushPC = "idle"
  /\ frozen # <<>>
  /\ flushing' = Head(frozen)
  /\ frozen' = Tail(frozen)
  /\ flushPC' = "popped"
  /\ UNCHANGED <<phase, active, index, known, live, nextSeq, lsn, checkpointLSN, jlsn,
                 writer, deleting, flushSeq, flushErr, flushImg, compactVars, scan, diskVars,
                 budget, want>>

\* nextSequence and WriteChunk (temp file, fsync, rename), tombstones dropped.
FlushWriteChunk ==
  /\ flushPC = "popped"
  /\ Flushed # NoRecords
  /\ nextSeq < MaxSeq
  /\ nextSeq' = nextSeq + 1
  /\ flushSeq' = nextSeq + 1
  /\ chunk' = [chunk EXCEPT ![nextSeq + 1] = Flushed]
  /\ flushPC' = "written"
  /\ UNCHANGED <<phase, active, frozen, flushing, index, known, live, lsn, checkpointLSN,
                 jlsn, writer, deleting, flushImg, flushErr, compactVars, scan, diskIndex,
                 diskMeta, wal, budget, want>>

\* Under s.mu: register the chunk, point the index at it, move the watermark.
FlushIndex ==
  /\ flushPC = "written"
  /\ known' = known \cup {flushSeq}
  /\ live' = [live EXCEPT ![flushSeq] = Records(chunk[flushSeq])]
  /\ index' = [k \in Keys |-> IF chunk[flushSeq][k] # 0 THEN flushSeq ELSE index[k]]
  /\ checkpointLSN' = TableLSN
  /\ flushPC' = "indexed"
  /\ UNCHANGED <<phase, active, frozen, flushing, nextSeq, lsn, jlsn, writer, deleting,
                 flushSeq, flushErr, flushImg, compactVars, scan, diskVars, budget, want>>

\* A table of tombstones only: just the watermark moves, index.bin stays.
FlushNothingLive ==
  /\ flushPC = "popped"
  /\ Flushed = NoRecords
  /\ checkpointLSN' = TableLSN
  /\ flushPC' = "indexed2"
  /\ UNCHANGED <<phase, active, frozen, flushing, index, known, live, nextSeq, lsn, jlsn,
                 writer, deleting, flushSeq, flushErr, flushImg, compactVars, scan, diskVars,
                 budget, want>>

\* persistIndex: the bytes are built under the read lock ...
FlushImageIndex ==
  /\ flushPC = "indexed"
  /\ flushImg' = [flushImg EXCEPT !.index = IndexNow]
  /\ flushPC' = "indexImage"
  /\ UNCHANGED <<phase, memVars, writer, deleting, flushSeq, flushErr, compactVars, scan, diskVars,
                 budget, want>>

\* ... and replace index.bin after it is released.
FlushPersistIndex ==
  /\ flushPC = "indexImage"
  /\ diskIndex' = flushImg.index
  /\ flushImg' = NoImage
  /\ flushPC' = "indexed2"
  /\ UNCHANGED <<phase, memVars, writer, deleting, flushSeq, flushErr, compactVars, scan, chunk,
                 diskMeta, wal, budget, want>>

\* persistMeta, the same way.
FlushImageMeta ==
  /\ flushPC = "indexed2"
  /\ flushImg' = [flushImg EXCEPT !.meta = MetaNow]
  /\ flushPC' = "metaImage"
  /\ UNCHANGED <<phase, memVars, writer, deleting, flushSeq, flushErr, compactVars, scan, diskVars,
                 budget, want>>

FlushPersistMeta ==
  /\ flushPC = "metaImage"
  /\ diskMeta' = flushImg.meta
  /\ flushImg' = NoImage
  /\ flushPC' = "persisted"
  /\ UNCHANGED <<phase, memVars, writer, deleting, flushSeq, flushErr, compactVars, scan, chunk,
                 diskIndex, wal, budget, want>>

\* wal.Checkpoint, after store.meta is durable.
FlushCheckpoint ==
  /\ flushPC = "persisted"
  /\ wal' = Truncate(TableLSN)
  /\ flushPC' = "done"
  /\ UNCHANGED <<phase, memVars, writer, deleting, flushSeq, flushErr, flushImg, compactVars, scan,
                 chunk, diskIndex, diskMeta, budget, want>>

\* flushOne after a flush that succeeded.
FlushDone ==
  /\ flushPC = "done"
  /\ flushing' = NoTable
  /\ flushSeq' = 0
  /\ flushPC' = "idle"
  /\ flushErr' = FALSE
  /\ UNCHANGED <<phase, active, frozen, index, known, live, nextSeq, lsn, checkpointLSN,
                 jlsn, writer, deleting, flushImg, compactVars, scan, diskVars, budget,
                 want>>

\* Mutant of Requeued: the failed table goes to the back of the queue.
RequeuedLast == Append(frozen, flushing)

\* flushOne after an error: the table is requeued at the head, or dropped when
\* the store is stopping.
Requeued == <<flushing>> \o frozen
FlushFailed ==
  /\ budget.faults < MaxFaults
  /\ phase = "open" \/ ShutdownFaults
  /\ frozen' = IF phase = "open" THEN Requeued ELSE frozen
  /\ flushing' = NoTable
  /\ flushSeq' = 0
  /\ flushImg' = NoImage
  /\ flushPC' = "idle"
  /\ flushErr' = TRUE
  /\ Spend("faults")

\* WriteChunk fails: nothing is on disk, the sequence number is used up.
FlushWriteFails ==
  /\ flushPC = "popped"
  /\ Flushed # NoRecords
  /\ nextSeq < MaxSeq
  /\ nextSeq' = nextSeq + 1
  /\ FlushFailed
  /\ UNCHANGED <<phase, active, index, known, live, lsn, checkpointLSN, jlsn, writer,
                 deleting, compactVars, scan, diskVars, want>>

\* persistIndex, persistMeta or wal.Checkpoint fails after the chunk is in place.
FlushPersistFails ==
  /\ flushPC \in {"indexImage", "metaImage", "persisted"}
  /\ FlushFailed
  /\ UNCHANGED <<phase, active, index, known, live, nextSeq, lsn, checkpointLSN, jlsn,
                 writer, deleting, compactVars, scan, diskVars, want>>

\* CheckpointWAL: truncates the journal to the watermark held in memory.
CheckpointWAL ==
  /\ Checkpoints
  /\ phase = "open"
  /\ wal # Truncate(checkpointLSN)
  /\ wal' = Truncate(checkpointLSN)
  /\ UNCHANGED <<phase, memVars, writer, deleting, flushVars, compactVars, scan, chunk,
                 diskIndex, diskMeta, budget, want>>

-----------------------------------------------------------------------------
(* Compaction and RebuildIndex: compactMu serialises them; the flush       *)
(* worker, the writers and the scans keep running.                         *)

\* compactMu taken; the Flush both begin with freezes the active table.
MaintenanceStart(next) ==
  /\ phase = "open"
  /\ compactPC = "idle"
  /\ budget.compacts < MaxCompacts
  /\ writer = NoWriter
  /\ frozen' = FreezeTables(active, lsn)
  /\ active' = NoEntries
  /\ compactPC' = next
  /\ Spend("compacts")
  /\ UNCHANGED <<phase, flushing, index, known, live, nextSeq, lsn, checkpointLSN, jlsn,
                 writer, deleting, flushVars, victims, refs, compactSeq, compactImg, scan,
                 diskVars, want>>

CompactStart == MaintenanceStart("flush")
RebuildIndexStart == MaintenanceStart("rebuildFlush")

\* That Flush returns once the queue is empty, or early with the sticky error
\* when the store is stopping; after an error the call gives up.
CompactFlushed ==
  /\ compactPC \in {"flush", "rebuildFlush"}
  /\ PendingTables = 0 \/ (flushErr /\ phase # "open")
  /\ compactPC' = IF flushErr THEN "idle"
                  ELSE IF compactPC = "flush" THEN "victims" ELSE "rebuild"
  /\ UNCHANGED <<phase, memVars, writer, deleting, flushVars, victims, refs, compactSeq,
                 compactImg, scan, diskVars, budget, want>>

\* Chunks with no record, or with more than half of their records dead.
Garbage == {s \in known : Records(chunk[s]) = 0
                            \/ 2 * (Records(chunk[s]) - live[s]) > Records(chunk[s])}

\* Compact selects the victims; without any it returns.
CompactVictims ==
  /\ compactPC = "victims"
  /\ victims' = Garbage
  /\ compactPC' = IF Garbage = {} THEN "idle" ELSE "read"
  /\ UNCHANGED <<phase, memVars, writer, deleting, flushVars, refs, compactSeq,
                 compactImg, scan, diskVars, budget, want>>

\* compactGroup phase A under the read lock: which keys live in the victims.
CompactSnapshot ==
  /\ compactPC = "read"
  /\ refs' = [k \in Keys |-> IF index[k] \in victims THEN index[k] ELSE 0]
  /\ compactPC' = IF \E k \in Keys : index[k] \in victims THEN "write" ELSE "swapped"
  /\ UNCHANGED <<phase, memVars, writer, deleting, flushVars, victims, compactSeq,
                 compactImg, scan, diskVars, budget, want>>

\* Phase B: the surviving records, read from the immutable victim files.
CompactWrite ==
  /\ compactPC = "write"
  /\ nextSeq < MaxSeq
  /\ nextSeq' = nextSeq + 1
  /\ compactSeq' = nextSeq + 1
  /\ chunk' = [chunk EXCEPT ![nextSeq + 1] =
                 [k \in Keys |-> IF refs[k] # 0 THEN chunk[refs[k]][k] ELSE 0]]
  /\ compactPC' = "written"
  /\ UNCHANGED <<phase, active, frozen, flushing, index, known, live, lsn, checkpointLSN,
                 jlsn, writer, deleting, flushVars, victims, refs, compactImg, scan,
                 diskIndex, diskMeta, wal, budget, want>>

\* Mutant of Unmoved: the swap does not compare.
SnapshotKeys == {k \in Keys : refs[k] # 0}

\* Phase C: redirect the entries that still point where the snapshot saw them.
Unmoved == {k \in Keys : refs[k] # 0 /\ index[k] = refs[k]}
CompactSwap ==
  /\ compactPC = "written"
  /\ index' = [k \in Keys |-> IF k \in Unmoved THEN compactSeq ELSE index[k]]
  /\ live' = [live EXCEPT ![compactSeq] = Cardinality(Unmoved)]
  /\ known' = known \cup {compactSeq}
  /\ compactPC' = "swapped"
  /\ UNCHANGED <<phase, active, frozen, flushing, nextSeq, lsn, checkpointLSN, jlsn,
                 writer, deleting, flushVars, victims, refs, compactSeq, compactImg, scan,
                 diskVars, budget, want>>

\* retireVictims: out of the registry ...
CompactRetire ==
  /\ compactPC = "swapped"
  /\ known' = known \ victims
  /\ live' = [s \in Seqs |-> IF s \in victims THEN 0 ELSE live[s]]
  /\ compactPC' = "retired"
  /\ UNCHANGED <<phase, active, frozen, flushing, index, nextSeq, lsn, checkpointLSN,
                 jlsn, writer, deleting, flushVars, victims, refs, compactSeq, compactImg,
                 scan, diskVars, budget, want>>

\* Mutant of NoScanRuns: compaction does not wait for scans.
ScansIgnored == TRUE

\* ... scans.Wait, purge the handles ...
NoScanRuns == ~scan.on
CompactScansDrained ==
  /\ compactPC = "retired"
  /\ NoScanRuns
  /\ compactPC' = "remove"
  /\ UNCHANGED <<phase, memVars, writer, deleting, flushVars, victims, refs, compactSeq,
                 compactImg, scan, diskVars, budget, want>>

\* ... then os.Remove, one file after the other.
CompactRemove(s) ==
  /\ compactPC = "remove"
  /\ s \in victims
  /\ \A t \in victims : s <= t
  /\ chunk' = [chunk EXCEPT ![s] = NoRecords]
  /\ victims' = victims \ {s}
  /\ compactPC' = IF victims = {s} THEN "removed" ELSE "remove"
  /\ UNCHANGED <<phase, memVars, writer, deleting, flushVars, refs, compactSeq,
                 compactImg, scan, diskIndex, diskMeta, wal, budget, want>>

\* rebuildIndex over a registry: chunks in ascending order, the last one wins.
Newest(S) == IF S = {} THEN 0 ELSE CHOOSE s \in S : \A t \in S : t <= s
\* Mutant of RebuiltIndex: every chunk file counts, registered or not.
IndexOfAllFiles(registry) == [k \in Keys |-> Newest({s \in Seqs : chunk[s][k] # 0})]
RebuiltIndex(registry) == [k \in Keys |-> Newest({s \in registry : chunk[s][k] # 0})]

\* A chunk after the one that holds k's record holds an older copy of it: what
\* compactGroup wrote before a flush moved the key.
StaleCopy(k) == index[k] # 0 /\ \E s \in known : s > index[k] /\ chunk[s][k] # 0

\* RebuildIndex replaces the whole map under s.mu.
RebuildIndex ==
  /\ compactPC = "rebuild"
  /\ index' = RebuiltIndex(known)
  /\ compactPC' = "rebuilt"
  /\ IF \E k \in Keys : StaleCopy(k) THEN Spend("stale") ELSE UNCHANGED budget
  /\ UNCHANGED <<phase, active, frozen, flushing, known, live, nextSeq, lsn,
                 checkpointLSN, jlsn, writer, deleting, flushVars, victims, refs,
                 compactSeq, compactImg, scan, diskVars, want>>

\* The persistIndex that ends both calls: bytes under the read lock ...
CompactImageIndex ==
  /\ compactPC \in {"removed", "rebuilt"}
  /\ compactImg' = [compactImg EXCEPT !.index = IndexNow]
  /\ compactPC' = IF compactPC = "removed" THEN "indexImage" ELSE "rebuiltImage"
  /\ UNCHANGED <<phase, memVars, writer, deleting, flushVars, victims, refs, compactSeq,
                 scan, diskVars, budget, want>>

\* ... renamed into place without it.  RebuildIndex returns here.
CompactPersistIndex ==
  /\ compactPC \in {"indexImage", "rebuiltImage"}
  /\ diskIndex' = compactImg.index
  /\ compactImg' = NoImage
  /\ compactPC' = IF compactPC = "indexImage" THEN "indexed" ELSE "idle"
  /\ UNCHANGED <<phase, memVars, writer, deleting, flushVars, victims, refs, compactSeq,
                 scan, chunk, diskMeta, wal, budget, want>>

\* persistMeta, the same way, ends Compact.
CompactImageMeta ==
  /\ compactPC = "indexed"
  /\ compactImg' = [compactImg EXCEPT !.meta = MetaNow]
  /\ compactPC' = "metaImage"
  /\ UNCHANGED <<phase, memVars, writer, deleting, flushVars, victims, refs, compactSeq,
                 scan, diskVars, budget, want>>

CompactPersistMeta ==
  /\ compactPC = "metaImage"
  /\ diskMeta' = compactImg.meta
  /\ compactImg' = NoImage
  /\ refs' = NoRecords
  /\ compactSeq' = 0
  /\ compactPC' = "idle"
  /\ UNCHANGED <<phase, memVars, writer, deleting, flushVars, victims, scan, chunk,
                 diskIndex, wal, budget, want>>

-----------------------------------------------------------------------------
(* Iterate.                                                                *)

\* The order in which iterSnapshot overlays the levels on the index: the frozen
\* tables, the flushing one, the active one; the last that holds a key decides.
IterLevels == [i \in 1 .. Len(frozen) |-> frozen[i].entries] \o <<flushing.entries, active>>
IterHolding(k) == {i \in DOMAIN IterLevels : IterLevels[i][k] # Absent}
IterLookup(k) ==
  IF IterHolding(k) = {} THEN Absent
  ELSE IterLevels[CHOOSE i \in IterHolding(k) : \A j \in IterHolding(k) : j <= i][k]

\* beginOp and scans.Add.
ScanStart ==
  /\ phase = "open"
  /\ ~scan.on
  /\ budget.scans < MaxScans
  /\ scan' = [NoScan EXCEPT !.on = TRUE]
  /\ Spend("scans")
  /\ UNCHANGED <<phase, memVars, writer, deleting, flushVars, compactVars, diskVars, want>>

\* iterSnapshot: keys held by a level are answered from memory, the others are
\* read from their chunks later, without any lock.
ScanSnapshot ==
  /\ scan.on /\ ~scan.taken
  /\ scan' = [scan EXCEPT !.taken = TRUE,
                          !.at = [k \in Keys |-> IF InLevels(k) THEN 0 ELSE index[k]]]
  /\ UNCHANGED <<phase, memVars, writer, deleting, flushVars, compactVars, diskVars,
                 budget, want>>

\* The last record was delivered: scans.Done.
ScanEnd ==
  /\ scan.on /\ scan.taken
  /\ scan' = NoScan
  /\ UNCHANGED <<phase, memVars, writer, deleting, flushVars, compactVars, diskVars,
                 budget, want>>

-----------------------------------------------------------------------------
(* Close, crash, Open.                                                     *)

\* closed and stopping are set: no new operation is admitted.
CloseBegin ==
  /\ Closes
  /\ phase = "open"
  /\ phase' = "closing"
  /\ UNCHANGED <<memVars, writer, deleting, flushVars, compactVars, scan, diskVars,
                 budget, want>>

\* ops.Wait returned: freeze what is left and stop the worker.
CloseFreeze ==
  /\ phase = "closing"
  /\ writer = NoWriter /\ deleting = {} /\ compactPC = "idle" /\ ~scan.on
  /\ frozen' = FreezeTables(active, lsn)
  /\ active' = NoEntries
  /\ phase' = "draining"
  /\ UNCHANGED <<flushing, index, known, live, nextSeq, lsn, checkpointLSN, jlsn, writer,
                 deleting, flushVars, compactVars, scan, diskVars, budget, want>>

\* The memory of a process that is not running.
MemoryLost ==
  /\ phase' = "down"
  /\ active' = NoEntries /\ frozen' = <<>> /\ flushing' = NoTable
  /\ index' = NoRecords /\ known' = {} /\ live' = [s \in Seqs |-> 0]
  /\ nextSeq' = 0 /\ lsn' = 0 /\ checkpointLSN' = 0 /\ jlsn' = 0
  /\ writer' = NoWriter /\ deleting' = {}
  /\ flushPC' = "idle" /\ flushSeq' = 0 /\ flushImg' = NoImage /\ flushErr' = FALSE
  /\ compactPC' = "idle" /\ victims' = {} /\ refs' = NoRecords /\ compactSeq' = 0
  /\ compactImg' = NoImage
  /\ scan' = NoScan

\* flushWG.Wait returned: drainForShutdown left nothing.
CloseDone ==
  /\ phase = "draining"
  /\ flushPC = "idle" /\ frozen = <<>>
  /\ MemoryLost
  /\ UNCHANGED <<diskVars, budget, want>>

\* The process dies between any two steps.  Every file write is fsynced before
\* the step that follows it, so the disk keeps exactly what was written.
Crash ==
  /\ phase # "down"
  /\ budget.crashes < MaxCrashes
  /\ MemoryLost
  /\ Spend("crashes")
  /\ UNCHANGED <<diskVars, want>>

\* loadOrRecover: the registry of store.meta without the chunks that vanished,
\* or, with no readable store.meta, every chunk file there is.
RecoveredKnown ==
  IF diskMeta.ok THEN {s \in diskMeta.known : Exists(s)} ELSE {s \in Seqs : Exists(s)}
RecoveredLive(s) ==
  IF s \notin RecoveredKnown THEN 0
  ELSE IF diskMeta.ok THEN diskMeta.live[s] ELSE Records(chunk[s])
RecoveredNextSeq ==
  IF diskMeta.ok THEN diskMeta.nextSeq
  ELSE IF RecoveredKnown = {} THEN 0 ELSE Newest(RecoveredKnown) + 1
\* Mutant of RecoveredIndex: index.bin is trusted.
IndexUnchecked == IF diskIndex.ok THEN diskIndex.at ELSE RebuiltIndex(RecoveredKnown)
\* loadIndex and validateIndex; any doubt rebuilds the index from the chunks.
RecoveredIndex ==
  IF diskIndex.ok /\ \A k \in Keys : diskIndex.at[k] \in RecoveredKnown \cup {0}
  THEN diskIndex.at ELSE RebuiltIndex(RecoveredKnown)

\* openJournal continues after the last record on disk, and never below the
\* checkpoint; Open raises Store.lsn to the same value.
LastOnDisk == Newest({l \in LSNs : wal[l] # NoRecord})
\* Mutant of RecoveredLSN: an empty journal restarts at zero.
LSNOfJournal == LastOnDisk
RecoveredLSN == IF LastOnDisk > diskMeta.lsn THEN LastOnDisk ELSE diskMeta.lsn

\* The journal records of k that Open replays: those above the checkpoint.
Replayed(k) == {l \in LSNs : l > diskMeta.lsn /\ wal[l].key = k}
ReplayedUpserts(k) == {l \in Replayed(k) : wal[l].op = "upsert"}
ReplayedDeletes(k) == Replayed(k) \ ReplayedUpserts(k)
\* What applyUpsert and applyDelete leave in the active table after the replay.
ReplayedEntry(k) ==
  IF Replayed(k) = {} THEN Absent
  ELSE IF Newest(Replayed(k)) \in ReplayedUpserts(k) THEN Newest(Replayed(k))
  ELSE IF ReplayedUpserts(k) # {} \/ RecoveredIndex[k] # 0 THEN Tombstone
  ELSE Absent
\* Keys of chunk s whose first replayed record kills their indexed record, and
\* keys for which a delete after an upsert counts it dead a second time.
KilledOnce(s) == {k \in Keys : RecoveredIndex[k] = s /\ Replayed(k) # {}}
KilledTwice(s) ==
  {k \in KilledOnce(s) : \E u \in ReplayedUpserts(k), d \in ReplayedDeletes(k) :
                           \A l \in Replayed(k) : u <= l}
LessDead(n, dead) == IF dead > n THEN 0 ELSE n - dead

\* Open: recover the registry and the index, remove orphan chunks, replay the
\* journal, and continue its LSNs.
Open ==
  /\ phase = "down"
  /\ jlsn' = RecoveredLSN
  /\ lsn' = RecoveredLSN
  /\ phase' = "open"
  /\ known' = RecoveredKnown
  /\ chunk' = [s \in Seqs |-> IF s \in RecoveredKnown THEN chunk[s] ELSE NoRecords]
  /\ nextSeq' = RecoveredNextSeq
  /\ checkpointLSN' = diskMeta.lsn
  /\ active' = [k \in Keys |-> ReplayedEntry(k)]
  /\ index' = [k \in Keys |-> IF ReplayedDeletes(k) # {} THEN 0 ELSE RecoveredIndex[k]]
  /\ live' = [s \in Seqs |-> LessDead(RecoveredLive(s),
                Cardinality(KilledOnce(s)) + Cardinality(KilledTwice(s)))]
  /\ UNCHANGED <<frozen, flushing, writer, deleting, flushVars, compactVars, scan,
                 diskIndex, diskMeta, wal, budget, want>>

-----------------------------------------------------------------------------
Init ==
  /\ phase = "open"
  /\ active = NoEntries /\ frozen = <<>> /\ flushing = NoTable
  /\ index = NoRecords /\ known = {} /\ live = [s \in Seqs |-> 0]
  /\ nextSeq = 0 /\ lsn = 0 /\ checkpointLSN = 0 /\ jlsn = 0
  /\ writer = NoWriter /\ deleting = {}
  /\ flushPC = "idle" /\ flushSeq = 0 /\ flushImg = NoImage /\ flushErr = FALSE
  /\ compactPC = "idle" /\ victims = {} /\ refs = NoRecords /\ compactSeq = 0
  /\ compactImg = NoImage
  /\ scan = NoScan
  /\ chunk = [s \in Seqs |-> NoRecords]
  /\ diskIndex = NoIndex /\ diskMeta = NoMeta
  /\ wal = [l \in LSNs |-> NoRecord]
  /\ budget = [crashes |-> 0, faults |-> 0, freezes |-> 0, compacts |-> 0, scans |-> 0,
               stale |-> 0]
  /\ want = NoRecords

Write == UpsertApply \/ DeleteApply
           \/ \E k \in Keys : UpsertAppend(k) \/ DeleteCheck(k) \/ DeleteAppend(k)
FlushWorker ==
  \/ FlushPop \/ FlushWriteChunk \/ FlushIndex \/ FlushNothingLive
  \/ FlushImageIndex \/ FlushPersistIndex \/ FlushImageMeta \/ FlushPersistMeta
  \/ FlushCheckpoint \/ FlushDone \/ FlushWriteFails \/ FlushPersistFails
Maintenance ==
  \/ CompactStart \/ RebuildIndexStart \/ CompactFlushed
  \/ CompactVictims \/ CompactSnapshot \/ CompactWrite \/ CompactSwap \/ CompactRetire
  \/ CompactScansDrained \/ (\E s \in Seqs : CompactRemove(s)) \/ RebuildIndex
  \/ CompactImageIndex \/ CompactPersistIndex \/ CompactImageMeta \/ CompactPersistMeta
Scan == ScanStart \/ ScanSnapshot \/ ScanEnd
Lifecycle == CloseBegin \/ CloseFreeze \/ CloseDone \/ Crash \/ Open

Next ==
  \/ Write \/ ApplyPressure \/ FlushCall \/ CheckpointWAL
  \/ FlushWorker \/ Maintenance \/ Scan \/ Lifecycle

Spec == Init /\ [][Next]_vars

-----------------------------------------------------------------------------
(* Properties.                                                             *)

\* Type invariant.
TypeOK ==
  /\ phase \in {"open", "closing", "draining", "down"}
  /\ active \in [Keys -> Entries]
  /\ frozen \in Seq(Tables)
  /\ flushing \in Tables
  /\ index \in Locations
  /\ known \in SUBSET Seqs
  /\ live \in [Seqs -> Nat]
  /\ nextSeq \in 0 .. MaxSeq + 1
  /\ lsn \in Values /\ checkpointLSN \in Values /\ jlsn \in Values
  /\ writer \in [key : Keys, op : Ops, lsn : LSNs] \cup {NoWriter}
  /\ deleting \in SUBSET Keys
  /\ flushPC \in FlushPCs
  /\ flushSeq \in 0 .. MaxSeq
  /\ flushImg \in Images
  /\ flushErr \in BOOLEAN
  /\ compactPC \in CompactPCs
  /\ victims \in SUBSET Seqs
  /\ refs \in Locations
  /\ compactSeq \in 0 .. MaxSeq
  /\ compactImg \in Images
  /\ scan \in [on : BOOLEAN, taken : BOOLEAN, at : Locations]
  /\ chunk \in [Seqs -> [Keys -> Values]]
  /\ diskIndex \in IndexImages
  /\ diskMeta \in MetaImages
  /\ wal \in [LSNs -> [key : Keys, op : Ops] \cup {NoRecord}]
  /\ budget \in Budgets
  /\ want \in [Keys -> Values]

\* The store answers, and the writes it has accepted for k are all applied.
Settled(k) == phase = "open" /\ writer.key # k

\* A record whose last accepted operation is an upsert is found, with the value
\* of that upsert: in the levels while the worker moves it, in its chunk after
\* that, and again after a crash and Open.
LiveReadsLatest == \A k \in Keys : Settled(k) /\ want[k] # 0 => Get(k) = want[k]

\* The same beside Compact, RebuildIndex, Iterate and CheckpointWAL, until a
\* RebuildIndex meets a chunk with a stale copy and its rule, the last chunk
\* wins, makes that copy the live one.
CompactedReadsLatest == budget.stale = 0 => LiveReadsLatest

\* A record whose last accepted operation is a Delete stays not found.
DeletedStaysDeleted == \A k \in Keys : Settled(k) /\ want[k] = 0 => Get(k) = 0

\* Every index entry resolves: its chunk is registered, its file exists and
\* holds the key, whatever compaction is doing.
IndexResolves ==
  \A k \in Keys : index[k] # 0 => index[k] \in known /\ chunk[index[k]][k] # 0

\* A scan that takes its snapshot now delivers for every key what Get answers:
\* iterSnapshot means newer levels to overwrite older ones.
\* The code does otherwise: TLC refutes this property (README, section 6).
ScanSeesNewest == \A k \in Keys : IterLookup(k) = LookupLevels(k)

\* The locations a scan noted stay readable until the scan ends.
ScanLocationsSurvive ==
  \A k \in Keys : scan.at[k] # 0 => chunk[scan.at[k]][k] # 0

\* The journal never loses a record that the durable checkpoint does not cover.
JournalCoversCheckpoint ==
  \A l \in LSNs : l <= jlsn /\ wal[l] = NoRecord => l <= diskMeta.lsn

\* Watermarks follow the age of the tables: durable checkpoint, checkpoint,
\* flushing table, frozen tables in order, active table, journal.
WatermarksOrdered ==
  /\ phase # "down" => diskMeta.lsn <= checkpointLSN
  /\ flushPC # "idle" => checkpointLSN <= flushing.lsn
  /\ \A i \in DOMAIN frozen : checkpointLSN <= frozen[i].lsn /\ frozen[i].lsn <= lsn
                                /\ flushing.lsn <= frozen[i].lsn
  /\ \A i, j \in DOMAIN frozen : i <= j => frozen[i].lsn <= frozen[j].lsn
  /\ flushing.lsn <= lsn /\ lsn <= jlsn

\* A chunk file is removed only after store.meta stopped registering it: the
\* order that the comment on Compact gives (persist, then remove).
RegisteredFilesExist == \A s \in diskMeta.known : Exists(s)

\* store.meta never goes back to an older checkpoint.
DurableCheckpointMonotone == [][diskMeta.lsn <= diskMeta'.lsn]_vars

=============================================================================
