---------------------------- MODULE StoreProofs ----------------------------
(***************************************************************************)
(* Theorems about Store, for every value of its constants.                 *)
(***************************************************************************)
EXTENDS Store, FiniteSetTheorems, TLAPS

\* The positions of the flush worker and of the compaction at which their chunk
\* number is about to be used.
ChunkNumbersSet ==
  /\ flushPC = "written" => flushSeq \in Seqs
  /\ compactPC = "written" => compactSeq \in Seqs

TypeInv == TypeOK /\ ChunkNumbersSet

-----------------------------------------------------------------------------
(* The values and helper operators the actions are built from.             *)

\* The values that stand for "nothing" have the type of what they replace.
LEMMA EmptyTypes ==
  /\ NoEntries \in [Keys -> Entries]
  /\ NoTable \in Tables
  /\ NoRecords \in Locations
  /\ NoRecords \in [Keys -> Values]
  /\ NoMeta \in MetaImages
  /\ NoIndex \in IndexImages
  /\ NoImage \in Images
  /\ NoScan \in [on : BOOLEAN, taken : BOOLEAN, at : Locations]
  BY BoundsAssumption DEF NoEntries, NoTable, NoRecords, NoMeta, NoIndex, NoImage, NoScan,
     Entries, Values, Absent, Tables, Locations, MetaImages, IndexImages, Images, Seqs

\* A set of keys has a natural number of elements.
LEMMA KeyCount == ASSUME NEW S \in SUBSET Keys PROVE Cardinality(S) \in Nat
  BY KeysAssumption, FS_Subset, FS_CardinalityType

\* freezeLocked keeps the queue a sequence of tables.
LEMMA FreezeType ==
  ASSUME frozen \in Seq(Tables), NEW e \in [Keys -> Entries], NEW l \in Values
  PROVE  FreezeTables(e, l) \in Seq(Tables)
<1>1. [entries |-> e, lsn |-> l] \in Tables
  BY DEF Tables
<1>2. QED
  BY <1>1 DEF FreezeTables

\* A live counter that drops stays a natural number.
LEMMA OneLessType ==
  ASSUME live \in [Seqs -> Nat], NEW k
  PROVE  OneLess(live, k) \in [Seqs -> Nat]
  BY DEF OneLess

\* A non-empty set of numbers up to some bound has a greatest element, and that
\* is its Newest.
LEMMA NewestIsGreatest ==
  ASSUME NEW N \in Nat, NEW S \in SUBSET (1 .. N), S # {}
  PROVE  Newest(S) \in S /\ \A t \in S : t <= Newest(S)
<1> DEFINE T == {n \in Nat : \E s \in S : n = N - s}
<1>0. \A s \in S : s \in Nat /\ s <= N /\ N - s \in T
  OBVIOUS
<1>1. T \subseteq Nat /\ T # {}
  BY <1>0
<1>2. PICK x \in T : \A y \in T : ~ (<<y, x>> \in OpToRel(<, Nat))
  BY <1>1, WFMin, NatLessThanWellFounded
<1>3. ASSUME NEW y \in T PROVE x <= y
  <2>1. <<y, x>> \in Nat \X Nat /\ <<y, x>>[1] = y /\ <<y, x>>[2] = x
    OBVIOUS
  <2>2. ~ (y < x)
    BY <1>2, <2>1 DEF OpToRel
  <2>3. QED
    BY <2>2
<1>4. PICK s \in S : x = N - s
  OBVIOUS
<1>5. ASSUME NEW t \in S PROVE t <= s
  <2>1. x <= N - t
    BY <1>0, <1>3
  <2>2. QED
    BY <2>1, <1>0, <1>4
<1>6. QED
  BY <1>4, <1>5 DEF Newest

\* Newest of a possibly empty set: 0 or one of its elements.
LEMMA NewestType ==
  ASSUME NEW N \in Nat, NEW S \in SUBSET (1 .. N)
  PROVE  Newest(S) \in 0 .. N
<1>1. CASE S = {}
  BY <1>1 DEF Newest
<1>2. CASE S # {}
  <2>1. Newest(S) \in S
    BY <1>2, NewestIsGreatest
  <2>2. \A s \in S : s \in 0 .. N
    OBVIOUS
  <2>3. QED
    BY <2>1, <2>2
<1>3. QED
  BY <1>1, <1>2

-----------------------------------------------------------------------------
(* Every action keeps the types.                                           *)

USE DEF memVars, flushVars, compactVars, diskVars

\* The record between append and apply is one that a writer built.
LEMMA WriterType ==
  ASSUME TypeInv, writer # NoWriter
  PROVE  writer.key \in Keys /\ writer.lsn \in LSNs
<1>1. writer \in [key : Keys, op : Ops, lsn : LSNs]
  BY DEF TypeInv, TypeOK
<1>2. QED
  BY <1>1

\* The steps of UpsertBatch and Delete keep the types.
LEMMA WriteType == ASSUME TypeInv, Write PROVE TypeInv'
<1>1. ASSUME NEW k \in Keys, UpsertAppend(k) PROVE TypeInv'
  BY <1>1, BoundsAssumption DEF TypeInv, TypeOK, ChunkNumbersSet, UpsertAppend, LSNLeft,
     LSNs, Values, Ops
<1>2. ASSUME UpsertApply PROVE TypeInv'
  <2> DEFINE e == [active EXCEPT ![writer.key] = writer.lsn]
             m == IF writer.lsn > lsn THEN writer.lsn ELSE lsn
  <2>1. writer.key \in Keys /\ writer.lsn \in LSNs
    BY <1>2, WriterType DEF UpsertApply, NoWriter
  <2>2. e \in [Keys -> Entries] /\ m \in Values
    BY <2>1 DEF TypeInv, TypeOK, Entries, Values, LSNs
  <2>3. FreezeTables(e, m) \in Seq(Tables)
    BY <2>2, FreezeType DEF TypeInv, TypeOK
  <2>4. active' \in [Keys -> Entries] /\ frozen' \in Seq(Tables) /\ lsn' \in Values
    BY <1>2, <2>2, <2>3, EmptyTypes DEF UpsertApply, TypeInv, TypeOK
  <2>5. live' \in [Seqs -> Nat]
    BY <1>2, OneLessType DEF UpsertApply, TypeInv, TypeOK
  <2>6. QED
    BY <1>2, <2>4, <2>5 DEF TypeInv, TypeOK, ChunkNumbersSet, UpsertApply
<1>3. ASSUME NEW k \in Keys, DeleteCheck(k) PROVE TypeInv'
  BY <1>3 DEF TypeInv, TypeOK, ChunkNumbersSet, DeleteCheck
<1>4. ASSUME NEW k \in Keys, DeleteAppend(k) PROVE TypeInv'
  BY <1>4, BoundsAssumption DEF TypeInv, TypeOK, ChunkNumbersSet, DeleteAppend,
     LSNs, Values, Ops
<1>5. ASSUME DeleteApply PROVE TypeInv'
  <2>1. writer.key \in Keys
    BY <1>5, WriterType DEF DeleteApply, NoWriter
  <2>2. live' \in [Seqs -> Nat]
    BY <1>5, OneLessType DEF DeleteApply, TypeInv, TypeOK
  <2>3. active' \in [Keys -> Entries]
    BY <1>5, <2>1, BoundsAssumption DEF DeleteApply, TypeInv, TypeOK, Entries, Values, Tombstone
  <2>4. index' \in Locations
    BY <1>5, <2>1, BoundsAssumption DEF DeleteApply, TypeInv, TypeOK, Locations
  <2>5. QED
    BY <1>5, <2>2, <2>3, <2>4 DEF TypeInv, TypeOK, ChunkNumbersSet, DeleteApply
<1>6. QED
  BY <1>1, <1>2, <1>3, <1>4, <1>5 DEF Write

\* What a freeze does to the active table and the queue.
LEMMA FreezeStepType ==
  ASSUME TypeInv, frozen' = FreezeTables(active, lsn), active' = NoEntries
  PROVE  active' \in [Keys -> Entries] /\ frozen' \in Seq(Tables)
  BY FreezeType, EmptyTypes DEF TypeInv, TypeOK

\* One more unit of a bound is spent.
LEMMA SpendType ==
  ASSUME TypeInv, NEW what \in {"crashes", "faults", "freezes", "compacts", "scans",
                                   "stale"},
         Spend(what)
  PROVE  budget' \in Budgets
<1>1. budget \in Budgets
  BY DEF TypeInv, TypeOK
<1>2. QED
  BY <1>1 DEF Spend, Budgets

\* So do ApplyPressure, Flush and CheckpointWAL.
LEMMA CallsType ==
  ASSUME TypeInv, ApplyPressure \/ FlushCall \/ CheckpointWAL
  PROVE  TypeInv'
<1>1. ASSUME ApplyPressure \/ FlushCall PROVE TypeInv'
  <2>1. active' \in [Keys -> Entries] /\ frozen' \in Seq(Tables)
    BY <1>1, FreezeStepType DEF ApplyPressure, FlushCall, Freeze
  <2>2. budget' \in Budgets
    BY <1>1, SpendType DEF ApplyPressure, FlushCall
  <2>3. QED
    BY <1>1, <2>1, <2>2 DEF TypeInv, TypeOK, ChunkNumbersSet, ApplyPressure, FlushCall
<1>2. ASSUME CheckpointWAL PROVE TypeInv'
  BY <1>2 DEF TypeInv, TypeOK, ChunkNumbersSet, CheckpointWAL, Truncate
<1>3. QED
  BY <1>1, <1>2

-----------------------------------------------------------------------------
\* What flushTable writes is a chunk.
LEMMA FlushedType == ASSUME TypeInv PROVE Flushed \in [Keys -> Values]
  BY BoundsAssumption DEF TypeInv, TypeOK, Flushed, Tables, Entries, Values, Absent

\* What persistIndex and persistMeta write are images of their files.
LEMMA ImageTypes == ASSUME TypeInv PROVE IndexNow \in IndexImages /\ MetaNow \in MetaImages
  BY DEF TypeInv, TypeOK, IndexNow, MetaNow, IndexImages, MetaImages

\* nextSequence hands out chunk numbers.
LEMMA NextSeqType ==
  ASSUME TypeInv, nextSeq < MaxSeq
  PROVE  nextSeq + 1 \in Seqs /\ nextSeq + 1 \in 0 .. MaxSeq + 1
<1>1. nextSeq \in 0 .. MaxSeq + 1
  BY DEF TypeInv, TypeOK
<1>2. QED
  BY <1>1, BoundsAssumption DEF Seqs

\* The error path of flushOne keeps the types of what it touches.
LEMMA FlushFailedType ==
  ASSUME TypeInv, FlushFailed
  PROVE  /\ frozen' \in Seq(Tables) /\ flushing' \in Tables /\ flushSeq' \in 0 .. MaxSeq
         /\ flushImg' \in Images /\ flushPC' = "idle" /\ flushErr' \in BOOLEAN
         /\ budget' \in Budgets
<1>1. budget' \in Budgets
  BY SpendType DEF FlushFailed
<1>2. Requeued \in Seq(Tables)
  BY DEF TypeInv, TypeOK, Requeued
<1>3. QED
  BY <1>1, <1>2, EmptyTypes, BoundsAssumption DEF FlushFailed, TypeInv, TypeOK

\* The steps of the flush worker keep the types.
LEMMA FlushWorkerType == ASSUME TypeInv, FlushWorker PROVE TypeInv'
<1>1. ASSUME FlushPop PROVE TypeInv'
  <2>1. frozen \in Seq(Tables)
    BY DEF TypeInv, TypeOK
  <2>2. flushing' \in Tables /\ frozen' \in Seq(Tables)
    BY <1>1, <2>1 DEF FlushPop
  <2>3. QED
    BY <1>1, <2>2 DEF TypeInv, TypeOK, ChunkNumbersSet, FlushPop, FlushPCs
<1>2. ASSUME FlushWriteChunk PROVE TypeInv'
  <2>1. nextSeq + 1 \in Seqs /\ nextSeq' \in 0 .. MaxSeq + 1 /\ flushSeq' \in Seqs
    BY <1>2, NextSeqType DEF FlushWriteChunk
  <2>2. chunk' \in [Seqs -> [Keys -> Values]]
    BY <1>2, <2>1, FlushedType DEF FlushWriteChunk, TypeInv, TypeOK
  <2>3. flushSeq' \in 0 .. MaxSeq
    BY <2>1 DEF Seqs
  <2>4. QED
    BY <1>2, <2>1, <2>2, <2>3 DEF TypeInv, TypeOK, ChunkNumbersSet, FlushWriteChunk, FlushPCs
<1>3. ASSUME FlushIndex PROVE TypeInv'
  <2>1. flushSeq \in Seqs
    BY <1>3 DEF FlushIndex, TypeInv, ChunkNumbersSet
  <2>2. Records(chunk[flushSeq]) \in Nat
    BY KeyCount DEF Records
  <2>3. live' \in [Seqs -> Nat] /\ known' \in SUBSET Seqs
    BY <1>3, <2>1, <2>2 DEF FlushIndex, TypeInv, TypeOK
  <2>4. index' \in Locations
    BY <1>3, <2>1 DEF FlushIndex, TypeInv, TypeOK, Locations, Seqs
  <2>5. checkpointLSN' \in Values
    BY <1>3 DEF FlushIndex, TypeInv, TypeOK, TableLSN, Tables
  <2>6. QED
    BY <1>3, <2>3, <2>4, <2>5 DEF TypeInv, TypeOK, ChunkNumbersSet, FlushIndex, FlushPCs
<1>4. ASSUME FlushNothingLive PROVE TypeInv'
  BY <1>4 DEF TypeInv, TypeOK, ChunkNumbersSet, FlushNothingLive, FlushPCs, TableLSN, Tables
<1>5. ASSUME FlushImageIndex PROVE TypeInv'
  <2>1. flushImg' \in Images
    BY <1>5, ImageTypes DEF FlushImageIndex, TypeInv, TypeOK, Images
  <2>2. QED
    BY <1>5, <2>1 DEF TypeInv, TypeOK, ChunkNumbersSet, FlushImageIndex, FlushPCs
<1>6. ASSUME FlushPersistIndex PROVE TypeInv'
  BY <1>6, EmptyTypes DEF TypeInv, TypeOK, ChunkNumbersSet, FlushPersistIndex, FlushPCs, Images
<1>7. ASSUME FlushImageMeta PROVE TypeInv'
  <2>1. flushImg' \in Images
    BY <1>7, ImageTypes DEF FlushImageMeta, TypeInv, TypeOK, Images
  <2>2. QED
    BY <1>7, <2>1 DEF TypeInv, TypeOK, ChunkNumbersSet, FlushImageMeta, FlushPCs
<1>8. ASSUME FlushPersistMeta PROVE TypeInv'
  BY <1>8, EmptyTypes DEF TypeInv, TypeOK, ChunkNumbersSet, FlushPersistMeta, FlushPCs, Images
<1>9. ASSUME FlushCheckpoint PROVE TypeInv'
  BY <1>9 DEF TypeInv, TypeOK, ChunkNumbersSet, FlushCheckpoint, FlushPCs, Truncate
<1>10. ASSUME FlushDone PROVE TypeInv'
  <2>1. flushing' \in Tables /\ flushSeq' \in 0 .. MaxSeq
    <3>1. flushing' = NoTable /\ flushSeq' = 0
      BY <1>10 DEF FlushDone
    <3>2. 0 \in 0 .. MaxSeq
      BY BoundsAssumption
    <3>3. QED
      BY <3>1, <3>2, EmptyTypes
  <2>2. QED
    BY <1>10, <2>1 DEF TypeInv, TypeOK, ChunkNumbersSet, FlushDone, FlushPCs
<1>11. ASSUME FlushWriteFails PROVE TypeInv'
  <2>1. nextSeq' \in 0 .. MaxSeq + 1
    BY <1>11, NextSeqType DEF FlushWriteFails
  <2>2. QED
    BY <1>11, <2>1, FlushFailedType DEF TypeInv, TypeOK, ChunkNumbersSet, FlushWriteFails, FlushPCs
<1>12. ASSUME FlushPersistFails PROVE TypeInv'
  BY <1>12, FlushFailedType DEF TypeInv, TypeOK, ChunkNumbersSet, FlushPersistFails, FlushPCs
<1>13. QED
  BY <1>1, <1>2, <1>3, <1>4, <1>5, <1>6, <1>7, <1>8, <1>9, <1>10, <1>11, <1>12
     DEF FlushWorker

-----------------------------------------------------------------------------
\* rebuildIndex maps keys to chunk numbers.
LEMMA RebuiltIndexType ==
  ASSUME TypeInv, NEW S \in SUBSET Seqs
  PROVE  RebuiltIndex(S) \in Locations
<1>1. ASSUME NEW k \in Keys PROVE Newest({s \in S : chunk[s][k] # 0}) \in 0 .. MaxSeq
  <2>1. {s \in S : chunk[s][k] # 0} \in SUBSET (1 .. MaxSeq)
    BY DEF Seqs
  <2>2. QED
    BY <2>1, NewestType, BoundsAssumption
<1>2. QED
  BY <1>1 DEF RebuiltIndex, Locations

\* An index entry is a chunk number or 0, and so is a missing one.
LEMMA IndexType ==
  ASSUME TypeInv
  PROVE  0 \in 0 .. MaxSeq /\ \A k \in Keys : index[k] \in 0 .. MaxSeq
<1>1. index \in Locations
  BY DEF TypeInv, TypeOK
<1>2. QED
  BY <1>1, BoundsAssumption DEF Locations

\* The steps of Compact and RebuildIndex keep the types.
LEMMA MaintenanceType == ASSUME TypeInv, Maintenance PROVE TypeInv'
<1>1. ASSUME NEW next \in {"flush", "rebuildFlush"}, MaintenanceStart(next) PROVE TypeInv'
  <2>1. active' \in [Keys -> Entries] /\ frozen' \in Seq(Tables)
    BY <1>1, FreezeStepType DEF MaintenanceStart
  <2>2. budget' \in Budgets
    BY <1>1, SpendType DEF MaintenanceStart
  <2>3. compactPC' \in CompactPCs /\ compactPC' # "written"
    BY <1>1 DEF MaintenanceStart, CompactPCs
  <2>4. QED
    BY <1>1, <2>1, <2>2, <2>3 DEF TypeInv, TypeOK, ChunkNumbersSet, MaintenanceStart
<1>2. ASSUME CompactFlushed PROVE TypeInv'
  BY ZenonT(60), <1>2 DEF TypeInv, TypeOK, ChunkNumbersSet, CompactFlushed, CompactPCs
<1>3. ASSUME CompactVictims PROVE TypeInv'
  <2>1. victims' \in SUBSET Seqs
    BY <1>3 DEF CompactVictims, TypeInv, TypeOK, Garbage
  <2>2. QED
    BY ZenonT(60), <1>3, <2>1 DEF TypeInv, TypeOK, ChunkNumbersSet, CompactVictims, CompactPCs
<1>4. ASSUME CompactSnapshot PROVE TypeInv'
  <2>1. refs' \in Locations
    BY <1>4, IndexType DEF CompactSnapshot, Locations
  <2>2. QED
    BY ZenonT(60), <1>4, <2>1 DEF TypeInv, TypeOK, ChunkNumbersSet, CompactSnapshot, CompactPCs
<1>5. ASSUME CompactWrite PROVE TypeInv'
  <2>1. nextSeq + 1 \in Seqs /\ nextSeq' \in 0 .. MaxSeq + 1 /\ compactSeq' \in Seqs
    BY <1>5, NextSeqType DEF CompactWrite
  <2>2. [k \in Keys |-> IF refs[k] # 0 THEN chunk[refs[k]][k] ELSE 0] \in [Keys -> Values]
    <3>1. refs \in [Keys -> 0 .. MaxSeq] /\ chunk \in [1 .. MaxSeq -> [Keys -> Values]]
      BY DEF TypeInv, TypeOK, Locations, Seqs
    <3>2. QED
      BY <3>1, BoundsAssumption DEF Values
  <2>3. chunk' \in [Seqs -> [Keys -> Values]]
    BY <1>5, <2>1, <2>2 DEF CompactWrite, TypeInv, TypeOK
  <2>4. compactSeq' \in 0 .. MaxSeq
    BY <2>1 DEF Seqs
  <2>5. QED
    BY <1>5, <2>1, <2>3, <2>4 DEF TypeInv, TypeOK, ChunkNumbersSet, CompactWrite, CompactPCs
<1>6. ASSUME CompactSwap PROVE TypeInv'
  <2>1. compactSeq \in Seqs
    BY <1>6 DEF CompactSwap, TypeInv, ChunkNumbersSet
  <2>2. Cardinality(Unmoved) \in Nat
    BY KeyCount DEF Unmoved
  <2>3. live' \in [Seqs -> Nat] /\ known' \in SUBSET Seqs
    BY <1>6, <2>1, <2>2 DEF CompactSwap, TypeInv, TypeOK
  <2>4. index' \in Locations
    BY <1>6, <2>1 DEF CompactSwap, TypeInv, TypeOK, Locations, Seqs
  <2>5. QED
    BY <1>6, <2>3, <2>4 DEF TypeInv, TypeOK, ChunkNumbersSet, CompactSwap, CompactPCs
<1>7. ASSUME CompactRetire PROVE TypeInv'
  <2>1. live' \in [Seqs -> Nat] /\ known' \in SUBSET Seqs
    BY <1>7 DEF CompactRetire, TypeInv, TypeOK
  <2>2. QED
    BY <1>7, <2>1 DEF TypeInv, TypeOK, ChunkNumbersSet, CompactRetire, CompactPCs
<1>8. ASSUME CompactScansDrained PROVE TypeInv'
  BY <1>8 DEF TypeInv, TypeOK, ChunkNumbersSet, CompactScansDrained, CompactPCs
<1>9. ASSUME NEW s \in Seqs, CompactRemove(s) PROVE TypeInv'
  <2>1. chunk' \in [Seqs -> [Keys -> Values]] /\ victims' \in SUBSET Seqs
    BY <1>9, EmptyTypes DEF CompactRemove, TypeInv, TypeOK
  <2>2. QED
    BY ZenonT(60), <1>9, <2>1 DEF TypeInv, TypeOK, ChunkNumbersSet, CompactRemove, CompactPCs
<1>10. ASSUME RebuildIndex PROVE TypeInv'
  <2>1. index' \in Locations
    BY <1>10, RebuiltIndexType DEF RebuildIndex, TypeInv, TypeOK
  <2>2. budget' \in Budgets
    BY <1>10, SpendType DEF RebuildIndex, TypeInv, TypeOK
  <2>3. QED
    BY <1>10, <2>1, <2>2 DEF TypeInv, TypeOK, ChunkNumbersSet, RebuildIndex, CompactPCs
<1>11. ASSUME CompactImageIndex PROVE TypeInv'
  <2>1. compactImg' \in Images
    BY <1>11, ImageTypes DEF CompactImageIndex, TypeInv, TypeOK, Images
  <2>2. QED
    BY <1>11, <2>1 DEF TypeInv, TypeOK, ChunkNumbersSet, CompactImageIndex, CompactPCs
<1>12. ASSUME CompactPersistIndex PROVE TypeInv'
  <2>1. diskIndex' \in IndexImages /\ compactImg' \in Images
    BY <1>12, EmptyTypes DEF CompactPersistIndex, TypeInv, TypeOK, Images
  <2>2. QED
    BY ZenonT(60), <1>12, <2>1 DEF TypeInv, TypeOK, ChunkNumbersSet, CompactPersistIndex, CompactPCs
<1>13. ASSUME CompactImageMeta PROVE TypeInv'
  <2>1. compactImg' \in Images
    BY <1>13, ImageTypes DEF CompactImageMeta, TypeInv, TypeOK, Images
  <2>2. QED
    BY <1>13, <2>1 DEF TypeInv, TypeOK, ChunkNumbersSet, CompactImageMeta, CompactPCs
<1>14. ASSUME CompactPersistMeta PROVE TypeInv'
  <2>1. /\ diskMeta' \in MetaImages /\ compactImg' \in Images
        /\ refs' \in Locations /\ compactSeq' \in 0 .. MaxSeq
    <3>1. /\ diskMeta' = compactImg.meta /\ compactImg' = NoImage
          /\ refs' = NoRecords /\ compactSeq' = 0
      BY <1>14 DEF CompactPersistMeta
    <3>2. compactImg.meta \in MetaImages
      BY DEF TypeInv, TypeOK, Images
    <3>3. 0 \in 0 .. MaxSeq
      BY BoundsAssumption
    <3>4. QED
      BY <3>1, <3>2, <3>3, EmptyTypes
  <2>2. QED
    BY <1>14, <2>1 DEF TypeInv, TypeOK, ChunkNumbersSet, CompactPersistMeta, CompactPCs
<1>15. QED
  BY <1>1, <1>2, <1>3, <1>4, <1>5, <1>6, <1>7, <1>8, <1>9, <1>10, <1>11, <1>12, <1>13, <1>14
     DEF Maintenance, CompactStart, RebuildIndexStart

\* The steps of Iterate keep the types.
LEMMA ScanType == ASSUME TypeInv, Scan PROVE TypeInv'
<1>1. ASSUME ScanStart PROVE TypeInv'
  <2>1. budget' \in Budgets
    BY <1>1, SpendType DEF ScanStart
  <2>2. scan' \in [on : BOOLEAN, taken : BOOLEAN, at : Locations]
    BY <1>1, EmptyTypes DEF ScanStart
  <2>3. QED
    BY <1>1, <2>1, <2>2 DEF TypeInv, TypeOK, ChunkNumbersSet, ScanStart
<1>2. ASSUME ScanSnapshot PROVE TypeInv'
  <2>1. [k \in Keys |-> IF InLevels(k) THEN 0 ELSE index[k]] \in Locations
    BY IndexType DEF Locations
  <2>2. scan' \in [on : BOOLEAN, taken : BOOLEAN, at : Locations]
    BY <1>2, <2>1 DEF ScanSnapshot, TypeInv, TypeOK
  <2>3. QED
    BY <1>2, <2>2 DEF TypeInv, TypeOK, ChunkNumbersSet, ScanSnapshot
<1>3. ASSUME ScanEnd PROVE TypeInv'
  BY ZenonT(60), <1>3, EmptyTypes DEF TypeInv, TypeOK, ChunkNumbersSet, ScanEnd
<1>4. QED
  BY <1>1, <1>2, <1>3 DEF Scan

-----------------------------------------------------------------------------
(* What Open recovers.                                                     *)

\* The registry is made of chunk numbers, its counters and the next number fit.
LEMMA RecoveredRegistryType ==
  ASSUME TypeInv
  PROVE  /\ RecoveredKnown \in SUBSET Seqs
         /\ RecoveredNextSeq \in 0 .. MaxSeq + 1
         /\ \A s \in Seqs : RecoveredLive(s) \in Nat
<1>1. RecoveredKnown \in SUBSET Seqs
  BY DEF RecoveredKnown, TypeInv, TypeOK, MetaImages
<1>2. Newest(RecoveredKnown) \in 0 .. MaxSeq
  BY <1>1, NewestType, BoundsAssumption DEF Seqs
<1>3. RecoveredNextSeq \in 0 .. MaxSeq + 1
  BY <1>2, BoundsAssumption DEF RecoveredNextSeq, TypeInv, TypeOK, MetaImages
<1>4. ASSUME NEW s \in Seqs PROVE RecoveredLive(s) \in Nat
  <2>1. Records(chunk[s]) \in Nat
    BY KeyCount DEF Records
  <2>2. QED
    BY <2>1 DEF RecoveredLive, TypeInv, TypeOK, MetaImages
<1>5. QED
  BY <1>1, <1>3, <1>4

\* The recovered index maps keys to chunk numbers.
LEMMA RecoveredIndexType == ASSUME TypeInv PROVE RecoveredIndex \in Locations
  BY RecoveredRegistryType, RebuiltIndexType DEF RecoveredIndex, TypeInv, TypeOK, IndexImages

\* The recovered LSN is one that was assigned.
LEMMA RecoveredLSNType == ASSUME TypeInv PROVE RecoveredLSN \in Values
<1>1. LastOnDisk \in 0 .. MaxLSN
  <2>1. {l \in LSNs : wal[l] # NoRecord} \in SUBSET (1 .. MaxLSN)
    BY DEF LSNs
  <2>2. QED
    BY <2>1, NewestType, BoundsAssumption DEF LastOnDisk
<1>2. QED
  BY <1>1 DEF RecoveredLSN, TypeInv, TypeOK, MetaImages, Values

\* The replay leaves an entry or nothing for each key.
LEMMA ReplayedEntryType ==
  ASSUME TypeInv, NEW k \in Keys
  PROVE  ReplayedEntry(k) \in Entries
<1>1. Replayed(k) \in SUBSET (1 .. MaxLSN)
  BY DEF Replayed, LSNs
<1>2. Newest(Replayed(k)) \in 0 .. MaxLSN
  BY <1>1, NewestType, BoundsAssumption
<1>3. QED
  BY <1>2, BoundsAssumption DEF ReplayedEntry, Entries, Values, Absent, Tombstone

\* Close, a crash and Open keep the types.
LEMMA LifecycleType == ASSUME TypeInv, Lifecycle PROVE TypeInv'
<1>1. ASSUME CloseBegin PROVE TypeInv'
  BY <1>1 DEF TypeInv, TypeOK, ChunkNumbersSet, CloseBegin
<1>2. ASSUME CloseFreeze PROVE TypeInv'
  <2>1. active' \in [Keys -> Entries] /\ frozen' \in Seq(Tables)
    BY <1>2, FreezeStepType DEF CloseFreeze
  <2>2. QED
    BY <1>2, <2>1 DEF TypeInv, TypeOK, ChunkNumbersSet, CloseFreeze
<1>3. ASSUME MemoryLost, UNCHANGED <<diskVars, want>>, budget' \in Budgets PROVE TypeInv'
  <2>1. /\ active' \in [Keys -> Entries] /\ frozen' \in Seq(Tables) /\ flushing' \in Tables
        /\ index' \in Locations /\ known' \in SUBSET Seqs /\ live' \in [Seqs -> Nat]
        /\ refs' \in Locations /\ victims' \in SUBSET Seqs
        /\ flushImg' \in Images /\ compactImg' \in Images
        /\ scan' \in [on : BOOLEAN, taken : BOOLEAN, at : Locations]
    BY <1>3, EmptyTypes DEF MemoryLost
  <2>2. /\ nextSeq' \in 0 .. MaxSeq + 1 /\ lsn' \in Values /\ checkpointLSN' \in Values
        /\ jlsn' \in Values /\ flushSeq' \in 0 .. MaxSeq /\ compactSeq' \in 0 .. MaxSeq
    BY <1>3, BoundsAssumption DEF MemoryLost, Values
  <2>3. QED
    BY <1>3, <2>1, <2>2 DEF TypeInv, TypeOK, ChunkNumbersSet, MemoryLost, FlushPCs, CompactPCs
<1>4. ASSUME CloseDone PROVE TypeInv'
  BY <1>3, <1>4 DEF CloseDone, TypeInv, TypeOK
<1>5. ASSUME Crash PROVE TypeInv'
  BY <1>3, <1>5, SpendType DEF Crash
<1>6. ASSUME Open PROVE TypeInv'
  <2>1. /\ known' \in SUBSET Seqs /\ nextSeq' \in 0 .. MaxSeq + 1
        /\ jlsn' \in Values /\ lsn' \in Values
    BY <1>6, RecoveredRegistryType, RecoveredLSNType DEF Open
  <2>2. checkpointLSN' \in Values
    BY <1>6 DEF Open, TypeInv, TypeOK, MetaImages
  <2>3. active' \in [Keys -> Entries]
    BY <1>6, ReplayedEntryType DEF Open
  <2>4. index' \in Locations
    <3>1. RecoveredIndex \in [Keys -> 0 .. MaxSeq] /\ 0 \in 0 .. MaxSeq
      BY RecoveredIndexType, BoundsAssumption DEF Locations
    <3>2. QED
      BY <1>6, <3>1 DEF Open, Locations
  <2>5. chunk' \in [Seqs -> [Keys -> Values]]
    BY <1>6, EmptyTypes DEF Open, TypeInv, TypeOK
  <2>6. live' \in [Seqs -> Nat]
    <3>1. ASSUME NEW s \in Seqs
          PROVE  LessDead(RecoveredLive(s),
                          Cardinality(KilledOnce(s)) + Cardinality(KilledTwice(s))) \in Nat
      <4>1. Cardinality(KilledOnce(s)) \in Nat
        BY KeyCount DEF KilledOnce
      <4>2. Cardinality(KilledTwice(s)) \in Nat
        BY KeyCount DEF KilledOnce, KilledTwice
      <4>3. QED
        BY <4>1, <4>2, RecoveredRegistryType DEF LessDead
    <3>2. QED
      BY <1>6, <3>1 DEF Open
  <2>7. QED
    BY ZenonT(60), <1>6, <2>1, <2>2, <2>3, <2>4, <2>5, <2>6
       DEF TypeInv, TypeOK, ChunkNumbersSet, Open
<1>7. QED
  BY <1>1, <1>2, <1>4, <1>5, <1>6 DEF Lifecycle

-----------------------------------------------------------------------------
\* An empty store is well typed.
LEMMA InitType == Init => TypeInv
<1> SUFFICES ASSUME Init PROVE TypeInv
  OBVIOUS
<1>0. /\ frozen \in Seq(Tables) /\ known \in SUBSET Seqs /\ victims \in SUBSET Seqs
      /\ live \in [Seqs -> Nat] /\ chunk \in [Seqs -> [Keys -> Values]]
  <2>1. /\ frozen = <<>> /\ known = {} /\ victims = {}
        /\ live = [s \in Seqs |-> 0] /\ chunk = [s \in Seqs |-> NoRecords]
    BY DEF Init
  <2>2. NoRecords \in [Keys -> Values]
    BY EmptyTypes
  <2>3. QED
    BY <2>1, <2>2
<1>1. /\ active \in [Keys -> Entries] /\ flushing \in Tables
      /\ index \in Locations /\ refs \in Locations
      /\ flushImg \in Images /\ compactImg \in Images
      /\ scan \in [on : BOOLEAN, taken : BOOLEAN, at : Locations]
      /\ want \in [Keys -> Values]
      /\ diskIndex \in IndexImages /\ diskMeta \in MetaImages
  BY Zenon, EmptyTypes DEF Init
<1>2. /\ nextSeq \in 0 .. MaxSeq + 1 /\ lsn \in Values /\ checkpointLSN \in Values
      /\ jlsn \in Values /\ flushSeq \in 0 .. MaxSeq /\ compactSeq \in 0 .. MaxSeq
  <2>1. /\ nextSeq = 0 /\ lsn = 0 /\ checkpointLSN = 0 /\ jlsn = 0
        /\ flushSeq = 0 /\ compactSeq = 0
    BY DEF Init
  <2>2. QED
    BY <2>1, BoundsAssumption DEF Values
<1>3. wal \in [LSNs -> [key : Keys, op : Ops] \cup {NoRecord}] /\ budget \in Budgets
  BY DEF Init, Budgets
<1>4. QED
  BY <1>0, <1>1, <1>2, <1>3 DEF Init, TypeInv, TypeOK, ChunkNumbersSet, FlushPCs, CompactPCs

\* Every step keeps TypeInv.
LEMMA NextType == TypeInv /\ [Next]_vars => TypeInv'
<1>1. ASSUME TypeInv, Next PROVE TypeInv'
  BY <1>1, WriteType, CallsType, FlushWorkerType, MaintenanceType, ScanType, LifecycleType DEF Next
<1>2. ASSUME TypeInv, UNCHANGED vars PROVE TypeInv'
  BY ZenonT(60), <1>2 DEF vars, TypeInv, TypeOK, ChunkNumbersSet
<1>3. QED
  BY <1>1, <1>2

\* TypeInv, the inductive form of the type invariant, always holds.
THEOREM TypeInvHolds == Spec => []TypeInv
  BY InitType, NextType, PTL DEF Spec

\* Type correctness of the store model: whatever the writers, the flush worker,
\* the maintenance calls, Close, crashes and Open do, the state keeps its types.
THEOREM TypeCorrect == Spec => []TypeOK
<1>1. TypeInv => TypeOK
  BY DEF TypeInv
<1>2. QED
  BY <1>1, TypeInvHolds, PTL

=============================================================================
