-------------------------- MODULE WatermarkProofs --------------------------
(***************************************************************************)
(* The watermarks of Store and what they mean for the journal, for every   *)
(* value of the constants.                                                 *)
(***************************************************************************)
EXTENDS StoreProofs

\* A process that is not running holds nothing.
DownIsEmpty ==
  phase = "down" =>
    /\ frozen = <<>> /\ flushing = NoTable /\ writer = NoWriter /\ deleting = {}
    /\ flushPC = "idle" /\ flushImg = NoImage /\ jlsn = 0
    /\ compactPC = "idle" /\ compactImg = NoImage

\* The watermarks of a queue of tables lie between two bounds and never decrease.
OrderedQueue(q, lo, hi) ==
  /\ \A i \in DOMAIN q : lo <= q[i].lsn /\ q[i].lsn <= hi
  /\ \A i, j \in DOMAIN q : i <= j => q[i].lsn <= q[j].lsn

\* WatermarksOrdered in inductive form: the checkpoint is behind the records
\* applied, a store.meta image about to be renamed is no newer than it, and the
\* writer's record is one the journal numbered.
WatermarkInv ==
  /\ DownIsEmpty
  /\ phase # "down" => diskMeta.lsn <= checkpointLSN
  /\ flushPC # "idle" => checkpointLSN <= flushing.lsn
  /\ OrderedQueue(frozen, checkpointLSN, lsn)
  /\ OrderedQueue(frozen, flushing.lsn, lsn)
  /\ flushing.lsn <= lsn /\ checkpointLSN <= lsn /\ lsn <= jlsn
  /\ flushImg.meta.lsn <= checkpointLSN
  /\ compactImg.meta.lsn <= checkpointLSN
  /\ writer.lsn <= jlsn

-----------------------------------------------------------------------------
USE DEF memVars, flushVars, compactVars, diskVars

\* Tables have a numeric watermark.
LEMMA TableLSNType == ASSUME NEW t \in Tables PROVE t.lsn \in Nat
  BY BoundsAssumption DEF Tables, Values

\* What stands for "nothing" has watermark 0.
LEMMA EmptyWatermarks ==
  /\ NoTable.lsn = 0 /\ NoWriter.lsn = 0 /\ NoMeta.lsn = 0 /\ NoImage.meta.lsn = 0
  BY DEF NoTable, NoWriter, NoMeta, NoImage

\* LSNs are numbers, wherever they are kept.
LEMMA LSNTypes ==
  ASSUME TypeInv
  PROVE  /\ lsn \in Nat /\ checkpointLSN \in Nat /\ jlsn \in Nat
         /\ flushing.lsn \in Nat /\ diskMeta.lsn \in Nat /\ writer.lsn \in Nat
         /\ flushImg.meta.lsn \in Nat /\ compactImg.meta.lsn \in Nat
<1>1. \A n \in Values : n \in Nat
  BY BoundsAssumption DEF Values
<1>2. /\ lsn \in Values /\ checkpointLSN \in Values /\ jlsn \in Values
      /\ flushing \in Tables /\ diskMeta.lsn \in Values
      /\ flushImg.meta.lsn \in Values /\ compactImg.meta.lsn \in Values
  BY DEF TypeInv, TypeOK, Images, MetaImages
<1>3. writer.lsn \in Nat
  <2>1. CASE writer = NoWriter
    BY <2>1, EmptyWatermarks
  <2>2. CASE writer # NoWriter
    BY <2>2, WriterType, BoundsAssumption DEF LSNs
  <2>3. QED
    BY <2>1, <2>2
<1>4. QED
  BY <1>1, <1>2, <1>3, TableLSNType

\* So are those of the tables in the queue.
LEMMA WatermarkTypes ==
  ASSUME TypeInv
  PROVE  /\ lsn \in Nat /\ checkpointLSN \in Nat /\ jlsn \in Nat
         /\ flushing.lsn \in Nat /\ diskMeta.lsn \in Nat /\ writer.lsn \in Nat
         /\ flushImg.meta.lsn \in Nat /\ compactImg.meta.lsn \in Nat
         /\ frozen \in Seq(Tables)
         /\ \A i \in 1 .. Len(frozen) : frozen[i].lsn \in Nat
<1>1. frozen \in Seq(Tables)
  BY DEF TypeInv, TypeOK
<1>2. \A i \in 1 .. Len(frozen) : frozen[i] \in Tables
  BY <1>1
<1>3. QED
  BY <1>1, <1>2, LSNTypes, TableLSNType

\* Bounds of a queue may be widened.
LEMMA WiderOrdered ==
  ASSUME NEW q \in Seq(Tables), NEW lo \in Nat, NEW hi \in Nat, OrderedQueue(q, lo, hi),
         NEW low \in Nat, NEW high \in Nat, low <= lo, hi <= high
  PROVE  OrderedQueue(q, low, high)
<1>1. \A i \in DOMAIN q : q[i].lsn \in Nat
  BY TableLSNType
<1>2. \A i \in DOMAIN q : low <= q[i].lsn /\ q[i].lsn <= high
  BY <1>1 DEF OrderedQueue
<1>3. QED
  BY <1>2 DEF OrderedQueue

\* A table at least as young as all others goes to the end.
LEMMA AppendOrdered ==
  ASSUME NEW q \in Seq(Tables), NEW t \in Tables, NEW lo \in Nat, NEW hi \in Nat,
         OrderedQueue(q, lo, hi), lo <= t.lsn, hi <= t.lsn
  PROVE  OrderedQueue(Append(q, t), lo, t.lsn)
<1> DEFINE r == Append(q, t)
<1>1. /\ DOMAIN r = 1 .. Len(q) + 1 /\ DOMAIN q = 1 .. Len(q) /\ Len(q) \in Nat
      /\ r[Len(q) + 1] = t /\ \A i \in 1 .. Len(q) : r[i] = q[i]
  OBVIOUS
<1>2. \A i \in DOMAIN q : q[i].lsn \in Nat
  BY TableLSNType
<1>3. t.lsn \in Nat
  BY TableLSNType
<1> HIDE DEF r
<1>4. ASSUME NEW i \in DOMAIN r
      PROVE  i \in Nat /\ (r[i] = t \/ (i \in DOMAIN q /\ r[i] = q[i]))
  BY <1>1
<1>5. ASSUME NEW i \in DOMAIN r PROVE lo <= r[i].lsn /\ r[i].lsn <= t.lsn /\ r[i].lsn \in Nat
  BY <1>2, <1>3, <1>4 DEF OrderedQueue
<1>6. ASSUME NEW i \in DOMAIN r, NEW j \in DOMAIN r, i <= j PROVE r[i].lsn <= r[j].lsn
  <2>1. CASE r[j] = t
    BY <1>5, <2>1
  <2>2. CASE j \in DOMAIN q /\ r[j] = q[j]
    <3>1. i \in DOMAIN q /\ r[i] = q[i]
      BY <1>1, <1>6, <2>2
    <3>2. QED
      BY <1>6, <2>2, <3>1 DEF OrderedQueue
  <2>3. QED
    BY <1>4, <2>1, <2>2
<1>7. OrderedQueue(r, lo, t.lsn)
  BY <1>5, <1>6 DEF OrderedQueue
<1>8. QED
  BY <1>7 DEF r

\* The oldest table leaves the head.
LEMMA TailOrdered ==
  ASSUME NEW q \in Seq(Tables), q # <<>>, NEW lo \in Nat, NEW hi \in Nat, OrderedQueue(q, lo, hi)
  PROVE  OrderedQueue(Tail(q), Head(q).lsn, hi) /\ lo <= Head(q).lsn /\ Head(q).lsn <= hi
<1>1. /\ Len(q) \in Nat /\ Len(q) >= 1 /\ DOMAIN q = 1 .. Len(q) /\ Head(q) = q[1]
      /\ DOMAIN Tail(q) = 1 .. Len(q) - 1 /\ \A i \in 1 .. Len(q) - 1 : Tail(q)[i] = q[i + 1]
  OBVIOUS
<1>2. \A i \in DOMAIN q : q[i].lsn \in Nat
  BY TableLSNType
<1>3. QED
  BY <1>1, <1>2 DEF OrderedQueue

\* A table at most as young as all others goes back to the head.
LEMMA RequeueOrdered ==
  ASSUME NEW q \in Seq(Tables), NEW t \in Tables, NEW lo \in Nat, NEW hi \in Nat,
         OrderedQueue(q, t.lsn, hi), lo <= t.lsn, t.lsn <= hi
  PROVE  OrderedQueue(<<t>> \o q, lo, hi)
<1> DEFINE r == <<t>> \o q
<1>1. /\ DOMAIN r = 1 .. Len(q) + 1 /\ DOMAIN q = 1 .. Len(q) /\ Len(q) \in Nat
      /\ r[1] = t /\ \A i \in 2 .. Len(q) + 1 : r[i] = q[i - 1]
  OBVIOUS
<1>2. \A i \in DOMAIN q : q[i].lsn \in Nat
  BY TableLSNType
<1>3. t.lsn \in Nat
  BY TableLSNType
<1> HIDE DEF r
<1>4. ASSUME NEW i \in DOMAIN r
      PROVE  i \in Nat /\ (r[i] = t \/ (i > 1 /\ i - 1 \in DOMAIN q /\ r[i] = q[i - 1]))
  BY <1>1
<1>5. ASSUME NEW i \in DOMAIN r
      PROVE  t.lsn <= r[i].lsn /\ r[i].lsn <= hi /\ r[i].lsn \in Nat
  BY <1>2, <1>3, <1>4 DEF OrderedQueue
<1>6. ASSUME NEW i \in DOMAIN r, NEW j \in DOMAIN r, i <= j PROVE r[i].lsn <= r[j].lsn
  <2>1. CASE r[i] = t
    BY <1>5, <2>1
  <2>2. CASE i > 1 /\ i - 1 \in DOMAIN q /\ r[i] = q[i - 1]
    <3>1. j > 1 /\ j - 1 \in DOMAIN q /\ r[j] = q[j - 1] /\ i - 1 <= j - 1
      BY <1>1, <1>6, <2>2
    <3>2. QED
      BY <2>2, <3>1 DEF OrderedQueue
  <2>3. QED
    BY <1>4, <2>1, <2>2
<1>7. \A i \in DOMAIN r : lo <= r[i].lsn /\ r[i].lsn <= hi
  BY <1>3, <1>5
<1>8. OrderedQueue(r, lo, hi)
  BY <1>6, <1>7 DEF OrderedQueue
<1>9. QED
  BY <1>8 DEF r

\* Freezing the active table keeps the queue in order, also when the lsn watermark
\* moves with it.
LEMMA FreezeOrdered ==
  ASSUME TypeInv, WatermarkInv, NEW e \in [Keys -> Entries], NEW m \in Values, lsn <= m,
         NEW q, q = frozen \/ q = FreezeTables(e, m)
  PROVE  OrderedQueue(q, checkpointLSN, m) /\ OrderedQueue(q, flushing.lsn, m)
<1> DEFINE t == [entries |-> e, lsn |-> m]
<1>1. t \in Tables /\ t.lsn = m /\ m \in Nat
  BY BoundsAssumption DEF Tables, Values
<1>2. q = frozen \/ q = Append(frozen, t)
  BY DEF FreezeTables
<1> HIDE DEF t
<1>3. ASSUME NEW lo \in Nat, OrderedQueue(frozen, lo, lsn), lo <= lsn
      PROVE  OrderedQueue(q, lo, m)
  <2>1. CASE q = frozen
    BY <1>1, <1>3, <2>1, WatermarkTypes, WiderOrdered
  <2>2. CASE q = Append(frozen, t)
    <3>1. lo <= t.lsn /\ lsn <= t.lsn
      BY <1>1, <1>3, WatermarkTypes
    <3>2. QED
      BY <1>1, <1>3, <2>2, <3>1, WatermarkTypes, AppendOrdered
  <2>3. QED
    BY <1>2, <2>1, <2>2
<1>4. QED
  BY <1>3, WatermarkTypes DEF WatermarkInv

\* The steps of UpsertBatch and Delete keep the watermarks in order.
LEMMA WriteWatermark == ASSUME TypeInv, WatermarkInv, Write PROVE WatermarkInv'
<1>1. ASSUME NEW k \in Keys, UpsertAppend(k) \/ DeleteAppend(k) PROVE WatermarkInv'
  <2>1. phase # "down"
    BY <1>1 DEF WatermarkInv, DownIsEmpty, UpsertAppend, DeleteAppend
  <2>2. /\ jlsn' = jlsn + 1 /\ writer'.lsn = jlsn + 1
        /\ UNCHANGED <<phase, frozen, flushing, lsn, checkpointLSN, flushPC, flushImg, compactImg,
                       diskMeta>>
    BY <1>1 DEF UpsertAppend, DeleteAppend
  <2>3. lsn <= jlsn' /\ writer'.lsn <= jlsn'
    BY <2>2, WatermarkTypes DEF WatermarkInv
  <2>4. QED
    BY <2>1, <2>2, <2>3 DEF WatermarkInv, DownIsEmpty, OrderedQueue
<1>2. ASSUME UpsertApply PROVE WatermarkInv'
  <2> DEFINE e == [active EXCEPT ![writer.key] = writer.lsn]
             m == IF writer.lsn > lsn THEN writer.lsn ELSE lsn
  <2>1. phase # "down"
    BY <1>2 DEF WatermarkInv, DownIsEmpty, UpsertApply, NoWriter
  <2>2. writer.key \in Keys /\ writer.lsn \in LSNs
    BY <1>2, WriterType DEF UpsertApply, NoWriter
  <2>3. e \in [Keys -> Entries] /\ m \in Values
    BY <2>2 DEF TypeInv, TypeOK, Entries, Values, LSNs
  <2>4. m \in Nat /\ lsn <= m /\ m <= jlsn
    BY WatermarkTypes DEF WatermarkInv
  <2>5. frozen' = frozen \/ frozen' = FreezeTables(e, m)
    BY <1>2 DEF UpsertApply
  <2>6. lsn' = m /\ writer' = NoWriter
        /\ UNCHANGED <<phase, flushing, checkpointLSN, jlsn, flushPC, flushImg, compactImg, diskMeta>>
    BY <1>2 DEF UpsertApply
  <2> HIDE DEF e, m
  <2>7. OrderedQueue(frozen', checkpointLSN', lsn') /\ OrderedQueue(frozen', flushing'.lsn, lsn')
    BY <2>3, <2>4, <2>5, <2>6, FreezeOrdered
  <2>8. writer'.lsn <= jlsn' /\ flushing'.lsn <= lsn' /\ checkpointLSN' <= lsn'
    BY <2>4, <2>6, WatermarkTypes DEF WatermarkInv, NoWriter
  <2>9. QED
    BY <2>1, <2>4, <2>6, <2>7, <2>8 DEF WatermarkInv, DownIsEmpty
<1>3. ASSUME NEW k \in Keys, DeleteCheck(k) PROVE WatermarkInv'
  BY <1>3 DEF WatermarkInv, DownIsEmpty, DeleteCheck, OrderedQueue
<1>4. ASSUME DeleteApply PROVE WatermarkInv'
  <2>1. writer'.lsn <= jlsn'
    <3>1. writer' = NoWriter /\ jlsn' = jlsn
      BY <1>4 DEF DeleteApply
    <3>2. QED
      BY <3>1, EmptyWatermarks, LSNTypes
  <2>2. QED
    BY <1>4, <2>1 DEF WatermarkInv, DownIsEmpty, DeleteApply, OrderedQueue, NoWriter
<1>5. QED
  BY <1>1, <1>2, <1>3, <1>4 DEF Write

\* A freeze with the lsn of the moment keeps the watermarks in order.
LEMMA FreezeWatermark ==
  ASSUME TypeInv, WatermarkInv, phase # "down",
         frozen' = FreezeTables(active, lsn),
         UNCHANGED <<flushing, lsn, checkpointLSN, jlsn, writer, flushPC, flushImg, compactImg,
                     diskMeta>>,
         phase' # "down"
  PROVE  WatermarkInv'
<1>1. OrderedQueue(frozen', checkpointLSN', lsn') /\ OrderedQueue(frozen', flushing'.lsn, lsn')
  <2>1. active \in [Keys -> Entries] /\ lsn \in Values
    BY DEF TypeInv, TypeOK
  <2>2. lsn <= lsn
    BY LSNTypes
  <2>3. OrderedQueue(frozen', checkpointLSN, lsn) /\ OrderedQueue(frozen', flushing.lsn, lsn)
    BY <2>1, <2>2, FreezeOrdered
  <2>4. QED
    BY <2>3
<1>2. QED
  BY <1>1 DEF WatermarkInv, DownIsEmpty

\* ApplyPressure, Flush and CheckpointWAL.
LEMMA CallsWatermark ==
  ASSUME TypeInv, WatermarkInv, ApplyPressure \/ FlushCall \/ CheckpointWAL
  PROVE  WatermarkInv'
<1>1. ASSUME ApplyPressure \/ FlushCall PROVE WatermarkInv'
  BY <1>1, FreezeWatermark DEF ApplyPressure, FlushCall, Freeze
<1>2. ASSUME CheckpointWAL PROVE WatermarkInv'
  BY <1>2 DEF WatermarkInv, DownIsEmpty, CheckpointWAL, OrderedQueue
<1>3. QED
  BY <1>1, <1>2

\* Every queue is in order from 0 on.
LEMMA QueueFromZero == ASSUME TypeInv, WatermarkInv PROVE OrderedQueue(frozen, 0, lsn)
<1>1. OrderedQueue(frozen, checkpointLSN, lsn)
  BY DEF WatermarkInv
<1>2. 0 \in Nat /\ 0 <= checkpointLSN /\ lsn <= lsn
  BY LSNTypes
<1>3. QED
  BY <1>1, <1>2, WatermarkTypes, WiderOrdered

\* The steps of the flush worker keep the watermarks in order: only the
\* installation of a table moves the checkpoint, to that table's watermark, and
\* a table that failed goes back before all younger ones.
LEMMA FlushWatermark == ASSUME TypeInv, WatermarkInv, FlushWorker PROVE WatermarkInv'
<1>1. ASSUME FlushPop PROVE WatermarkInv'
  <2>1. OrderedQueue(frozen', Head(frozen).lsn, lsn) /\ checkpointLSN <= Head(frozen).lsn
        /\ Head(frozen).lsn <= lsn
    BY <1>1, WatermarkTypes, TailOrdered DEF FlushPop, WatermarkInv
  <2>2. OrderedQueue(frozen', checkpointLSN, lsn)
    <3>1. Head(frozen).lsn \in Nat
      BY <1>1, WatermarkTypes, TableLSNType DEF FlushPop
    <3>2. frozen' \in Seq(Tables)
      BY <1>1, WatermarkTypes DEF FlushPop
    <3>3. checkpointLSN \in Nat /\ lsn \in Nat /\ lsn <= lsn
      BY LSNTypes
    <3>4. QED
      BY <2>1, <3>1, <3>2, <3>3, WiderOrdered
  <2>3. QED
    BY <1>1, <2>1, <2>2 DEF WatermarkInv, DownIsEmpty, FlushPop
<1>2. ASSUME FlushWriteChunk PROVE WatermarkInv'
  BY <1>2 DEF WatermarkInv, DownIsEmpty, FlushWriteChunk, OrderedQueue
<1>3. ASSUME FlushIndex \/ FlushNothingLive PROVE WatermarkInv'
  <2>1. /\ flushPC # "idle" /\ flushPC' # "idle" /\ checkpointLSN' = flushing.lsn
        /\ UNCHANGED <<phase, frozen, flushing, lsn, jlsn, writer, flushImg, compactImg, diskMeta>>
    BY <1>3 DEF FlushIndex, FlushNothingLive, TableLSN
  <2>2. phase # "down"
    BY <2>1 DEF WatermarkInv, DownIsEmpty
  <2>3. checkpointLSN <= checkpointLSN'
    BY <2>1 DEF WatermarkInv
  <2>4. /\ diskMeta.lsn <= checkpointLSN' /\ flushImg.meta.lsn <= checkpointLSN'
        /\ compactImg.meta.lsn <= checkpointLSN' /\ checkpointLSN' <= flushing.lsn
    <3>1. /\ diskMeta.lsn <= checkpointLSN /\ flushImg.meta.lsn <= checkpointLSN
          /\ compactImg.meta.lsn <= checkpointLSN
      BY <2>2 DEF WatermarkInv
    <3>2. QED
      BY <2>1, <2>3, <3>1, LSNTypes
  <2>5. OrderedQueue(frozen', checkpointLSN', lsn') /\ OrderedQueue(frozen', flushing'.lsn, lsn')
    BY <2>1 DEF WatermarkInv
  <2>6. checkpointLSN' <= lsn' /\ flushing'.lsn <= lsn'
    BY <2>1 DEF WatermarkInv
  <2>7. QED
    BY <2>1, <2>2, <2>4, <2>5, <2>6 DEF WatermarkInv, DownIsEmpty
<1>4. ASSUME FlushImageIndex PROVE WatermarkInv'
  <2>1. flushImg'.meta = flushImg.meta
    BY <1>4 DEF FlushImageIndex, TypeInv, TypeOK, Images
  <2>2. QED
    BY <1>4, <2>1 DEF WatermarkInv, DownIsEmpty, FlushImageIndex, OrderedQueue
<1>5. ASSUME FlushPersistIndex PROVE WatermarkInv'
  <2>1. flushImg'.meta.lsn <= checkpointLSN
    <3>1. flushImg' = NoImage
      BY <1>5 DEF FlushPersistIndex
    <3>2. QED
      BY <3>1, EmptyWatermarks, LSNTypes
  <2>2. QED
    BY <1>5, <2>1 DEF WatermarkInv, DownIsEmpty, FlushPersistIndex, OrderedQueue
<1>6. ASSUME FlushImageMeta PROVE WatermarkInv'
  <2>1. flushImg'.meta.lsn = checkpointLSN
    BY <1>6 DEF FlushImageMeta, TypeInv, TypeOK, Images, MetaNow
  <2>2. flushImg'.meta.lsn <= checkpointLSN
    BY <2>1, WatermarkTypes
  <2>3. QED
    BY <1>6, <2>2 DEF WatermarkInv, DownIsEmpty, FlushImageMeta, OrderedQueue
<1>7. ASSUME FlushPersistMeta PROVE WatermarkInv'
  <2>1. flushImg'.meta.lsn <= checkpointLSN
    <3>1. flushImg' = NoImage
      BY <1>7 DEF FlushPersistMeta
    <3>2. QED
      BY <3>1, EmptyWatermarks, LSNTypes
  <2>2. diskMeta'.lsn <= checkpointLSN
    BY <1>7 DEF FlushPersistMeta, WatermarkInv
  <2>3. QED
    BY <1>7, <2>1, <2>2 DEF WatermarkInv, DownIsEmpty, FlushPersistMeta, OrderedQueue
<1>8. ASSUME FlushCheckpoint PROVE WatermarkInv'
  BY <1>8 DEF WatermarkInv, DownIsEmpty, FlushCheckpoint, OrderedQueue
<1>9. ASSUME FlushDone PROVE WatermarkInv'
  <2>1. flushing'.lsn = 0
    BY <1>9 DEF FlushDone, NoTable
  <2>2. OrderedQueue(frozen', flushing'.lsn, lsn')
    BY <1>9, <2>1, QueueFromZero DEF FlushDone
  <2>3. flushing'.lsn <= lsn'
    <3>1. lsn' = lsn
      BY <1>9 DEF FlushDone
    <3>2. QED
      BY <2>1, <3>1, LSNTypes
  <2>4. QED
    BY <1>9, <2>2, <2>3 DEF WatermarkInv, DownIsEmpty, FlushDone, OrderedQueue
<1>10. ASSUME FlushWriteFails \/ FlushPersistFails PROVE WatermarkInv'
  <2>1. /\ flushPC # "idle" /\ flushPC' = "idle" /\ flushing' = NoTable /\ flushImg' = NoImage
        /\ frozen' = frozen \/ frozen' = <<flushing>> \o frozen
        /\ UNCHANGED <<phase, lsn, checkpointLSN, jlsn, writer, compactImg, diskMeta>>
    BY <1>10 DEF FlushWriteFails, FlushPersistFails, FlushFailed, Requeued
  <2>2. phase # "down"
    BY <2>1 DEF WatermarkInv, DownIsEmpty
  <2>3. flushing'.lsn = 0 /\ flushImg'.meta.lsn = 0
    BY <2>1 DEF NoTable, NoImage, NoMeta
  <2>4. ASSUME NEW lo \in Nat, lo <= flushing.lsn, OrderedQueue(frozen, lo, lsn)
        PROVE  OrderedQueue(frozen', lo, lsn)
    <3>1. /\ flushing \in Tables /\ frozen \in Seq(Tables) /\ lsn \in Nat
          /\ OrderedQueue(frozen, flushing.lsn, lsn) /\ flushing.lsn <= lsn
      BY WatermarkTypes DEF WatermarkInv, TypeInv, TypeOK
    <3>2. OrderedQueue(<<flushing>> \o frozen, lo, lsn)
      BY <2>4, <3>1, RequeueOrdered
    <3>3. QED
      BY <2>1, <2>4, <3>2
  <2>5. OrderedQueue(frozen, 0, lsn)
    BY QueueFromZero
  <2>6. OrderedQueue(frozen', 0, lsn) /\ OrderedQueue(frozen', checkpointLSN, lsn)
    <3>1. checkpointLSN <= flushing.lsn /\ OrderedQueue(frozen, checkpointLSN, lsn)
      BY <2>1 DEF WatermarkInv
    <3>2. 0 <= flushing.lsn /\ 0 \in Nat /\ checkpointLSN \in Nat
      BY LSNTypes
    <3>3. QED
      BY <2>4, <2>5, <3>1, <3>2
  <2>7. flushing'.lsn <= lsn /\ flushImg'.meta.lsn <= checkpointLSN
    BY <2>3, WatermarkTypes
  <2>8. QED
    BY <2>1, <2>2, <2>3, <2>6, <2>7 DEF WatermarkInv, DownIsEmpty
<1>11. QED
  BY <1>1, <1>2, <1>3, <1>4, <1>5, <1>6, <1>7, <1>8, <1>9, <1>10 DEF FlushWorker

\* The steps of Compact and RebuildIndex keep the watermarks in order: the
\* store.meta image they write was taken at an older checkpoint, never a newer one.
LEMMA MaintenanceWatermark == ASSUME TypeInv, WatermarkInv, Maintenance PROVE WatermarkInv'
<1>1. ASSUME NEW next \in {"flush", "rebuildFlush"}, MaintenanceStart(next) PROVE WatermarkInv'
  BY <1>1, FreezeWatermark DEF MaintenanceStart
<1>2. ASSUME CompactFlushed \/ CompactVictims \/ CompactSnapshot PROVE WatermarkInv'
  BY <1>2 DEF WatermarkInv, DownIsEmpty, OrderedQueue, CompactFlushed, CompactVictims,
     CompactSnapshot
<1>3. ASSUME CompactWrite \/ CompactSwap \/ CompactRetire PROVE WatermarkInv'
  BY <1>3 DEF WatermarkInv, DownIsEmpty, OrderedQueue, CompactWrite, CompactSwap, CompactRetire
<1>4. ASSUME CompactScansDrained \/ RebuildIndex \/ \E s \in Seqs : CompactRemove(s)
      PROVE  WatermarkInv'
  BY ZenonT(60), <1>4 DEF WatermarkInv, DownIsEmpty, OrderedQueue, CompactScansDrained, RebuildIndex,
     CompactRemove
<1>5. ASSUME CompactImageIndex PROVE WatermarkInv'
  <2>1. compactImg'.meta = compactImg.meta
    BY <1>5 DEF CompactImageIndex, TypeInv, TypeOK, Images
  <2>2. QED
    BY <1>5, <2>1 DEF WatermarkInv, DownIsEmpty, CompactImageIndex, OrderedQueue
<1>6. ASSUME CompactPersistIndex PROVE WatermarkInv'
  <2>1. compactImg'.meta.lsn <= checkpointLSN
    <3>1. compactImg' = NoImage
      BY <1>6 DEF CompactPersistIndex
    <3>2. QED
      BY <3>1, EmptyWatermarks, LSNTypes
  <2>2. QED
    BY <1>6, <2>1 DEF WatermarkInv, DownIsEmpty, CompactPersistIndex, OrderedQueue
<1>7. ASSUME CompactImageMeta PROVE WatermarkInv'
  <2>1. compactImg'.meta.lsn = checkpointLSN
    BY <1>7 DEF CompactImageMeta, TypeInv, TypeOK, Images, MetaNow
  <2>2. compactImg'.meta.lsn <= checkpointLSN
    BY <2>1, WatermarkTypes
  <2>3. QED
    BY <1>7, <2>2 DEF WatermarkInv, DownIsEmpty, CompactImageMeta, OrderedQueue
<1>8. ASSUME CompactPersistMeta PROVE WatermarkInv'
  <2>1. compactImg'.meta.lsn <= checkpointLSN
    <3>1. compactImg' = NoImage
      BY <1>8 DEF CompactPersistMeta
    <3>2. QED
      BY <3>1, EmptyWatermarks, LSNTypes
  <2>2. diskMeta'.lsn <= checkpointLSN
    BY <1>8 DEF CompactPersistMeta, WatermarkInv
  <2>3. QED
    BY <1>8, <2>1, <2>2 DEF WatermarkInv, DownIsEmpty, CompactPersistMeta, OrderedQueue
<1>9. QED
  BY <1>1, <1>2, <1>3, <1>4, <1>5, <1>6, <1>7, <1>8
     DEF Maintenance, CompactStart, RebuildIndexStart

\* Iterate touches no watermark.
LEMMA ScanWatermark == ASSUME TypeInv, WatermarkInv, Scan PROVE WatermarkInv'
  BY DEF Scan, ScanStart, ScanSnapshot, ScanEnd, WatermarkInv, DownIsEmpty, OrderedQueue

\* Close, a crash and Open: the recovered LSN is not below the durable checkpoint.
LEMMA LifecycleWatermark == ASSUME TypeInv, WatermarkInv, Lifecycle PROVE WatermarkInv'
<1>1. ASSUME CloseBegin PROVE WatermarkInv'
  BY <1>1 DEF WatermarkInv, DownIsEmpty, CloseBegin, OrderedQueue
<1>2. ASSUME CloseFreeze PROVE WatermarkInv'
  BY <1>2, FreezeWatermark DEF CloseFreeze
<1>3. ASSUME MemoryLost PROVE WatermarkInv'
  <2>1. /\ flushing'.lsn = 0 /\ writer'.lsn = 0 /\ flushImg'.meta.lsn = 0
        /\ compactImg'.meta.lsn = 0 /\ lsn' = 0 /\ checkpointLSN' = 0 /\ jlsn' = 0
    BY <1>3 DEF MemoryLost, NoTable, NoWriter, NoImage, NoMeta
  <2>2. DOMAIN frozen' = {}
    BY <1>3 DEF MemoryLost
  <2>3. QED
    <3>1. DownIsEmpty' /\ phase' = "down" /\ flushPC' = "idle"
      BY Zenon, <1>3 DEF DownIsEmpty, MemoryLost
    <3>2. OrderedQueue(frozen', checkpointLSN', lsn') /\ OrderedQueue(frozen', flushing'.lsn, lsn')
      BY <2>2 DEF OrderedQueue
    <3>3. /\ flushing'.lsn <= lsn' /\ checkpointLSN' <= lsn' /\ lsn' <= jlsn'
          /\ flushImg'.meta.lsn <= checkpointLSN' /\ compactImg'.meta.lsn <= checkpointLSN'
          /\ writer'.lsn <= jlsn'
      BY <2>1
    <3>4. QED
      BY <3>1, <3>2, <3>3 DEF WatermarkInv
<1>4. ASSUME Open PROVE WatermarkInv'
  <2>1. /\ frozen = <<>> /\ flushing = NoTable /\ writer = NoWriter /\ flushPC = "idle"
        /\ flushImg = NoImage /\ compactImg = NoImage
    BY <1>4 DEF Open, WatermarkInv, DownIsEmpty
  <2>2. /\ flushing'.lsn = 0 /\ writer'.lsn = 0 /\ flushImg'.meta.lsn = 0
        /\ compactImg'.meta.lsn = 0 /\ DOMAIN frozen' = {} /\ flushPC' = "idle"
    <3>1. UNCHANGED <<frozen, flushing, writer, flushPC, flushImg, compactImg>>
      BY <1>4 DEF Open
    <3>2. DOMAIN <<>> = {}
      OBVIOUS
    <3>3. QED
      BY <2>1, <3>1, <3>2, EmptyWatermarks
  <2>3. LastOnDisk \in Nat
    <3>1. {l \in LSNs : wal[l] # NoRecord} \in SUBSET (1 .. MaxLSN)
      BY DEF LSNs
    <3>2. QED
      BY <3>1, NewestType, BoundsAssumption DEF LastOnDisk
  <2>4. RecoveredLSN \in Nat /\ diskMeta.lsn <= RecoveredLSN
    BY <2>3, WatermarkTypes DEF RecoveredLSN
  <2>5. /\ checkpointLSN' = diskMeta.lsn /\ lsn' = RecoveredLSN /\ jlsn' = RecoveredLSN
        /\ diskMeta' = diskMeta /\ phase' = "open"
    BY <1>4 DEF Open
  <2>6. QED
    <3>1. OrderedQueue(frozen', checkpointLSN', lsn') /\ OrderedQueue(frozen', flushing'.lsn, lsn')
      BY <2>2 DEF OrderedQueue
    <3>2. /\ diskMeta'.lsn <= checkpointLSN' /\ checkpointLSN' <= lsn' /\ lsn' <= jlsn'
          /\ 0 <= lsn' /\ 0 <= checkpointLSN' /\ 0 <= jlsn'
      BY <2>4, <2>5, LSNTypes
    <3>3. DownIsEmpty'
      BY <2>5 DEF DownIsEmpty
    <3>4. QED
      BY <2>2, <3>1, <3>2, <3>3 DEF WatermarkInv
<1>5. QED
  BY <1>1, <1>2, <1>3, <1>4 DEF Lifecycle, CloseDone, Crash

-----------------------------------------------------------------------------
\* The watermark invariant holds initially.
LEMMA InitWatermark == Init => WatermarkInv
<1> SUFFICES ASSUME Init PROVE WatermarkInv
  OBVIOUS
<1>1. /\ flushing.lsn = 0 /\ writer.lsn = 0 /\ flushImg.meta.lsn = 0 /\ compactImg.meta.lsn = 0
      /\ diskMeta.lsn = 0 /\ DOMAIN frozen = {}
  <2>1. /\ flushing = NoTable /\ writer = NoWriter /\ flushImg = NoImage
        /\ compactImg = NoImage /\ diskMeta = NoMeta /\ frozen = <<>>
    BY DEF Init
  <2>2. DOMAIN <<>> = {}
    OBVIOUS
  <2>3. QED
    BY <2>1, <2>2, EmptyWatermarks
<1>2. /\ phase = "open" /\ flushPC = "idle" /\ lsn = 0 /\ checkpointLSN = 0 /\ jlsn = 0
  BY DEF Init
<1>3. OrderedQueue(frozen, checkpointLSN, lsn) /\ OrderedQueue(frozen, flushing.lsn, lsn)
  BY <1>1 DEF OrderedQueue
<1>4. /\ diskMeta.lsn <= checkpointLSN /\ flushing.lsn <= lsn /\ checkpointLSN <= lsn
      /\ lsn <= jlsn /\ flushImg.meta.lsn <= checkpointLSN
      /\ compactImg.meta.lsn <= checkpointLSN /\ writer.lsn <= jlsn
  BY <1>1, <1>2
<1>5. QED
  BY <1>2, <1>3, <1>4 DEF WatermarkInv, DownIsEmpty

\* The inductive form gives the ordering itself.
LEMMA WatermarkInvOrders == WatermarkInv => WatermarksOrdered
  BY DEF WatermarkInv, WatermarksOrdered, OrderedQueue

\* Every step keeps the watermark invariant.
LEMMA NextWatermark == TypeInv /\ WatermarkInv /\ [Next]_vars => WatermarkInv'
<1>1. ASSUME TypeInv, WatermarkInv, Next PROVE WatermarkInv'
  BY <1>1, WriteWatermark, CallsWatermark, FlushWatermark, MaintenanceWatermark, ScanWatermark,
     LifecycleWatermark DEF Next
<1>2. ASSUME WatermarkInv, UNCHANGED vars PROVE WatermarkInv'
  BY <1>2 DEF vars, WatermarkInv, DownIsEmpty, OrderedQueue
<1>3. QED
  BY <1>1, <1>2

\* WatermarkInv always holds.
THEOREM WatermarkInvHolds == Spec => []WatermarkInv
  BY InitWatermark, NextWatermark, TypeInvHolds, PTL DEF Spec

\* In every reachable state the durable checkpoint, the checkpoint, the tables in
\* the order of their age, the applied records and the journal have watermarks in
\* this order: a table that a failed flush put back, a freeze between the append
\* and the apply of a write, a maintenance call or a restart never reorders them.
THEOREM WatermarksAlwaysOrdered == Spec => []WatermarksOrdered
  BY WatermarkInvHolds, WatermarkInvOrders, PTL

=============================================================================
