------------------------------ MODULE Journal ------------------------------
(***************************************************************************)
(* The segmented write-ahead log of engine/store/wal.go: append, roll,     *)
(* checkpoint, crash, and the replay that openJournal performs.            *)
(*                                                                         *)
(* A record is the LSN Append assigned to it; a replay numbers records by  *)
(* their position instead, and the two must agree.  j.mu is held from the  *)
(* moment an action leaves step "idle" until it is back there, or is       *)
(* "stuck", so only the removal of files (outside the lock) and a crash    *)
(* interleave.                                                             *)
(***************************************************************************)
EXTENDS Integers, Sequences, FiniteSets

LOCAL INSTANCE Functions

CONSTANTS
  Checkpointers,   \* callers of Checkpoint: the flush worker, CheckpointWAL
  SegmentRecords,  \* segmentMax, in records
  MaxBatch,        \* bound: records of one Append
  MaxLSN,          \* bound: LSNs ever assigned
  MaxSegs,         \* bound: segments ever created
  MaxCrashes,      \* bound: process deaths
  MaxFaults        \* bound: failing file operations

ASSUME JournalAssumption ==
  /\ SegmentRecords \in Nat \ {0} /\ MaxBatch \in Nat \ {0}
  /\ MaxLSN \in Nat /\ MaxSegs \in Nat /\ MaxCrashes \in Nat /\ MaxFaults \in Nat

VARIABLES
  status,    \* up, down, opening (openJournal rolls), or failed: a replay was refused
  step,      \* idle, or inside createSegment: roll (no file yet), header; stuck: no
             \* segment is open for writing after a failure
  lsn,       \* journal.lsn
  segSeq,    \* journal.segSeq
  segEnd,    \* journal.segEnd
  active,    \* journal.activeBytes, in records
  toRemove,  \* files each checkpointer has still to remove
  segs,      \* segment files: header present, base LSN, records
  ckpt,      \* checkpoint LSN in the owner's store.meta
  acked,     \* last LSN the owner has accepted: returned by Append or replayed
  used       \* crashes and faults so far, the failures this process has met, and the
             \* harm that was done (Harms)

jvars == <<status, step, lsn, segSeq, segEnd, active, toRemove, segs, ckpt, acked, used>>

\* What a process meets and goes on with: a batch of which the file misses a
\* part, a batch whose fsync failed, a file that could not be removed.
Failures == {"short", "unsynced", "orphan"}
\* What this can come to: a segment file without its header, a write behind a
\* batch cut short, and the removal of a file behind one that stayed.
Harms == {"torn", "buried", "gap"}

SegIds == 1 .. MaxSegs
LSNs == 0 .. MaxLSN
\* A partly written record.
Garbage == 0
NoSeg == [file |-> FALSE, header |-> FALSE, base |-> 0, recs |-> <<>>]
NewSeg == [NoSeg EXCEPT !.file = TRUE]
OnDisk == {s \in SegIds : segs[s].file}
\* Mutant of firstSeq: off by one.
firstSeqEarly == segSeq - Len(segEnd)
\* The newest tracked segment is segSeq, so the oldest follows from the count.
firstSeq == segSeq + 1 - Len(segEnd)

-----------------------------------------------------------------------------
(* Append and roll.                                                        *)

\* What a write leaves: n whole records, and part of the next one when torn.
Written(n, torn) ==
  [i \in 1 .. n |-> lsn + i] \o (IF torn THEN <<Garbage>> ELSE <<>>)
WithRecords(n, torn) == [segs EXCEPT ![segSeq].recs = @ \o Written(n, torn)]
\* The ways a write of n records can stop short.
Cuts(n) == {<<whole, torn>> \in (0 .. n) \X BOOLEAN : whole = n => ~torn}

\* The history after a fault that the process meets and goes on with.
Faulted(failures, harms) ==
  [used EXCEPT !.faults = @ + 1, !.met = @ \cup failures, !.harm = @ \cup harms]
\* A write behind a batch that is only partly in the file.
Buries == IF "short" \in used.met THEN {"buried"} ELSE {}

\* Append: one write, one fsync; the segment's end moves; a full one rolls, and
\* only then Append returns.
JournalAppend(n) ==
  /\ status = "up" /\ step = "idle"
  /\ lsn + n <= MaxLSN
  /\ segs' = WithRecords(n, FALSE)
  /\ lsn' = lsn + n
  /\ segEnd' = [segEnd EXCEPT ![Len(segEnd)] = lsn + n]
  /\ active' = active + n
  /\ step' = IF active' >= SegmentRecords THEN "roll" ELSE "idle"
  /\ acked' = IF step' = "roll" THEN acked ELSE lsn + n
  /\ used' = [used EXCEPT !.harm = @ \cup Buries]
  /\ UNCHANGED <<status, segSeq, toRemove, ckpt>>

\* A write or fsync error: j.lsn already moved, the file keeps what arrived, and
\* the bookkeeping does not count it.
AppendFails(n, cut) ==
  /\ status = "up" /\ step = "idle"
  /\ used.faults < MaxFaults
  /\ lsn + n <= MaxLSN
  /\ segs' = WithRecords(cut[1], cut[2])
  /\ lsn' = lsn + n
  /\ used' = Faulted({IF cut[1] < n THEN "short" ELSE "unsynced"}, Buries)
  /\ UNCHANGED <<status, step, segSeq, segEnd, active, toRemove, ckpt, acked>>

\* The file is closed, or there is none: the write fails, and j.lsn moved.
AppendRefused(n) ==
  /\ status = "up" /\ step = "stuck"
  /\ lsn + n <= MaxLSN
  /\ lsn' = lsn + n
  /\ UNCHANGED <<status, step, segSeq, segEnd, active, toRemove, segs, ckpt, acked, used>>

\* createSegment: the file appears ...
CreateFile ==
  /\ step = "roll"
  /\ segSeq < MaxSegs
  /\ segs' = [segs EXCEPT ![segSeq + 1] = NewSeg]
  /\ step' = "header"
  /\ UNCHANGED <<status, lsn, segSeq, segEnd, active, toRemove, ckpt, acked, used>>

\* ... then its header, with the current LSN as base, is written and synced, and
\* the journal adopts it; the Append or openJournal that rolled returns.
WriteHeader ==
  /\ step = "header"
  /\ segs' = [segs EXCEPT ![segSeq + 1].header = TRUE, ![segSeq + 1].base = lsn]
  /\ segSeq' = segSeq + 1
  /\ segEnd' = Append(segEnd, lsn)
  /\ active' = 0
  /\ step' = "idle" /\ status' = "up"
  /\ acked' = lsn
  /\ UNCHANGED <<lsn, toRemove, ckpt, used>>

\* A roll fails and the journal is left at the step given.  The openJournal that
\* rolled returns the error and can be called again; a Checkpoint returns before
\* it removes a file.
RollFails(left, harms) ==
  /\ used.faults < MaxFaults
  /\ used' = Faulted({}, harms)
  /\ IF status = "opening"
     THEN status' = "down" /\ step' = "idle" /\ lsn' = 0 /\ segSeq' = 0 /\ segEnd' = <<>>
          /\ active' = 0
     ELSE step' = left /\ UNCHANGED <<status, lsn, segSeq, segEnd, active>>
  /\ toRemove' = [p \in Checkpointers |->
                    IF segSeq \in Range(toRemove[p]) THEN <<>> ELSE toRemove[p]]
  /\ UNCHANGED <<ckpt, acked>>

\* rollLocked: the old segment cannot be synced and stays open; or it cannot be
\* closed, or the new file cannot be created, and it is closed.
CreateFails ==
  /\ step = "roll"
  /\ \E left \in {"idle", "stuck"} :
       /\ left = "idle" => segEnd # <<>>
       /\ RollFails(left, {})
  /\ UNCHANGED segs

\* The header is not written, or written and not synced.
HeaderFails(written) ==
  /\ step = "header"
  /\ segs' = [segs EXCEPT ![segSeq + 1].header = written,
                          ![segSeq + 1].base = IF written THEN lsn ELSE 0]
  /\ RollFails("stuck", IF written THEN {} ELSE {"torn"})

-----------------------------------------------------------------------------
(* Checkpoint.                                                             *)

\* The owner persists a later checkpoint, covering records it has accepted.
PersistCheckpoint(l) ==
  /\ status = "up"
  /\ ckpt < l /\ l <= acked
  /\ ckpt' = l
  /\ UNCHANGED <<status, step, lsn, segSeq, segEnd, active, toRemove, segs, acked, used>>

\* Mutant of Removable: off by one.
RemovableOneMore(target) ==
  {i \in 1 .. Len(segEnd) - 1 : \A j \in 1 .. i : segEnd[j] <= target + 1}
\* Closed segments, oldest first, that end at or below the target.
Removable(target) ==
  {i \in 1 .. Len(segEnd) - 1 : \A j \in 1 .. i : segEnd[j] <= target}

\* Mutant of RemovalOrder: newest file first.
RemovalReversed(count) == [i \in 1 .. count |-> firstSeq + count - i]
RemovalOrder(count) == [i \in 1 .. count |-> firstSeq + i - 1]

\* Checkpoint, the part under j.mu.  When the target covers everything the
\* active segment goes too and a successor is created first.
Checkpoint(p) ==
  /\ status = "up"
  /\ toRemove[p] = <<>>
  /\ LET all == ckpt >= lsn
         count == IF all THEN Len(segEnd) ELSE Cardinality(Removable(ckpt))
     IN /\ IF all THEN step = "idle" ELSE step \in {"idle", "stuck"} /\ count > 0
        /\ toRemove' = [toRemove EXCEPT ![p] = RemovalOrder(count)]
        /\ segEnd' = SubSeq(segEnd, count + 1, Len(segEnd))
        /\ step' = IF all THEN "roll" ELSE step
  /\ UNCHANGED <<status, lsn, segSeq, active, segs, ckpt, acked, used>>

\* The active segment cannot be closed; nothing is removed.
CheckpointFails ==
  /\ status = "up" /\ step = "idle" /\ ckpt >= lsn
  /\ used.faults < MaxFaults
  /\ step' = "stuck" /\ used' = Faulted({}, {})
  /\ UNCHANGED <<status, lsn, segSeq, segEnd, active, toRemove, segs, ckpt, acked>>

\* os.Remove of the next file, after the Checkpoint has released j.mu.
RemoveFile(p) ==
  /\ toRemove[p] # <<>> /\ segSeq \notin Range(toRemove[p])
  /\ segs' = [segs EXCEPT ![Head(toRemove[p])] = NoSeg]
  /\ toRemove' = [toRemove EXCEPT ![p] = Tail(@)]
  /\ used' = [used EXCEPT !.harm = @ \cup IF "orphan" \in used.met THEN {"gap"} ELSE {}]
  /\ UNCHANGED <<status, step, lsn, segSeq, segEnd, active, ckpt, acked>>

\* os.Remove fails: the rest of the list is given up.
RemoveFails(p) ==
  /\ toRemove[p] # <<>> /\ segSeq \notin Range(toRemove[p])
  /\ used.faults < MaxFaults
  /\ toRemove' = [toRemove EXCEPT ![p] = <<>>]
  /\ used' = Faulted({"orphan"}, {})
  /\ UNCHANGED <<status, step, lsn, segSeq, segEnd, active, segs, ckpt, acked>>

-----------------------------------------------------------------------------
(* Crash and openJournal.                                                  *)

\* The process is gone, and its failures with it.
Gone ==
  /\ status' = "down" /\ step' = "idle" /\ lsn' = 0 /\ segSeq' = 0 /\ segEnd' = <<>>
  /\ active' = 0
  /\ toRemove' = [p \in Checkpointers |-> <<>>]
  /\ UNCHANGED <<ckpt, acked>>

Died(disk, harms) ==
  /\ status \in {"up", "opening"}
  /\ used.crashes < MaxCrashes
  /\ used' = [used EXCEPT !.crashes = @ + 1, !.met = {},
                          !.harm = @ \cup harms]
  /\ segs' = disk
  /\ Gone

Crash == Died(segs, IF step = "header" THEN {"torn"} ELSE {})

\* The process dies inside the write of an Append.
CrashInAppend(n, cut) ==
  /\ status = "up" /\ step = "idle"
  /\ lsn + n <= MaxLSN
  /\ Died(WithRecords(cut[1], cut[2]), Buries)

\* Close, after the checkpointers have returned: the files stay as they are.
Close ==
  /\ status = "up" /\ step \in {"idle", "stuck"}
  /\ \A p \in Checkpointers : toRemove[p] = <<>>
  /\ used' = [used EXCEPT !.met = {}]
  /\ Gone
  /\ UNCHANGED segs

\* replaySegment reads up to the first garbage.
Whole(s) == {i \in DOMAIN segs[s].recs : \A j \in 1 .. i : segs[s].recs[j] # Garbage}
\* Mutant of EndLSN: counts one record too many.
EndLSNPlusOne(s) == segs[s].base + Cardinality(Whole(s)) + 1
EndLSN(s) == segs[s].base + Cardinality(Whole(s))
Newest(S) == CHOOSE s \in S : \A t \in S : t <= s
Before(s) == {t \in OnDisk : t < s}
Nth(i) == CHOOSE s \in OnDisk : Cardinality(Before(s)) = i - 1

\* listSegments and replay reject a file with records and no header, garbage
\* outside the last segment, and a base that does not continue its predecessor.
Replayable ==
  \A s \in OnDisk :
    /\ segs[s].recs # <<>> => segs[s].header
    /\ s # Newest(OnDisk) => Cardinality(Whole(s)) = Len(segs[s].recs)
    /\ Before(s) # {} => LET end == EndLSN(Newest(Before(s)))
                         IN end = 0 \/ segs[s].base = end

\* What replay delivers: the LSN it assigns, and the one the record was given.
Delivered == {<<segs[s].base + i, segs[s].recs[i]>> :
                <<s, i>> \in {<<t, j>> \in OnDisk \X LSNs : j \in Whole(t)}}

\* openJournal: replay, cut a corrupt tail, adopt the last segment; the counter
\* never starts below the checkpoint.  A full or missing last segment rolls before
\* it returns.  The owner applies what is delivered, so it counts as accepted.
Open ==
  /\ status = "down"
  /\ LET last == Newest(OnDisk)
         ends == {EndLSN(s) : s \in OnDisk} \cup {ckpt}
         count == Cardinality(OnDisk)
     IN IF ~Replayable THEN UNCHANGED <<step, lsn, segSeq, segEnd, active, segs, acked>>
        ELSE /\ lsn' = Newest(ends)
             /\ acked' = lsn'
             /\ IF OnDisk = {}
                THEN UNCHANGED <<segs, segSeq, segEnd, active>> /\ step' = "roll"
                ELSE /\ segs' = [segs EXCEPT ![last].recs =
                                   SubSeq(@, 1, Cardinality(Whole(last)))]
                     /\ segSeq' = last
                     /\ segEnd' = [i \in 1 .. count |->
                                     IF i = count THEN lsn' ELSE EndLSN(Nth(i))]
                     /\ active' = Cardinality(Whole(last))
                     /\ step' = IF active' >= SegmentRecords THEN "roll" ELSE "idle"
  /\ status' = IF ~Replayable THEN "failed" ELSE IF step' = "roll" THEN "opening" ELSE "up"
  /\ UNCHANGED <<toRemove, ckpt, used>>

-----------------------------------------------------------------------------
Init ==
  /\ status = "down" /\ step = "idle" /\ lsn = 0 /\ segSeq = 0 /\ segEnd = <<>>
  /\ active = 0
  /\ toRemove = [p \in Checkpointers |-> <<>>]
  /\ segs = [s \in SegIds |-> NoSeg]
  /\ ckpt = 0 /\ acked = 0
  /\ used = [crashes |-> 0, faults |-> 0, met |-> {}, harm |-> {}]

Next ==
  \/ \E n \in 1 .. MaxBatch :
       \/ JournalAppend(n) \/ AppendRefused(n)
       \/ \E cut \in Cuts(n) : AppendFails(n, cut) \/ CrashInAppend(n, cut)
  \/ CreateFile \/ CreateFails \/ WriteHeader
  \/ \E written \in BOOLEAN : HeaderFails(written)
  \/ \E l \in LSNs : PersistCheckpoint(l)
  \/ \E p \in Checkpointers : Checkpoint(p) \/ RemoveFile(p) \/ RemoveFails(p)
  \/ CheckpointFails \/ Close \/ Crash \/ Open

Spec == Init /\ [][Next]_jvars

-----------------------------------------------------------------------------
(* Properties.                                                             *)

\* Type invariant.
TypeOK ==
  /\ status \in {"up", "down", "opening", "failed"}
  /\ step \in {"idle", "roll", "header", "stuck"}
  /\ lsn \in LSNs /\ ckpt \in LSNs /\ acked \in LSNs
  /\ segSeq \in 0 .. MaxSegs
  /\ segEnd \in Seq(LSNs) /\ active \in Nat
  /\ toRemove \in [Checkpointers -> Seq(SegIds)]
  /\ segs \in [SegIds -> [file : BOOLEAN, header : BOOLEAN, base : LSNs, recs : Seq(LSNs)]]
  /\ used \in [crashes : 0 .. MaxCrashes, faults : 0 .. MaxFaults,
              met : SUBSET Failures, harm : SUBSET Harms]

\* Whatever failed, it has not come to one of the harms.
Untroubled == used.harm = {}

\* A replay that started now would deliver every record an Append acknowledged
\* and the checkpoint does not cover, under the LSN Append returned: after
\* crashes, failing writes, fsyncs, rolls and removals, until a harm is done.
AckedReplayed ==
  Untroubled => \A l \in 1 .. acked : l > ckpt => <<l, l>> \in Delivered

\* openJournal accepts whatever a crash or a failure leaves, whichever files a
\* checkpoint had already removed, until a harm is done.
ReopensUntroubled == Untroubled => status # "failed"

\* The same without the condition: what the code says of a segment whose
\* creation was interrupted.
AlwaysReopens == status # "failed"

\* engine/store/wal.go: "a journal-acknowledged write survives a crash even
\* before its chunk is flushed (replay re-applies it)".  What is acknowledged
\* behind a batch cut short does not: TLC refutes this (README, section 6).
AckedSurvives == \A l \in 1 .. acked : l > ckpt => <<l, l>> \in Delivered

\* The journal's bookkeeping describes the files: every tracked segment exists
\* and ends where segEnd says (the active one when its last append succeeded),
\* so a checkpoint removes the files it means to.
SegEndMatchesFiles ==
  status = "up" /\ step \in {"idle", "stuck"} /\ Untroubled =>
    \A i \in DOMAIN segEnd :
      LET s == firstSeq + i - 1
      IN /\ s \in OnDisk /\ segs[s].header
         /\ \/ EndLSN(s) = segEnd[i] \/ (segs[s].recs = <<>> /\ EndLSN(s) <= segEnd[i])
            \/ i = Len(segEnd) /\ used.met \cap {"short", "unsynced"} # {}

\* The LSNs of the records a replay that started now would deliver.
Replayed == {d[2] : d \in Delivered}

Log == INSTANCE RecordLog WITH
  stored <- IF Untroubled THEN Replayed ELSE {},
  top    <- IF Untroubled THEN Newest(Replayed \cup {ckpt}) ELSE 0,
  ckpt   <- IF Untroubled THEN ckpt ELSE 0,
  sound  <- Untroubled

\* The journal implements RecordLog: every step of Append, Checkpoint, Close, a crash or an
\* Open is one step of the log or none.
ImplementsLog == Log!LogSpec

=============================================================================
