------------------------------- MODULE Upgrade -------------------------------
(***************************************************************************)
(* The two format upgrades of the record store.  openJournal carries the   *)
(* records of a version 1 journal.log into the segmented log               *)
(* (store/wal.go, migrateLegacyLog); MigrateFromJSON imports a legacy JSON *)
(* database into the open store (store/migrate.go).  The process may die   *)
(* between any two steps, and on Windows the legacy journal may be locked  *)
(* by another program, which makes its removal fail.                       *)
(*                                                                         *)
(* The store is the newest value of each key: in memory, and in what the   *)
(* journal and the chunks would give back after a restart.                 *)
(***************************************************************************)
EXTENDS Integers, Sequences, FiniteSets

CONSTANTS Keys,       \* fingerprints; the legacy journal holds one record for each
          BatchSize,  \* migrationBatchSize
          MaxEntries, \* entries of the legacy database
          MaxBoots,
          MaxWrites

VARIABLES boot,     \* "down", then the steps of openJournal, then "up"
          log,      \* journal.log: "none", "short", "foreign" or "v1"
          origin,   \* the journal.log the installation came with
          mem,      \* the value of each key in the open store
          disk,     \* the value of each key after a restart
          acked,    \* the value an acknowledged write left; Unset before the first
          json,     \* the legacy database: "none", "present" or "migrated"
          entries,  \* its entries, in file order
          step,     \* MigrateFromJSON: "idle", "stage", "flush", "verify", "close"
          pos,      \* the entry the pass is at
          batch,    \* staged and not yet written
          result,   \* the counts MigrateFromJSON returns
          refused,  \* whether the removal of a version 1 journal.log was refused
          boots, writes

vars == <<boot, log, origin, mem, disk, acked, json, entries, step, pos, batch, result,
          refused, boots, writes>>

(* Values: no record, the value of the legacy journal, of the legacy       *)
(* database and of a write of the user.                                    *)
None == 0
FromLog == 1
FromJSON == 2
Written == 3
Unset == -1

(* An entry decodes to a record, has no config, cannot be decoded or has a *)
(* malformed fingerprint, or is where the JSON text breaks off.            *)
Kinds == {"valid", "empty", "invalid", "broken"}
Entry == [key : Keys, kind : Kinds]
NoResult == [migrated |-> 0, skipped |-> 0, verified |-> 0, outcome |-> "none"]

Init ==
  /\ boot = "down" /\ log \in {"none", "short", "foreign", "v1"} /\ origin = log
  /\ mem = [k \in Keys |-> None] /\ disk = mem
  /\ acked = [k \in Keys |-> Unset]
  /\ json \in {"none", "present"}
  /\ entries \in IF json = "none" THEN {<<>>}
                 ELSE UNION {[1..n -> Entry] : n \in 0..MaxEntries}
  /\ step = "idle" /\ pos = 1 /\ batch = <<>> /\ result = NoResult
  /\ refused = FALSE /\ boots = 0 /\ writes = 0

-----------------------------------------------------------------------------
(* Opening the store.                                                      *)

(* The segments are replayed first. *)
Open ==
  /\ boot = "down" /\ boots < MaxBoots
  /\ boots' = boots + 1
  /\ mem' = disk
  /\ boot' = "legacy"
  /\ UNCHANGED <<log, origin, refused, disk, acked, json, entries, step, pos, batch, result, writes>>

(* A mutation of AfterApply: the legacy journal goes before its records    *)
(* are in the new one.                                                     *)
RemovesFirst == "remove"

(* The records are written to the new journal before the old one goes.     *)
AfterApply == "append"

(* migrateLegacyLog: a journal too short for a header is removed, one      *)
(* without the magic is left alone, and the records of a version 1 journal *)
(* are applied up to a torn tail.                                          *)
ReadLegacy ==
  /\ boot = "legacy"
  /\ boot' = CASE log \in {"none", "foreign"} -> "up"
               [] log = "short" -> "remove"
               [] log = "v1" -> AfterApply
  /\ mem' = IF log = "v1" THEN [k \in Keys |-> FromLog] ELSE mem
  /\ UNCHANGED <<log, origin, refused, disk, acked, json, entries, step, pos, batch, result,
                 boots, writes>>

(* One Append, one fsync.  An error fails the open; the journal stays. *)
AppendLegacy ==
  /\ boot = "append"
  /\ \/ disk' = [k \in Keys |-> FromLog] /\ boot' = "remove" /\ UNCHANGED mem
     \/ mem' = [k \in Keys |-> None] /\ boot' = "down" /\ UNCHANGED disk
  /\ UNCHANGED <<log, origin, refused, acked, json, entries, step, pos, batch, result, boots, writes>>

(* The descriptor is closed and the file removed; a failure of either      *)
(* leaves the file and the open goes on.                                   *)
RemoveLegacy ==
  /\ boot = "remove"
  /\ boot' = "up"
  /\ \/ log' = "none" /\ UNCHANGED refused
     \/ log' = log /\ refused' = (refused \/ log = "v1")
  /\ UNCHANGED <<origin, mem, disk, acked, json, entries, step, pos, batch, result,
                 boots, writes>>

-----------------------------------------------------------------------------
(* MigrateFromJSON on the open store, by StorageService.MigrateLegacy: not *)
(* strict, and with a context nobody cancels.                              *)

(* legacyVersion: what the envelope says; 0 stands for any other version,  *)
(* none, or a text that is no JSON object.                                 *)
VersionRead == {0, 1}

(* A missing file is a no-op; another version is refused. *)
Begin ==
  /\ boot = "up" /\ step = "idle" /\ json = "present"
  /\ \E version \in VersionRead :
       IF version = 1
       THEN step' = "stage" /\ pos' = 1 /\ batch' = <<>> /\ result' = NoResult
       ELSE result' = [NoResult EXCEPT !.outcome = "error"]
            /\ UNCHANGED <<step, pos, batch>>
  /\ UNCHANGED <<boot, log, origin, refused, mem, disk, acked, json, entries, boots, writes>>

Fail ==
  /\ step' = "idle" /\ pos' = 1 /\ batch' = <<>>
  /\ result' = [result EXCEPT !.outcome = "error"]

(* The last write of a key wins within a batch. *)
Put(f, keys) == [k \in Keys |-> IF k \in {keys[i] : i \in 1..Len(keys)}
                                THEN FromJSON ELSE f[k]]

(* commitMigrationBatch: one UpsertBatch; its error ends the run. *)
Commit(keys, next) ==
  \/ /\ mem' = Put(mem, keys) /\ disk' = Put(disk, keys) /\ acked' = Put(acked, keys)
     /\ result' = [result EXCEPT !.migrated = @ + Len(keys)]
     /\ batch' = <<>> /\ step' = next
  \/ Fail /\ UNCHANGED <<mem, disk, acked>>

(* legacyPass, the first time: an entry is staged, and a full batch        *)
(* written; the remainder is written at the end of the file.               *)
Stage ==
  /\ step = "stage"
  /\ IF pos > Len(entries)
     THEN /\ pos' = 1
          /\ IF batch = <<>>
             THEN step' = "flush" /\ UNCHANGED <<mem, disk, acked, batch, result>>
             ELSE Commit(batch, "flush")
     ELSE LET e == entries[pos] IN
          CASE e.kind = "broken" -> Fail /\ UNCHANGED <<mem, disk, acked>>
            [] e.kind = "valid" ->
                 LET b == Append(batch, e.key) IN
                 IF Len(b) >= BatchSize
                 THEN /\ Commit(b, "stage")
                      /\ pos' = IF step' = "stage" THEN pos + 1 ELSE 1
                 ELSE batch' = b /\ pos' = pos + 1
                      /\ UNCHANGED <<mem, disk, acked, result, step>>
            [] OTHER -> /\ result' = [result EXCEPT !.skipped =
                                        IF e.kind = "empty" THEN @ + 1 ELSE @]
                        /\ pos' = pos + 1
                        /\ UNCHANGED <<mem, disk, acked, batch, step>>
  /\ UNCHANGED <<boot, log, origin, refused, json, entries, boots, writes>>

FlushAll ==
  /\ step = "flush"
  /\ \/ step' = "verify" /\ pos' = 1 /\ UNCHANGED <<batch, result>>
     \/ Fail
  /\ UNCHANGED <<boot, log, origin, refused, mem, disk, acked, json, entries, boots, writes>>

(* The second pass must have found as many records as the first staged. *)
Whole == result.verified = result.migrated

(* legacyPass, the second time: each record is read back through the       *)
(* store, and the entries without one are counted once more.               *)
VerifyPass ==
  /\ step = "verify"
  /\ IF pos > Len(entries)
     THEN IF Whole THEN step' = "close" /\ UNCHANGED <<pos, batch, result>> ELSE Fail
     ELSE LET e == entries[pos] IN
          IF e.kind = "broken" \/ (e.kind = "valid" /\ mem[e.key] = None)
          THEN Fail
          ELSE /\ pos' = pos + 1
               /\ result' = CASE e.kind = "valid" -> [result EXCEPT !.verified = @ + 1]
                              [] e.kind = "empty" -> [result EXCEPT !.skipped = @ + 1]
                              [] OTHER -> result
               /\ UNCHANGED <<step, batch>>
  /\ UNCHANGED <<boot, log, origin, refused, mem, disk, acked, json, entries, boots, writes>>

(* The descriptor is closed, then the file renamed; either may fail. *)
Rename ==
  /\ step = "close"
  /\ \/ /\ json' = "migrated" /\ step' = "idle" /\ pos' = 1 /\ batch' = <<>>
        /\ result' = [result EXCEPT !.outcome = "renamed"]
     \/ Fail /\ UNCHANGED json
  /\ UNCHANGED <<boot, log, origin, refused, mem, disk, acked, entries, boots, writes>>

-----------------------------------------------------------------------------
(* The rest of the application writes and deletes; the process dies.       *)

Write(k) ==
  /\ boot = "up" /\ writes < MaxWrites
  /\ writes' = writes + 1
  /\ \E v \in {Written, None} :
       /\ mem' = [mem EXCEPT ![k] = v] /\ disk' = [disk EXCEPT ![k] = v]
       /\ acked' = [acked EXCEPT ![k] = v]
  /\ UNCHANGED <<boot, log, origin, refused, json, entries, step, pos, batch, result, boots>>

Crash ==
  /\ boot # "down"
  /\ boot' = "down" /\ mem' = [k \in Keys |-> None]
  /\ step' = "idle" /\ pos' = 1 /\ batch' = <<>> /\ result' = NoResult
  /\ UNCHANGED <<log, origin, refused, disk, acked, json, entries, boots, writes>>

Next ==
  \/ Open \/ ReadLegacy \/ AppendLegacy \/ RemoveLegacy
  \/ Begin \/ Stage \/ FlushAll \/ VerifyPass \/ Rename
  \/ \E k \in Keys : Write(k)
  \/ Crash

Spec == Init /\ [][Next]_vars

-----------------------------------------------------------------------------
TypeOK ==
  /\ boot \in {"down", "legacy", "append", "remove", "up"}
  /\ log \in {"none", "short", "foreign", "v1"}
  /\ mem \in [Keys -> 0..3] /\ disk \in [Keys -> 0..3] /\ acked \in [Keys -> -1..3]
  /\ json \in {"none", "present", "migrated"} /\ entries \in Seq(Entry)
  /\ step \in {"idle", "stage", "flush", "verify", "close"}
  /\ pos \in 1..MaxEntries + 1 /\ batch \in Seq(Keys)
  /\ result \in [migrated : 0..MaxEntries, skipped : 0..2 * MaxEntries,
                 verified : 0..MaxEntries, outcome : {"none", "error", "renamed"}]
  /\ refused \in BOOLEAN /\ boots \in 0..MaxBoots /\ writes \in 0..MaxWrites

(* No crash, error or refused removal loses a legacy record: until the     *)
(* store would give it back after a restart, or something newer was        *)
(* acknowledged for its key, the file that holds it is still there under   *)
(* its own name ("no pending write is ever lost by the upgrade"; "the      *)
(* legacy file is renamed after a verified migration").                    *)
LegacyKept ==
  /\ origin = "v1" /\ log = "none" =>
       \A k \in Keys : disk[k] = FromLog \/ acked[k] # Unset
  /\ json = "migrated" =>
       \A i \in 1..Len(entries) : entries[i].kind = "valid" =>
         acked[entries[i].key] # Unset

(* "No pending write is ever lost by the upgrade": what the store          *)
(* acknowledged is what it serves, across restarts and upgrades.  A        *)
(* journal.log that could not be removed is the exception: the next open   *)
(* applies its records again, over what was written since.                 *)
NewerKept ==
  boot = "up" /\ ~refused => \A k \in Keys : acked[k] # Unset => mem[k] = acked[k]

(* A finished import reports each entry it skipped once. *)
(* The code does otherwise: TLC refutes this property (README, section 6). *)
CountsTrue ==
  result.outcome = "renamed" =>
    result.skipped = Cardinality({i \in 1..Len(entries) : entries[i].kind = "empty"})
=============================================================================
