# A TLA+ verification of FreeIran

FreeIran is a Go desktop application that collects proxy configurations, keeps
them in its own record store, tests them with proxy cores and connects through
one of them. This directory models the parts of it whose correctness depends on
interleavings, crashes, failing I/O and unreliable peers. TLC checks the models
on small instances; TLAPS proves the theorems of section 7 for every instance.

`PROJECT.json` lists, for every definition, the source lines it translates, for
every hazard the line where it bites, and for every checked property a mutation
of the code that breaks it.

## 1. The system and its parts

| Part | What makes it hard | Modules |
|---|---|---|
| Record store `engine/store` | writers, flush worker, compaction, scans and Close over one set of tables; four files written one after the other; crashes | `Store`, `StoreOps` |
| Write-ahead log `wal.go` | torn and failing writes, a crash or a failure inside a roll or between two removals | `Journal`, `RecordLog` |
| Chunk files `engine/chunks`, handle cache `filecache.go` | crash between write and rename, decaying disk; opens and closes outside the lock | `ChunkFiles`, `HandleCache` |
| Format upgrades `wal.go`, `migrate.go`; workspace migration `system/` | crash between copying and removing | `Upgrade`, `Migration` |
| Connection manager `engine/connection`, core processes `engine/core` | sessions overtaken by others while they wait; a core that dies at any step | `Connection`, `CoreInstance`, `Verify` |
| Guided start, race, recovery `engine/app`, `racing.go` | several cores at once; failure memory; stop during an attempt | `StartFlow`, `Recovery` |
| State publisher, single flight `internal/` | coalescing, stop against delivery, cancelled waiters | `StatePub`, `SingleFlight` |
| Test queue `engine/testqueue` | cancel against completion, slots, resizing, backlog | `TestQueue` |
| Scheduler `engine/scheduler`, boot and shutdown `engine/app/app.go` | a delayed first cycle that nobody joins, a new start beside it; calls that race with Shutdown | `Scheduler`, `Lifecycle` |
| System proxy and TUN `engine/tunnel` | crash between marker and platform change; a platform call that fails or lies | `ProxyOwner`, `Tun` |
| Core manager `engine/coremgr` | crash or failure between two renames; a late result | `CoreManager`, `Fetch` |
| FreeCore `engine/freecore` | drain against admission; a WaitGroup from two sides | `FreeCore` |
| Ingestion, sources, discovery | bounded channels and cancellation; remembered hashes; budgets | `Ingest`, `PublicSources`, `Discovery` |
| Memory pressure, booster, cleanup | hysteresis; a queue replaced under a running listener | `Pressure` |
| Network diagnostics `engine/netcheck` | a status computed from partial answers and an ended context | `NetTools`, `NetCheck` |
| Downloads, documents, archives `internal/` | resume, ranges, restarts; stale cache; declared against real sizes | `Download`, `Fetch`, `Archive` |
| Caches `engine/cache`, `gencache.go` | a generation that moves while a value is computed | `Caches` |
| Settings, profiles, collections, counts, tray | several writers of one file; identity read after a scan; closures on the UI thread | `Profiles`, `Collections`, `GroupCounts`, `Tray` |

The application wires them as follows. The scheduler starts ingestion cycles
(`Scheduler`, `Lifecycle`, `Ingest`), which write to the store through its
operations (`StoreOps`, `Store`) and so to journal, chunks and handle cache.
The test queue takes configurations from the store and runs cores
(`TestQueue`, `CoreInstance`); the connection manager runs one core for the
session (`Connection` over `CoreInstance`), verifies it (`Verify`) and publishes
its state (`StatePub`). The guided start and recovery drive the manager
(`StartFlow`, `Recovery`). Memory pressure throttles the store and gates the
queue (`Pressure`). `Store` calls the journal and the chunk directory as the
actions those modules describe in detail: append, checkpoint, atomic appearance
of a file.

## 2. The modules

Conventions. A region of code under a mutex is one step; a wait, a system call
outside the lock, a platform call and a rename lie between two steps. Every call
of the environment (disk, network, platform, process death) has all outcomes
the code tells apart. Timers may fire at any moment after they are set. Contents
(records, URLs, versions, names) are numbers or members of small sets; where a
conversion matters (sizes, ports, status from errors, LSN from position) it is
modelled by what it computes. Counters are bounded by named constants in guards.

### Composition

* `Connection` extends `CoreInstance`: a session's core is the process,
  supervisor and two-step Close of that module, per instance.
* `Journal` implements `RecordLog` (section 3, `ImplementsLog`).
* `Platform` and `Services` are sums: a variable `part` says which component the
  behaviour is one of, and `x1, x2, ...` hold that component's variables through
  `INSTANCE ... WITH`. A sum has the behaviours of every summand and no others;
  its properties are implications per part. `Platform` has the fifteen
  components whose properties are safety, `Services` the fourteen with
  goroutines of their own and liveness.

### Storage

**`Store`** (store.go, flush.go, compact.go, meta.go, pressure.go). A value is the
LSN of the record that wrote it, so two writes never look alike. A memtable
entry is `Absent`, `Tombstone` or a value; a location is a chunk number.
*Writers*: `UpsertAppend`/`UpsertApply` and `DeleteCheck`/`DeleteAppend`/
`DeleteApply`, journal append and memtable change under `writeMu` with a crash
possible in between; the liveness check of Delete comes before `writeMu`.
*Flush worker*: `FlushPop` to `FlushDone`: chunk file, index and registry under
the lock, `index.bin`, `store.meta`, truncation; the two files are built under
the read lock and renamed after it; each write may fail, and the table goes back
to the head of the queue, or is dropped when the store is stopping.
*Maintenance*: Compact in its phases, RebuildIndex, `CheckpointWAL`. *Scans*:
register, snapshot, end. *Close, Crash, Open*: Crash keeps only the disk; Open is
`loadOrRecover` and replay. `want` is an observer: the last upsert journaled for
a key, 0 after a delete. Abstractions: batches of one record; one group of
victims; compaction does not fail; truncation drops every covered record.

**`StoreOps`** (store.go, flush.go) has what `Store` leaves out: `beginOp`, the
gate and the operation count, back-pressure, the waits of Flush, the nested
Flush of Compact and RebuildIndex, ForceFreeze, and the phases of Close against
the worker's loop, retry timer and drain.

**`Journal`** (wal.go). A record is the LSN Append gave it; replay numbers records
by position from the base of their segment, and the two must agree. A write may
stop anywhere in a batch (`Garbage`), in a crash or a failing write; every fsync,
close, creation, header write and removal may fail, and Append goes on as the
code does; removals of old segments happen one by one outside the lock. `used`
is history: which failures the process met, and which of three harms they did
(section 6).

**`HandleCache`** (filecache.go): `os.Open`, which may fail, and the closes after
unlocking are steps of their own; the store's barriers are part of the model.

**`ChunkFiles`** (chunks.go, diagnostics.go, pressure.go): WriteChunk by two writers,
VerifyAll and RemoveTempArtifacts walking the directory meanwhile, process death
and decay. **`Upgrade`** (wal.go, migrate.go): import of a version 1 journal and of
the JSON database. **`Migration`** (workspace_migrate.go): copy, verify, record.
**`Caches`** (gencache.go, cache.go): entries with generation and weight.

### Sessions and work

**`Connection`**: callers are goroutines in Connect, Disconnect, Reconnect,
VerifyConnected, Shutdown; a monitor per session has a process watcher and a
stability recheck. `generation` is the session epoch, `verified` the epoch
the newest success came from. **`Verify`**: probes, one retry of transient failures, quorum, one
deadline. **`StartFlow`**: detect, discover, test, rank, race or single connect,
verify; racers have cores of their own. **`Recovery`**: watch loop, episodes,
attempts over eligible candidates, record, the user's opt-out, Stop.

**`TestQueue`** (queue.go, backlog.go): Enqueue with deduplication, workers, core
slots, retries, measurements, cancel, pause, hold, SetConcurrency, batches and
their report, the admission backlog, Stop.

**`StatePub`**, **`SingleFlight`**, **`Scheduler`**: the whole of their packages, with one
subscriber; a scheduler that was stopped may be started again. A panic of the
function given to a single flight ends the process, so no state follows it.
**`Lifecycle`**: boot transaction, wiring, deferred goroutines, ingestion
cycle, queue and controller created on first use, the eleven steps of Shutdown.
**`Ingest`**: fetch, parse, dedup stages over bounded channels, the batching sink,
hashes noted, merged and saved, cancel and restart.

### Platform and data

**`ProxyOwner`**, **`Tun`**: controller, backends, marker, recovery at boot and on
demand. **`CoreManager`**: a binary is its install number, paths are active,
previous and rollforward; install, verify, retain, place, record, health,
rollback, late enrichment. **`FreeCore`**: accept loop, stack flows, session
registry, WaitGroup, sentinel, Stop, watcher. **`Discovery`** and **`PublicSources`**:
levels, pool, search cache and back-off; queue, depth, budgets, ledger.
**`Download`**, **`Fetch`**, **`Archive`**: every answer of a server the code tells apart,
every entry type, a lying size. **`NetTools`**, **`NetCheck`**: fifteen tools as
sequences of answers under a context; ladder, verdict, advice, memory.
**`Pressure`**: sample, booster tick, listener, cleanup pass, queue replaced.
**`Profiles`**, **`Collections`**, **`GroupCounts`**, **`Tray`**: memory and file kept apart,
every save may fail, restart, a file of a newer program.

## 3. Runs

| Run | Result | What it shows |
|---|---|---|
| `store_crash` | pass, 1.3 M states | two keys written and deleted while the flush worker runs, an extra freeze, a failing flush, a crash, Close: no accepted upsert is lost, the journal keeps what the durable checkpoint does not cover |
| `store_compact` | pass, 1.8 M | two calls of Compact or RebuildIndex and one scan against writers, worker and CheckpointWAL |
| `journal` | pass, 0.8 M | batches, rolls, checkpoints, two crashes, one failing write, fsync, close, creation or removal; refinement of `RecordLog` |
| `handle_cache` | pass, 0.1 M | three readers, three chunks, one idle descriptor |
| `session` | pass, 0.3 M | two callers, two cores, two monitors, every overlap of calls; liveness |
| `work` | pass | two workers, three tasks, a batch through the backlog, resize, pause, cancel, Stop; liveness |
| `platform` | pass, 1.2 M | the fifteen components of `Platform` |
| `services` | pass, 0.4 M | the fourteen of `Services`; liveness |
| `store_delete` | violation | a deleted key comes back |
| `store_shutdown` | violation | records dropped by a failing flush in Close are lost |
| `store_compact_order` | violation | files removed while `store.meta` registers them |
| `journal_torn` | violation | a crash in `createSegment` makes a later Open fail |

The main properties:

* Store: `LiveReadsLatest` (a key whose last accepted operation is an upsert is
  found with that value while the store is open, after crashes too) without
  maintenance calls, and `CompactedReadsLatest`, the same with them until
  RebuildIndex meets a stale copy (section 6);
  `IndexResolves`, `ScanLocationsSurvive` (neither index nor scan points at a
  removed record); `JournalCoversCheckpoint`, `WatermarksOrdered`,
  `DurableCheckpointMonotone` (what recovery depends on).
* Journal: `AckedReplayed`, `ReopensUntroubled`, `SegEndMatchesFiles`, each until a
  failure did harm (section 6), and `ImplementsLog`, always: with `stored` mapped
  to the records a replay would deliver, every step is a step of `RecordLog` or a stutter, so records get consecutive
  LSNs and disappear only below the durable checkpoint.
* Handle cache: `PinnedStaysOpen`, `OneOwner`, `PinsCounted`, `OpenBounded`,
  `RemovedFilesClosed`.
* Session: `NoOrphanCore` (a running core of a live session is the manager's or in
  the hands of a call), `EvidenceOfThisSession`; `CallsReturn`, `DeadCoreNoticed`,
  `ShutdownQuiesces`.
* Work: `OneTestPerConfig`, `BatchReportTrue`, `ResultsFinal`; `TakenTasksEnd`,
  `StopReturns`.
* Platform: `Durable` (what a crash or a failed step must not cost the user),
  `Consistent` (what different actors leave behind agrees), `WithinBounds`,
  `NeverUndone` (what a step may not do). Services: `Orderly`, `Backed` (what is
  reported, kept or tried is backed by what happened), `Progress`. Each is the
  conjunction of the named properties of its components, whose comments say
  what they mean; the comments in `Platform` and `Services` list them.

Deadlock checking is off in every run: the bounded operations run out and the
system may then stop.

## 4. Bounds

*Store*: two keys tell keys apart and fill a table (`MemtableRecords = 2`) while
one is overwritten; four LSNs give two full tables, so one can be flushing while
another is frozen and a third active; four chunks allow a retry and a compaction
after two flushes; one crash and one fault reach every pair (step, failure); two
maintenance calls let RebuildIndex meet what Compact left. *Journal*: five LSNs
with two records per segment give three segments, so a removal can be
interrupted midway, and one fault followed by two crashes lets appends,
checkpoints and reopens meet what the fault left. *Session*: two callers with two
operations each and a threshold of two failed rechecks make every call overlap every other
one and the recheck tolerate one failure before it gives up; two instances and
two monitors let an old session's watcher meet a new session. *Work*: three tasks
of two configurations with two attempts make a duplicate, a retry and a
deferred admission happen at once; pool sizes 1 and 2 make a worker retire while
another holds the only core slot. *Platform and Services*: one more of
everything than fits (three cache keys for two entries, three archive entries
for two files, three URLs for two places, two sessions for one slot, four
publications for two places), two of whatever shares state (callers, cycles of
discovery, starts of the scheduler, analyses plus one for the timeout memory),
and two or three boots so that a restart meets what a crash left. Keys are a
symmetry set in the store's runs, chunks and readers in the handle cache's;
nothing else is. The callers of a shared call and of the group counts are alike,
so `Progress` follows one of them.

## 5. Fairness

* Goroutines that can run do run: weak fairness of each goroutine's own steps
  (flush worker, delivery loop, scheduler loop, watch loop, workers, racers,
  handlers). Go's scheduler is preemptive and fair to runnable goroutines.
* A blocked operation with a timeout in the code ends: dials, probes, fetches,
  handshakes, verification rounds, the slot and queue polls of the test queue. A
  relay has no timeout, so its end is fair only once its context ended.
* A lock that is free infinitely often is obtained: Go's mutex hands over to a
  starving waiter. In the models a waiter is a step enabled whenever the lock is
  free, with weak fairness where the holder cannot take it again at once.
* Never fair: what users do (connect, cancel, stop, quit, ask for the counts),
  crashes, faults, upstream changes, the end of a remote connection. A call that
  began goes on; nobody has to call again.

In `Services` the fair actions of all parts share six slots: slot *i* is the
*i*-th fair action of whichever part runs. Only one part moves in a behaviour, so
weak fairness of the slots is the conjunction `Fairness` of that part's module.
The publisher, the engine and the store's drain have one slot for all their
goroutines: their instances take finitely many steps (TLC finds no cycle in their
state graphs), and then fairness of each goroutine and fairness of all of them
together allow the same behaviours. For the same reason the drain's calls share
one obligation: at some time all of them have returned.
`Platform` has no fairness; it states safety only.

## 6. What the code does otherwise

Most properties hold. Where a comment, a document or a plain expectation and the
code disagree, the disagreement is either a violation run (with a finding in
`PROJECT.json`) or an observation below. An observation names a property that
is stated in its module and that TLC refutes; no run checks it. File names are
those of the packages in section 1.

### Violation runs

* `store_delete`: upsert a key, let its table freeze, delete it, let both tables
  be flushed. The older table's flush installs the key in the index again
  (flush.go:196) and the tombstone is dropped by its own flush, against the
  comment at store.go:771.
* `store_shutdown`: the worker drops a table whose flush fails during Close, since
  its records "remain durable in the WAL" (flush.go:73). The next table's flush
  then persists a higher checkpoint and truncates the journal. `LiveReadsLatest`
  holds without this fault (`ShutdownFaults = FALSE` in `store_crash`).
* `store_compact_order`: `retireVictims` removes the files before Compact persists
  index and meta, the reverse of compact.go:29-32 and
  docs/storage-format.md:195. In the crash window the next Open finds the
  victims gone and removes the unregistered replacement.
* `journal_torn`: an empty segment file left by a crash is adopted as it is,
  rather than "truncated away" (wal.go:222).

### Exceptions inside checked properties

These properties hold except in behaviours of the kind named, which a history
variable or the state marks; the code reaches them and the property fails there.

| Property | Exception | Code |
|---|---|---|
| `Store!CompactedReadsLatest` | `budget.stale`: Compact copies a record, a flush moves the key to a chunk of a lower number than the copy's, and RebuildIndex, which takes the copy of the highest number for the newest, brings the old value back (`LiveReadsLatest` is refuted under `StoreCompact.cfg`, against "no resurrection" in docs/storage-format.md:194) | meta.go:448-489 |
| `Journal!AckedReplayed`, `ReopensUntroubled`, `SegEndMatchesFiles` | `Untroubled`, that is `used.harm = {}`. *buried*: a batch was cut short by a failing write and the journal went on behind it; replay stops there, so what was acknowledged behind it is lost at the next open (`AckedSurvives` is refuted, against wal.go:33-35). *torn*: a segment file without a header is left (`journal_torn`). *gap*: a segment could not be removed and a later checkpoint removed the ones after it; Open then refuses the journal. While the process runs, the end of the active segment is also not compared after a failed append | wal.go:700-708, 593-618, 867 |
| `Scheduler!StopDrained` (`Orderly`) | the delayed first cycle, which Stop does not join, may run after Stop returned (`StopDrainsAll` is refuted, against scheduler.go:8) | scheduler.go:177-192 |
| `Lifecycle!BootUnwinds` (`Orderly`) | the publisher of the connection manager: a boot that fails after it leaves its goroutine | app.go:346-369 |
| `Lifecycle!Due/Met` (`Progress`) | `tunnel = "hung"`: Shutdown meets a sing-box session, whose Disable waits for its own mutex; the store is not closed (`ShutdownCloses` is refuted, against app.go:1048-1057) | tun.go:691, 811 |
| `NetTools!StatusBacked` (`Backed`) | the captive-portal tool, which reports success also when no target answered | tools_path.go:511-600 |
| `HandleCache!RemovedFilesClosed` | `idleClosing`: CloseIdle unlinks under the lock and closes after it | filecache.go:286 |
| `StoreOps!Due/Met` (`Progress`) | `Stuck`: Close holds the gate while a counted Compact waits for it in its nested Flush; both wait for ever (`CloseEnds` is refuted) | store.go:962 |
| `Ingest!Ingested` | `lost`: a run was cancelled, a batch refused or a document not parsed after its hash was noted; later runs skip the document (`NothingSkipped` is refuted) | pipeline.go:295, app.go:1239-1241 |
| `GroupCounts!SnapshotSound` | `snap.met`: a change met the call, whose counts then get the identity read after the scan, an import dropped nothing, or the walk of the store ended early and its partial counts are kept (`SnapshotTrue` is refuted); `Progress` shows they are replaced | collections.go:676, 712-776 |
| `Profiles!SettingsAgree` | `raced`: the default profile is applied without the lock that Save holds | profiles.go:866-892 |
| `Collections!OnlyOneMoves` | `move.true`: the scan was cut short, or another order was set while MoveConfig read | configorderservice.go |
| `Upgrade!NewerKept` | `refused`: the legacy journal could not be removed, and the next open applies it again | wal.go:1018 |
| `Migration!MigratedWhole` | the providers tree, which is copied and not verified | workspace_migrate.go |
| `CoreManager!BinaryKept`, `FailedInstallHarmless` | `faults > 0`: a predecessor not retained or not restored, or a manifest not written, after which the code goes on | install.go:440-472, manager.go |
| `ProxyOwner!ProxyRecoverable` | `mixed`: Enable finds our own setting, left by a failed restore, and saves it as the user's; or recovery on demand runs during a call or a tunnel; or recovery removes a marker it cannot read | tunnel.go, recovery.go:414-460 |
| `Lifecycle!StopsInOrder` | `late`: a call of the UI enables the tunnel after Shutdown disabled it, or Shutdown could not restore the proxy | app.go, Shutdown |
| `FreeCore!Drains` | `early`: Stop came before Run served; its one body then found nothing to cancel (`StopWorks` is refuted) | engine.go, Stop |
| `Recovery!StopReturns` | the process dies: Stop during an attempt makes the decision unlock `r.mu` twice | recoveryservice.go:375 against 137-143 |

### Observations

* Store: `ScanSeesNewest`: with one table being flushed and a newer one waiting,
  `iterSnapshot` overlays the flushing table last (store.go:1099), against
  "Oldest level first so newer levels overwrite older state" (store.go:1080).
  `JournalCoversCheckpoint` fails with `Checkpoints = TRUE` in `StoreCrash.cfg`:
  CheckpointWAL may run before the checkpoint is durable (pressure.go:203); that
  switch is off in `store_crash`, on in `store_compact`.
* Journal: with two checkpointers `SegEndMatchesFiles` and `ReopensUntroubled`
  fail (wal.go:867); the run has one, the flush worker.
* Store and compaction: `DurableCheckpointMonotone` fails with `MaxCompacts = 1` in
  `StoreCrash.cfg`: Compact renames an older image of `store.meta` over a newer one
  (meta.go:241-271).
* StoreOps: `FrozenBounded`: several writers pass the check before one freezes, so
  more than `maxFrozen` tables may wait (store.go:670-671). A flush that fails for
  ever keeps throttled writers waiting until Close (store.go:679); one failure is
  modelled.
* Connection: `IdleStateTrue`: an attempt that was overtaken by Disconnect sets
  "verifying" over "disconnected" (connection.go:853 against 640-641, 1042-1043).
  `DisconnectedTrue`: a Disconnect that found no core sets "disconnected" over the
  session another call established meanwhile (connection.go:1101).
* TestQueue: `PoolReachesTarget`: the target may rise between a worker's
  comparison and its claim of a retirement slot (queue.go:1182 against
  1161-1163); `BacklogDrains`: Resume wakes the workers and admits nothing
  (queue.go:789 against backlog.go:159-161).
* Lifecycle: `PhasesRecorded` (BackgroundWarm is marked before UIRuntimeReady,
  which is then ignored); `PublishedTrue` (the reset of the ingesting flag is not
  published); `QueueWatched` (SetMode creates a queue without its watcher).
* StartFlow: `ManualConnects`: a manual choice is looked up and reported as
  connected, and never dialled (discoveryservice.go:480-507 against 309-313).
  Recovery: `Rearmed`: a verified session does not renew the budget of episodes
  (against the log line at recoveryservice.go:337-338).
* Tun: `DisableReturns`: Disable calls setStatus, which takes the mutex that
  Disable holds (tun.go:691, 811). Tray: `MenuAgrees` (main.go:520-521).
* Migration: `AuthoritativeVerified`: after an interrupted copy the workspace
  counts as authoritative at the next boot (workspace_migrate.go:267 against 17).
  A legacy location with a providers tree is never recorded as migrated, since
  the two counts differ.
* FreeCore: `TunnelKept`: a SOCKS5 handshake's deadline stays on the connection.
* Discovery: `RefsOfCycle` (needs two cycles), `SearchBacksOff`. PublicSources:
  `BudgetPerRun` (the limiter outlives the run). Fetch: `RetriesTransient`. Download: `SizeEnforced` (with
  `Expected` different from `Size`). Upgrade: `CountsTrue`. NetTools:
  `PathHonest`, `CancelledByCaller`. NetCheck: `RepeatedConsecutive`,
  `DirectAddressTrue`. Pressure: `OverrideHeld` (with `Override > 0`).
  Collections: `NamesDistinct` (a rename does not look). Read in the code, with
  no property: Profiles.Rename indexes the list after sorting it
  (profiles.go:551, 557), so it may return another profile's view.

## 7. Proofs

`tlapm` checks the five proof modules to the last leaf. Assumptions are those the
modules state about their constants: keys, callers and instances are sets (the
keys finite), bounds are natural numbers, a table holds at least one record.

* `StoreProofs!TypeCorrect`: `Spec => []TypeOK`. `TypeInv` adds that chunk numbers
  in use are real ones while the position in the code needs them.
* `WatermarkProofs!WatermarksAlwaysOrdered`: `Spec => []WatermarksOrdered`, with
  maintenance calls, faults and crashes. `WatermarkInv` adds what the ordering
  rests on: nothing is in memory while the process is down, the queue lies
  between checkpoint, flushing table and `lsn`, and an image of `store.meta` on
  its way to the disk is not newer than the checkpoint in memory.
* `JournalProofs!MetaMovesForward` (no Compact or RebuildIndex): `store.meta`
  never moves back. `FlushProgress` says which watermark each position of the
  worker has reached.
* `JournalProofs!JournalAlwaysCovers` (moreover no CheckpointWAL): the journal
  holds every record above the durable checkpoint. `JournalInv` adds that nothing
  lies above the last LSN of a running journal and that a hole in a journal whose
  process is down is covered too. Both restrictions are the code's, not the
  prover's: see section 6.
* `SingleFlightProofs!OneExecutionAlways`: one execution per key runs at most, and
  it is the registered one, for any callers and keys, whichever waiters are
  cancelled. With the types, the two statements are inductive together: neither
  is alone, since a leader may only begin when no call is registered.
* `ConnectionProofs!EvidenceAlwaysOfThisSession`: a live verified session never
  shows the success of another session, for any number of callers, cores,
  monitors and epochs. Three places write `verifiedAt` and one sets the verified
  state, in different regions of `m.mu`. `SessionInv` adds what carries the
  property across them: no call is ahead of the epoch, and a call between its
  successful probe and the verified state, whose session is still current, sees
  the evidence of that session or none.

Every inductive invariant was model-checked before it was proved. Only
model-checked: `LiveReadsLatest`, `IndexResolves`, the journal with its
refinement, the handle cache, the test queue, the sums, and all liveness (the
prover has no reasoning about fairness and ENABLED).

## 8. Not modelled

* Frontend and native scanner: no engine state; a text scanner with a fallback.
* Text: parsers, configuration generators of the core adapters, ranking weights,
  log and event wording, exports. They are functions of their input.
* Byte formats of chunks, index, journal records and network protocols; a
  damaged item is damaged as a whole.
* Packet processing of the netstack, platform commands and probes: external,
  with every outcome the callers tell apart.
* Store statistics and the cached count; compaction in several groups; batches
  of more than one record in `Store` (the journal has them).
* Logging, the application's own update, subscription cancel of the publisher,
  read-only bindings of the services.
* Real time: durations are replaced by "may have passed".
* Interaction across sums is limited to the compositions of section 2: a crash of
  the whole application is modelled in each component by itself, not in all at
  once.

The map covers about 30 % of the lines of the implementation; the rest is the
text, wiring and platform code listed here.
