-------------------------------- MODULE Ingest --------------------------------
(***************************************************************************)
(* Ingestion (engine/pipeline/pipeline.go, engine/source, the source       *)
(* service and runIngestionCycle of engine/app): the sources pass fetch    *)
(* workers, parse workers and one deduplicating writer, connected by       *)
(* bounded channels; a content hash per source lets the next run skip an   *)
(* unchanged document, and is saved with the sources after the run.        *)
(***************************************************************************)
EXTENDS Integers, FiniteSets

CONSTANTS Sources,
          Managed,       \* the sources the user changes
          Changing,      \* the sources whose documents change
          MaxVersion,    \* versions of a source's document
          Workers,       \* workers of the fetch stage, and of the parse stage
          QueueSize,     \* capacity of each channel
          BatchSize,     \* records the writer persists at once
          MaxRuns

VARIABLES upstream,   \* the version of each source's document
          enabled,    \* the enabled sources
          hashes,     \* seenHashes: the version whose hash is remembered, 0 for none
          file,       \* the sidecar: enabled sources and hashes
          stored,     \* the records in the store
          run,        \* "idle", "run", "merge", "save"
          base,       \* the hashes handed to the run
          stage,      \* where each source of the run is
          got,        \* the version fetched: 0 for an error or an unchanged document
          fresh,      \* newHashes
          left,       \* the records of the source at the writer
          seen,       \* the fingerprints of the run
          batch,      \* the batch of the writer
          cancelled,  \* the context of the run
          lost,       \* whether a run was cancelled, a batch refused or a document
                      \* failed to parse
          runs

vars == <<upstream, enabled, hashes, file, stored, run, base, stage, got, fresh, left, seen,
          batch, cancelled, lost, runs>>

None == [s \in Sources |-> 0]
Out == [s \in Sources |-> "out"]
Versions == 1..MaxVersion

(* The fingerprints of what the parser accepts of a document: one of its   *)
(* own, one that every source lists in that version.                       *)
Records(s, v) == {s, Cardinality(Sources) + v}

At(place) == {s \in Sources : stage[s] = place}
Room(place) == Cardinality(At(place)) < QueueSize
Free(place) == Cardinality(At(place)) < Workers

TypeOK ==
  /\ upstream \in [Sources -> Versions] /\ enabled \subseteq Sources
  /\ hashes \in [Sources -> 0..MaxVersion] /\ got \in [Sources -> 0..MaxVersion]
  /\ run \in {"idle", "run", "merge", "save"}
  /\ stage \in [Sources -> {"out", "todo", "fetchQueue", "fetched", "parseQueue", "parsed",
                            "dedupQueue", "writer", "done"}]
  /\ Cardinality(batch) <= BatchSize

Init ==
  /\ upstream = [s \in Sources |-> 1] /\ enabled = Sources /\ hashes = None
  /\ file = [enabled |-> Sources, hashes |-> None] /\ stored = {}
  /\ run = "idle" /\ base = None /\ stage = Out /\ got = None /\ fresh = None
  /\ left = {} /\ seen = {} /\ batch = {} /\ cancelled = FALSE /\ lost = FALSE /\ runs = 0

durable == <<upstream, file, stored>>
plan == <<enabled, hashes, lost, runs>>

(* A run reads each document once, so a change during a run is one before  *)
(* or after it.                                                            *)
UpstreamChanges(s) ==
  /\ upstream[s] < MaxVersion /\ run = "idle"
  /\ upstream' = [upstream EXCEPT ![s] = @ + 1]
  /\ UNCHANGED <<enabled, hashes, file, stored, run, base, stage, got, fresh, left, seen, batch,
                 cancelled, lost, runs>>

(* SetEnabled and Add, then Remove, each with the save it ends with; they  *)
(* do not overlap the save of a cycle here.                                *)
SetEnabled(s) ==
  /\ run # "save"
  /\ enabled' = (enabled \ {s}) \cup ({s} \ enabled)
  /\ file' = [enabled |-> enabled', hashes |-> hashes]
  /\ UNCHANGED <<upstream, hashes, stored, run, base, stage, got, fresh, left, seen, batch,
                 cancelled, lost, runs>>

Remove(s) ==
  /\ run # "save"
  /\ enabled' = enabled \ {s} /\ hashes' = [hashes EXCEPT ![s] = 0]
  /\ file' = [enabled |-> enabled', hashes |-> hashes']
  /\ UNCHANGED <<upstream, stored, run, base, stage, got, fresh, left, seen, batch,
                 cancelled, lost, runs>>

(* runIngestionCycle, once it has the ingesting flag: a snapshot of the    *)
(* sources and of the hashes is handed to Run.                             *)
Start(S) ==
  /\ run = "idle" /\ runs < MaxRuns /\ S \subseteq enabled /\ S # {}
  /\ run' = "run" /\ runs' = runs + 1 /\ base' = hashes
  /\ stage' = [s \in Sources |-> IF s \in S THEN "todo" ELSE "out"]
  /\ got' = None /\ fresh' = None /\ left' = {} /\ seen' = {} /\ batch' = {}
  /\ cancelled' = FALSE
  /\ UNCHANGED <<durable, enabled, hashes, lost>>

(* RefreshSource takes the same flag and runs, merges and saves the same   *)
(* way, for one source.                                                    *)
RefreshSource(s) == Start({s})

(* The feeder. *)
Feed(s) ==
  /\ stage[s] = "todo" /\ Room("fetchQueue")
  /\ stage' = [stage EXCEPT ![s] = "fetchQueue"]
  /\ UNCHANGED <<durable, plan, run, base, got, fresh, left, seen, batch, cancelled>>

(* A mutation of Remembers: the hash of an error is remembered too.        *)
RemembersAlways(v) == TRUE

Remembers(v) == v # 0

(* A fetch worker: an error, an unchanged document, or a new one, whose    *)
(* hash is recorded at once.                                               *)
Fetch(s) ==
  /\ stage[s] = "fetchQueue" /\ Free("fetched")
  /\ stage' = [stage EXCEPT ![s] = "fetched"]
  /\ \E v \in {0} \cup {u \in {upstream[s]} : ~cancelled} :
       /\ got' = [got EXCEPT ![s] = IF v = base[s] THEN 0 ELSE v]
       /\ fresh' = IF Remembers(got'[s]) THEN [fresh EXCEPT ![s] = upstream[s]] ELSE fresh
  /\ UNCHANGED <<durable, plan, run, base, left, seen, batch, cancelled>>

(* A parse worker; a document the parser fails on, or panics on, becomes   *)
(* an error of its source, and its hash stays recorded.                    *)
Parse(s) ==
  /\ stage[s] = "parseQueue" /\ Free("parsed")
  /\ stage' = [stage EXCEPT ![s] = "parsed"]
  /\ \/ UNCHANGED <<got, lost>>
     \/ got[s] # 0 /\ got' = [got EXCEPT ![s] = 0] /\ lost' = TRUE
  /\ UNCHANGED <<durable, enabled, hashes, runs, run, base, fresh, left, seen, batch, cancelled>>

(* A worker hands its result to the next stage when there is room. *)
Send(s, from, to) ==
  /\ stage[s] = from /\ Room(to)
  /\ stage' = [stage EXCEPT ![s] = to]
  /\ UNCHANGED <<durable, plan, run, base, got, fresh, left, seen, batch, cancelled>>

(* Once the context is cancelled a worker or the feeder may give up what   *)
(* it holds, and the queue it served is not read any more.                 *)
GiveUp(s) ==
  /\ cancelled /\ run = "run"
  /\ stage[s] \in {"todo", "fetchQueue", "fetched", "parseQueue", "parsed"}
  /\ stage' = [stage EXCEPT ![s] = "done"] /\ got' = [got EXCEPT ![s] = 0]
  /\ UNCHANGED <<durable, plan, run, base, fresh, left, seen, batch, cancelled>>

-----------------------------------------------------------------------------
(* The writer.                                                             *)

(* Errors and unchanged documents are only reported. *)
Take(s) ==
  /\ stage[s] = "dedupQueue" /\ At("writer") = {}
  /\ stage' = [stage EXCEPT ![s] = IF got[s] = 0 THEN "done" ELSE "writer"]
  /\ left' = IF got[s] = 0 THEN {} ELSE Records(s, got[s])
  /\ got' = [got EXCEPT ![s] = 0]
  /\ UNCHANGED <<durable, plan, run, base, fresh, seen, batch, cancelled>>

(* flush: a batch the sink refuses is counted as invalid and dropped. *)
Flush(b) ==
  \E ok \in {FALSE} \cup {o \in {TRUE} : ~cancelled} :
    /\ stored' = IF ok THEN stored \cup b ELSE stored
    /\ lost' = (lost \/ (~ok /\ b # {}))

WriteRecord(s, r) ==
  /\ stage[s] = "writer" /\ r \in left
  /\ left' = left \ {r} /\ seen' = seen \cup {r}
  /\ LET grown == IF r \in seen THEN batch ELSE batch \cup {r} IN
     IF Cardinality(grown) >= BatchSize
     THEN batch' = {} /\ Flush(grown)
     ELSE batch' = grown /\ UNCHANGED <<stored, lost>>
  /\ UNCHANGED <<upstream, file, enabled, hashes, runs, run, base, stage, got, fresh, cancelled>>

Written(s) ==
  /\ stage[s] = "writer" /\ left = {}
  /\ stage' = [stage EXCEPT ![s] = "done"]
  /\ UNCHANGED <<durable, plan, run, base, got, fresh, left, seen, batch, cancelled>>

(* A mutation of Drained: the run ends when everything was fetched. *)
DrainedEarly == At("todo") \cup At("fetchQueue") = {}

(* The channels are closed behind the last worker of each stage. *)
Drained == \A s \in Sources : stage[s] \in {"out", "done"}

RunReturns ==
  /\ run = "run" /\ Drained
  /\ run' = "merge"
  /\ batch' = {} /\ Flush(batch)
  /\ UNCHANGED <<upstream, file, enabled, hashes, runs, base, stage, got, fresh, left, seen, cancelled>>

(* The fresh hashes are merged, also after a cancelled run. *)
Merge ==
  /\ run = "merge"
  /\ hashes' = [s \in Sources |-> IF fresh[s] # 0 THEN fresh[s] ELSE hashes[s]]
  /\ run' = "save" /\ stage' = Out /\ got' = None /\ fresh' = None /\ seen' = {}
  /\ cancelled' = FALSE /\ base' = None
  /\ UNCHANGED <<durable, enabled, lost, runs, left, batch>>

(* saveSources, which may fail. *)
Save ==
  /\ run = "save"
  /\ file' \in {file, [enabled |-> enabled, hashes |-> hashes]}
  /\ run' = "idle"
  /\ UNCHANGED <<upstream, stored, plan, base, stage, got, fresh, left, seen, batch, cancelled>>

(* The run's context ends: a timeout, or the application stops. *)
Cancel ==
  /\ run = "run" /\ ~cancelled
  /\ cancelled' = TRUE /\ lost' = TRUE
  /\ UNCHANGED <<durable, enabled, hashes, runs, run, base, stage, got, fresh, left, seen, batch>>

(* The process ends and a new one loads the sidecar. *)
Restart ==
  /\ enabled' = file.enabled /\ hashes' = file.hashes
  /\ run' = "idle" /\ base' = None /\ stage' = Out /\ got' = None /\ fresh' = None
  /\ left' = {} /\ seen' = {} /\ batch' = {} /\ cancelled' = FALSE
  /\ UNCHANGED <<durable, lost, runs>>

-----------------------------------------------------------------------------
Work ==
  \/ \E s \in Sources : \/ Feed(s) \/ Fetch(s) \/ Parse(s)
                        \/ Send(s, "fetched", "parseQueue") \/ Send(s, "parsed", "dedupQueue")
                        \/ GiveUp(s) \/ Take(s) \/ Written(s)
                        \/ \E r \in left : WriteRecord(s, r)
  \/ RunReturns \/ Merge \/ Save

Next ==
  \/ Work
  \/ \E s \in Changing : UpstreamChanges(s)
  \/ \E s \in Sources : RefreshSource(s)
  \/ \E s \in Managed : SetEnabled(s) \/ Remove(s)
  \/ Start(enabled) \/ Cancel \/ Restart

(* The goroutines of a run go on: every fetch has a timeout, and every     *)
(* blocked send is also woken by the end of the context.                   *)
Fairness == WF_vars(Work)

Spec == Init /\ [][Next]_vars /\ Fairness

-----------------------------------------------------------------------------
(* What makes it sound to skip an unchanged document: as long as no run    *)
(* was cut short, no batch refused and every document parsed, a hash that  *)
(* is saved, or remembered between runs, is the hash of a document whose   *)
(* records are all in the store, also after a crash at any point.          *)
Ingested ==
  ~lost => \A s \in Sources, v \in Versions :
    file.hashes[s] = v \/ (run = "idle" /\ hashes[s] = v) => Records(s, v) \subseteq stored

(* A run ends whatever fails and whenever it is cancelled: no stage waits  *)
(* for room that is never made.                                            *)
Due == run = "run"
Met == run # "run"
RunEnds == Due ~> Met

(* docs/architecture.md: "contexts propagate through all stages; shutdown  *)
(* drains in-flight work". What a cancelled run fetched is stored, or a    *)
(* later run still takes it up: a remembered hash, which makes every later *)
(* run skip the document, is that of a document whose records are stored.  *)
(* The code does otherwise: TLC refutes this property (README, section 6). *)
NothingSkipped ==
  run = "idle" => \A s \in Sources, v \in Versions :
    hashes[s] = v => Records(s, v) \subseteq stored
=============================================================================
