------------------------------ MODULE ChunkFiles ------------------------------
(***************************************************************************)
(* Chunk files (chunks/chunks.go) and the maintenance that walks them while *)
(* the store works: WriteChunk by the flush worker and by compaction,      *)
(* VerifyAll (store/diagnostics.go) and RemoveTempArtifacts                *)
(* (store/pressure.go).  A chunk is the sequence of parts its file holds:  *)
(* the header and then its records; a process death leaves what was        *)
(* written, a decaying disk damages it.                                    *)
(***************************************************************************)
EXTENDS Integers, Sequences, SequencesExt

CONSTANTS Writers,   \* the flush worker and compaction
          Chunks,    \* sequence numbers
          Records,   \* records of a chunk
          MaxDeaths,
          MaxDamage

VARIABLES writer,    \* of each writer: the chunk it writes and its step
          temp,      \* its temporary file: the parts written, or NoFile
          orphans,   \* temporary files of dead processes
          file,      \* the parts of each chunk file, or NoFile
          map,       \* chunksMap: the chunks the store knows
          retired,   \* compacted away, with the file still to remove
          walk,      \* VerifyAll: the chunks still to check, and its verdict
          deaths, damage

vars == <<writer, temp, orphans, file, map, retired, walk, deaths, damage>>

NoFile == <<-2>>
Header == 0
Damaged == -1
Whole == <<Header>> \o [i \in 1..Records |-> i]
Idle == [step |-> "idle", chunk |-> 0]
NoWalk == [todo |-> <<>>, verdict |-> "none"]

Init ==
  /\ writer = [w \in Writers |-> Idle] /\ temp = [w \in Writers |-> NoFile]
  /\ orphans = {} /\ file = [c \in Chunks |-> NoFile] /\ map = {} /\ retired = {}
  /\ walk = NoWalk /\ deaths = 0 /\ damage = 0

-----------------------------------------------------------------------------
(* WriteChunk.                                                             *)

Taken == map \cup retired \cup {writer[w].chunk : w \in Writers}

(* nextSequence, then the temporary file. *)
Begin(w) ==
  /\ writer[w].step = "idle"
  /\ \E c \in Chunks \ Taken :
       /\ \A d \in Chunks \ Taken : c <= d
       /\ writer' = [writer EXCEPT ![w] = [step |-> "write", chunk |-> c]]
  /\ temp' = [temp EXCEPT ![w] = <<>>]
  /\ UNCHANGED <<orphans, file, map, retired, walk, deaths, damage>>

(* A mutation of Complete: the rename does not wait for the payload. *)
CompleteHeader(parts) == parts # <<>>

(* Header and payload are in the temporary file. *)
Complete(parts) == Len(parts) = Len(Whole)

(* A part is written.  The cleanup may have removed the name of the        *)
(* temporary file: the descriptor still takes the data.                    *)
WritePart(w) ==
  /\ writer[w].step = "write"
  /\ IF Complete(temp[w])
     THEN writer' = [writer EXCEPT ![w].step = "rename"] /\ UNCHANGED temp
     ELSE /\ temp' = [temp EXCEPT ![w] = IF @ = NoFile THEN @
                                         ELSE Append(@, Whole[Len(@) + 1])]
          /\ writer' = IF temp[w] = NoFile
                       THEN [writer EXCEPT ![w].step = "rename"] ELSE writer
  /\ UNCHANGED <<orphans, file, map, retired, walk, deaths, damage>>

(* os.Rename: fails when the temporary file is gone, and then nothing is   *)
(* registered.                                                             *)
Rename(w) ==
  /\ writer[w].step = "rename"
  /\ IF temp[w] = NoFile
     THEN writer' = [writer EXCEPT ![w] = Idle] /\ UNCHANGED file
     ELSE /\ file' = [file EXCEPT ![writer[w].chunk] = temp[w]]
          /\ writer' = [writer EXCEPT ![w].step = "register"]
  /\ temp' = [temp EXCEPT ![w] = NoFile]
  /\ UNCHANGED <<orphans, map, retired, walk, deaths, damage>>

(* A write, sync or close error: the deferred removal takes the file away. *)
WriteFails(w) ==
  /\ writer[w].step \in {"write", "rename"}
  /\ writer' = [writer EXCEPT ![w] = Idle] /\ temp' = [temp EXCEPT ![w] = NoFile]
  /\ UNCHANGED <<orphans, file, map, retired, walk, deaths, damage>>

Register(w) ==
  /\ writer[w].step = "register"
  /\ map' = map \cup {writer[w].chunk}
  /\ writer' = [writer EXCEPT ![w] = Idle]
  /\ UNCHANGED <<temp, orphans, file, retired, walk, deaths, damage>>

-----------------------------------------------------------------------------
(* VerifyAll.                                                              *)

VerifyAll ==
  /\ walk.verdict \in {"none", "ok", "corrupt"}
  /\ walk' = [todo |-> SetToSortSeq(map, <), verdict |-> "walking"]
  /\ UNCHANGED <<writer, temp, orphans, file, map, retired, deaths, damage>>

(* Reader.Next, Reader.Verify: the announced records are all there and     *)
(* their checksum is the header's.                                         *)
Readable(parts) == parts = Whole

(* One chunk of the walk: one that compaction removed is passed over. *)
VerifyOne ==
  /\ walk.verdict = "walking"
  /\ walk' = IF walk.todo = <<>> THEN [walk EXCEPT !.verdict = "ok"]
             ELSE LET parts == file[Head(walk.todo)] IN
                  IF parts = NoFile \/ Readable(parts)
                  THEN [walk EXCEPT !.todo = Tail(@)]
                  ELSE [todo |-> <<>>, verdict |-> "corrupt"]
  /\ UNCHANGED <<writer, temp, orphans, file, map, retired, deaths, damage>>

(* Compaction retires a chunk: it leaves the map ... *)
Retire(c) ==
  /\ c \in map
  /\ map' = map \ {c} /\ retired' = retired \cup {c}
  /\ UNCHANGED <<writer, temp, orphans, file, walk, deaths, damage>>

(* ... and its file goes once no walk that may read it is left. *)
RemoveRetired(c) ==
  /\ c \in retired /\ walk.verdict # "walking"
  /\ retired' = retired \ {c} /\ file' = [file EXCEPT ![c] = NoFile]
  /\ UNCHANGED <<writer, temp, orphans, map, walk, deaths, damage>>

(* RemoveTempArtifacts: temporary files older than an hour, of dead        *)
(* processes and of a write that takes that long.                          *)
CleanTemps ==
  /\ orphans' = {}
  /\ \E slow \in SUBSET {w \in Writers : temp[w] # NoFile} :
       temp' = [w \in Writers |-> IF w \in slow THEN NoFile ELSE temp[w]]
  /\ UNCHANGED <<writer, file, map, retired, walk, deaths, damage>>

-----------------------------------------------------------------------------
(* The process dies; at the next start the map is that of store.meta, or   *)
(* what rebuildFromChunks finds when there is none.                        *)
Die ==
  /\ deaths < MaxDeaths
  /\ deaths' = deaths + 1
  /\ orphans' = orphans \cup {temp[w] : w \in {x \in Writers : temp[x] # NoFile}}
  /\ writer' = [w \in Writers |-> Idle] /\ temp' = [w \in Writers |-> NoFile]
  /\ map' \in {map, {c \in Chunks : file[c] # NoFile}}
  /\ walk' = NoWalk /\ retired' = {}
  /\ UNCHANGED <<file, damage>>

(* A chunk file decays. *)
Decay(c) ==
  /\ damage < MaxDamage /\ c \in map /\ file[c] # NoFile
  /\ damage' = damage + 1
  /\ \E i \in 1..Len(file[c]) : file' = [file EXCEPT ![c][i] = Damaged]
  /\ UNCHANGED <<writer, temp, orphans, map, retired, walk, deaths>>

Next ==
  \/ \E w \in Writers : Begin(w) \/ WritePart(w) \/ Rename(w) \/ WriteFails(w)
                        \/ Register(w)
  \/ \E c \in Chunks : Retire(c) \/ RemoveRetired(c) \/ Decay(c)
  \/ VerifyAll \/ VerifyOne \/ CleanTemps \/ Die

Spec == Init /\ [][Next]_vars

-----------------------------------------------------------------------------
(* A chunk under its own name is whole whatever died, failed or cleaned up *)
(* while it was written, unless the disk damaged it, and VerifyAll never   *)
(* reports damage that is only a write or a compaction in progress.        *)
ChunksWhole ==
  damage = 0 => /\ \A c \in Chunks : file[c] \in {NoFile, Whole}
                /\ walk.verdict # "corrupt"
=============================================================================
