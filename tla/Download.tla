------------------------------- MODULE Download -------------------------------
(***************************************************************************)
(* A download of internal/httpx: resume from a .part file, one stream or   *)
(* ranged workers with slice files, a bounded number of retries and        *)
(* restarts, and the rename that activates the finished file.              *)
(*                                                                         *)
(* The asset is 1..Size; a file is the sequence of asset bytes written to  *)
(* it.  The server answers a request in every way the code tells apart,    *)
(* streams end early, stall or fail at any byte, and the process may be    *)
(* killed at any step and the download be called again on what is left on  *)
(* disk.                                                                   *)
(***************************************************************************)
EXTENDS Integers, Sequences, FiniteSets

CONSTANTS Size,         \* the bytes the server has
          Expected,     \* DownloadOptions.ExpectedSize
          MaxRetries, MaxRestarts,
          Parallel,     \* ExpectedSize reaches ParallelThreshold
          MaxCalls      \* how often Download is called

VARIABLES mode,      \* "idle", "open", "stream", "ranges", "ok", "failed"
          part,      \* DestPath.part
          dest,      \* DestPath, first an Old file
          slice,     \* the slice files of the ranged workers
          off, total, retries, restarts,
          worker,    \* the ranged workers
          reader,    \* the goroutine that reads the body ahead of the writer
          held,      \* the buffer the writer holds, 0 for none
          result,    \* what Download returned
          calls

vars == <<mode, part, dest, slice, off, total, retries, restarts, worker, reader, held,
          result, calls>>

W == 2

Asset == [i \in 1..Size |-> i]

Old == <<0>>

Prefix(n) == [i \in 1..n |-> i]

NoResult == [err |-> FALSE, bytes |-> 0, hash |-> <<>>]

Idle == [idx |-> 1, buf |-> <<0, 0>>, state |-> "none", pos |-> 0]

(* splitRange: contiguous chunks, the first ones longer by the remainder.  *)
Chunk(i) ==
  LET base == Size \div W  rem == Size % W
      len(j) == base + (IF j <= rem THEN 1 ELSE 0)
      first == IF i = 1 THEN 1 ELSE len(1) + 1
  IN first..(first + len(i) - 1)

Fails == mode' = "failed" /\ result' = [NoResult EXCEPT !.err = TRUE]

(* The .part goes and the next request starts at 0, within the limit,      *)
(* which a changed asset and a 416 meet after truncatePart, an             *)
(* inconsistent range and an ignored one before it.  truncatePart may      *)
(* fail.                                                                   *)
Restart(newTotal, truncatesFirst) ==
  /\ restarts' = restarts + 1
  /\ \/ /\ restarts + 1 > MaxRestarts /\ Fails
        /\ part' = IF truncatesFirst THEN <<>> ELSE part
        /\ UNCHANGED <<off, total>>
     \/ /\ restarts + 1 <= MaxRestarts /\ mode' = "open"
        /\ part' = <<>> /\ off' = 0 /\ total' = newTotal /\ UNCHANGED result
     \/ Fails /\ UNCHANGED <<part, off, total>>
  /\ UNCHANGED <<retries>>

(* A mutation of RetriesLeft: one retry too many. *)
RetriesLeftPlusOne(n) == n <= MaxRetries

RetriesLeft(n) == n < MaxRetries

(* A retry resumes from what is on disk; without one left the call fails,  *)
(* and so it does when the context ends during the backoff (sleepBackoff). *)
Retry(newOff) ==
  /\ \/ /\ RetriesLeft(retries)
        /\ retries' = retries + 1 /\ off' = newOff /\ mode' = "open" /\ UNCHANGED result
     \/ Fails /\ UNCHANGED <<retries, off>>
  /\ UNCHANGED <<restarts, total>>

(* finalizeCompletedPart: sync, then rename over the destination; a failed *)
(* step leaves the .part where it is.                                      *)
Finalize(hash) ==
  \/ /\ dest' = part /\ part' = <<>>
     /\ mode' = "ok"
     /\ result' = [err |-> FALSE, bytes |-> Len(part), hash |-> hash]
  \/ Fails /\ UNCHANGED <<dest, part>>

(***************************************************************************)
(* Download and download                                                   *)
(***************************************************************************)
Call ==
  /\ mode \in {"idle", "failed"} /\ calls < MaxCalls
  /\ calls' = calls + 1
  /\ part' = IF Expected > 0 /\ Len(part) > Expected THEN <<>> ELSE part
  /\ total' = Expected /\ retries' = 0 /\ restarts' = 0
  /\ off' = Len(part')
  /\ mode' = IF Parallel /\ part' = <<>> THEN "probe" ELSE "open"
  /\ result' = NoResult /\ reader' = Idle /\ held' = 0
  /\ UNCHANGED <<dest, slice, worker>>

(***************************************************************************)
(* downloadSingle                                                          *)
(***************************************************************************)

(* A request that fails, and any status but 206, 200 and 416. *)
OpenFails ==
  /\ mode = "open"
  /\ \/ Retry(Len(part))
     \/ Fails /\ UNCHANGED <<retries, off, restarts, total>>
  /\ UNCHANGED <<part, dest, slice, worker, reader, held, calls>>

(* openStream's body, read ahead from the given position. *)
Streams(from, newTotal) ==
  /\ mode' = "stream" /\ total' = newTotal
  /\ reader' = [Idle EXCEPT !.state = "reading", !.pos = from] /\ held' = 0
  /\ UNCHANGED <<part, off, retries, restarts, result>>

(* 206: parseContentRange refuses the header or its start is another one;  *)
(* a total that is not the known one restarts with the new one.            *)
Answer206 ==
  /\ mode = "open" /\ off > 0
  /\ \E consistent \in BOOLEAN :
       IF ~consistent THEN Restart(total, FALSE) /\ UNCHANGED <<reader, held>>
       ELSE /\ off < Size
            /\ IF total > 0 /\ Size # total THEN Restart(Size, TRUE) /\ UNCHANGED <<reader, held>>
               ELSE Streams(off, Size)
  /\ UNCHANGED <<dest, slice, worker, calls>>

(* 200: a server that ignores Range restarts the file; a Content-Length    *)
(* that is not the known total is refused, a missing one is not.           *)
Answer200 ==
  /\ mode = "open"
  /\ \E length \in BOOLEAN :
       IF off > 0 THEN Restart(total, FALSE) /\ UNCHANGED <<reader, held>>
       ELSE IF length /\ total > 0 /\ Size # total
            THEN Fails /\ UNCHANGED <<part, off, total, retries, restarts, reader, held>>
            ELSE Streams(0, IF length THEN Size ELSE total)
  /\ UNCHANGED <<dest, slice, worker, calls>>

(* 416: the .part was already complete, or it restarts. *)
Answer416 ==
  /\ mode = "open" /\ off > 0
  /\ IF total > 0 /\ off = total
     THEN Finalize(part) /\ UNCHANGED <<off, total, retries, restarts>>
     ELSE Restart(total, TRUE) /\ UNCHANGED dest
  /\ UNCHANGED <<slice, worker, reader, held, calls>>

(***************************************************************************)
(* streamToPart: a reader goroutine fills one of two buffers while the     *)
(* writer empties the other.                                               *)
(***************************************************************************)

(* A mutation of Flip: both take the same buffer. *)
FlipNot(i) == i

Flip(i) == 3 - i

Read ==
  /\ mode = "stream" /\ reader.state = "reading" /\ reader.pos < Size
  /\ reader' = [reader EXCEPT !.buf[reader.idx] = reader.pos + 1, !.pos = @ + 1,
                              !.state = "offering"]
  /\ UNCHANGED <<mode, part, dest, slice, off, total, retries, restarts, worker, held,
                 result, calls>>

(* The writer receives the chunk; the reader goes on into the other        *)
(* buffer.                                                                 *)
Receive ==
  /\ mode = "stream" /\ reader.state = "offering" /\ held = 0
  /\ held' = reader.idx
  /\ reader' = [reader EXCEPT !.state = "reading", !.idx = Flip(@)]
  /\ UNCHANGED <<mode, part, dest, slice, off, total, retries, restarts, worker, result, calls>>

(* The file is opened without truncation and written at the offset. *)
Write ==
  /\ mode = "stream" /\ held # 0
  /\ part' = IF off < Len(part) THEN [part EXCEPT ![off + 1] = reader.buf[held]]
             ELSE Append(part, reader.buf[held])
  /\ off' = off + 1 /\ held' = 0
  /\ UNCHANGED <<mode, dest, slice, total, retries, restarts, worker, reader, result, calls>>

(* End of the body: at the end of the asset, or before it when the         *)
(* connection closes early.                                                *)
StreamEnds ==
  /\ mode = "stream" /\ reader.state = "reading" /\ held = 0
  /\ IF total > 0 /\ off < total
     THEN Retry(off) /\ UNCHANGED <<dest, part>>
     ELSE Finalize(part) /\ UNCHANGED <<off, total, retries, restarts>>
  /\ UNCHANGED <<slice, worker, reader, held, calls>>

(* A stall or a read error resumes, a cancelled context does not. *)
StreamBreaks ==
  /\ mode = "stream" /\ held = 0
  /\ \/ Retry(off)
     \/ Fails /\ UNCHANGED <<retries, off, restarts, total>>
  /\ UNCHANGED <<part, dest, slice, worker, reader, held, calls>>

(***************************************************************************)
(* downloadParallel                                                        *)
(***************************************************************************)
NewWorker == [state |-> "open", retries |-> 0, restarts |-> 0]

(* The probe: without proof of range support the single stream runs; a     *)
(* size that is not the published one ends the attempt.                    *)
ProbeRanges ==
  /\ mode = "probe"
  /\ \E ranges \in BOOLEAN :
       IF ranges /\ Size = Expected
       THEN mode' = "ranges" /\ worker' = [i \in 1..W |-> NewWorker]
       ELSE mode' = "open" /\ UNCHANGED worker
  /\ UNCHANGED <<part, dest, slice, off, total, retries, restarts, reader, held, result, calls>>

Length(i) == Cardinality(Chunk(i))

First(i) == CHOOSE n \in Chunk(i) : \A m \in Chunk(i) : n <= m

(* downloadRange: one byte of the chunk, the rest of what a request may    *)
(* come to being a retry, a restart of the slice or the worker's failure.  *)
RangeStep(i) ==
  /\ mode = "ranges" /\ worker[i].state = "open"
  /\ \/ /\ Len(slice[i]) < Length(i)
        /\ slice' = [slice EXCEPT ![i] = Append(@, First(i) + Len(@))]
        /\ UNCHANGED worker
     \/ /\ Len(slice[i]) = Length(i)
        /\ worker' = [worker EXCEPT ![i].state = "done"] /\ UNCHANGED slice
     \/ /\ RetriesLeft(worker[i].retries)
        /\ worker' = [worker EXCEPT ![i].retries = @ + 1] /\ UNCHANGED slice
     \/ /\ worker[i].restarts < MaxRestarts
        /\ worker' = [worker EXCEPT ![i].restarts = @ + 1]
        /\ slice' = [slice EXCEPT ![i] = <<>>]
     \/ worker' = [worker EXCEPT ![i].state = "failed"] /\ UNCHANGED slice
  /\ UNCHANGED <<mode, part, dest, off, total, retries, restarts, reader, held, result, calls>>

(* preserveContiguousPrefix: slice 1 becomes the .part, the others go, and *)
(* the single stream resumes from it.                                      *)
RangesFail ==
  /\ mode = "ranges"
  /\ \A i \in 1..W : worker[i].state # "open"
  /\ \E i \in 1..W : worker[i].state = "failed"
  /\ part' = IF slice[1] # <<>> THEN slice[1] ELSE part
  /\ slice' = [i \in 1..W |-> <<>>]
  /\ off' = Len(part')
  /\ mode' = "open"
  /\ UNCHANGED <<dest, total, retries, restarts, worker, reader, held, result, calls>>

(* concatenateSlices writes the .part in the slices' order; a failure      *)
(* leaves what was written and the slices.                                 *)
RangesJoin ==
  /\ mode = "ranges"
  /\ \A i \in 1..W : worker[i].state = "done"
  /\ \/ /\ part' = slice[1] \o slice[2]
        /\ slice' = [i \in 1..W |-> <<>>]
        /\ mode' = "renaming"
        /\ UNCHANGED off
     \/ /\ part' = slice[1]
        /\ off' = Len(part') /\ mode' = "open"
        /\ UNCHANGED slice
  /\ UNCHANGED <<dest, total, retries, restarts, worker, reader, held, result, calls>>

(* The ranged attempt activates the file; a failure falls back to the      *)
(* single stream, which finds the .part complete.                          *)
RangesActivate ==
  /\ mode = "renaming"
  /\ \/ dest' = part /\ part' = <<>> /\ mode' = "ok" /\ UNCHANGED off
        /\ result' = [err |-> FALSE, bytes |-> Len(part), hash |-> part]
     \/ mode' = "open" /\ off' = Len(part) /\ UNCHANGED <<dest, part, result>>
  /\ UNCHANGED <<slice, total, retries, restarts, worker, reader, held, calls>>

(* The process is killed: the files stay. *)
Killed ==
  /\ mode \in {"open", "stream", "ranges", "renaming", "probe"} /\ calls < MaxCalls
  /\ mode' = "idle" /\ result' = NoResult /\ reader' = Idle /\ held' = 0
  /\ UNCHANGED <<part, dest, slice, off, total, retries, restarts, worker, calls>>

Init ==
  /\ mode = "idle" /\ part = <<>> /\ dest = Old
  /\ slice = [i \in 1..W |-> <<>>]
  /\ off = 0 /\ total = 0 /\ retries = 0 /\ restarts = 0
  /\ worker = [i \in 1..W |-> NewWorker] /\ reader = Idle /\ held = 0
  /\ result = NoResult /\ calls = 0

Step ==
  \/ OpenFails \/ Answer206 \/ Answer200 \/ Answer416
  \/ Read \/ Receive \/ Write \/ StreamEnds \/ StreamBreaks
  \/ ProbeRanges \/ RangesFail \/ RangesJoin \/ RangesActivate
  \/ \E i \in 1..W : RangeStep(i)

Next == Call \/ Killed \/ Step

(* The loops and the workers keep running. *)
Fairness == WF_vars(Step)

Spec == Init /\ [][Next]_vars /\ Fairness

(***************************************************************************)
(* Properties                                                              *)
(***************************************************************************)
TypeOK ==
  /\ mode \in {"idle", "probe", "open", "stream", "ranges", "renaming", "ok", "failed"}
  /\ off \in 0..Size /\ retries \in 0..MaxRetries /\ restarts \in 0..(MaxRestarts + 1)
  /\ held \in 0..2 /\ calls \in 0..MaxCalls

(* A download that returned without error left exactly the asset at the    *)
(* destination and reported its digest; one that did not return touched    *)
(* nothing there.                                                          *)
Exact ==
  /\ mode = "ok" => dest = Asset /\ result.hash = Asset /\ result.bytes = Size
  /\ dest \in {Old, Asset}

(* What a later call resumes from is a prefix of the asset, whatever was   *)
(* interrupted before.                                                     *)
Resumable == part = Prefix(Len(part)) /\ (mode \in {"open", "stream"} => off <= Len(part))

(* The published size is enforced: the final file matches it exactly. *)
(* The code does otherwise: TLC refutes this property (README, section 6). *)
SizeEnforced == mode = "ok" => Len(dest) = Expected

(* A call returns: retries and restarts are bounded. *)
Due == mode \in {"open", "stream", "ranges"}
Met == mode \in {"ok", "failed", "idle"}
Returns == Due ~> Met
=============================================================================
