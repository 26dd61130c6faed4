---------------------------- MODULE HandleCache ----------------------------
(***************************************************************************)
(* The chunk handle cache of engine/store/filecache.go: reference-counted  *)
(* descriptors, LRU eviction of idle ones, purge before a compaction       *)
(* victim is removed, CloseIdle under memory pressure, closeAll at Close.  *)
(*                                                                         *)
(* c.mu regions are single steps.  os.Open and the closes that the code    *)
(* makes after unlocking are steps of their own.  The store's barriers are *)
(* part of the model: a victim is purged once no reader holds it and none  *)
(* can pick it any more, and closeAll runs once every operation is over.   *)
(***************************************************************************)
EXTENDS Integers, Sequences, FiniteSets

CONSTANTS
  Chunks,   \* chunk sequence numbers
  Readers,  \* goroutines that read records
  MaxOpen,  \* chunkHandleCache.maxOpen
  MaxFds    \* bound: size of the descriptor table

NoChunk == "none"

ASSUME CacheAssumption ==
  /\ IsFiniteSet(Chunks) /\ IsFiniteSet(Readers) /\ NoChunk \notin Chunks
  /\ MaxOpen \in Nat \ {0} /\ MaxFds \in Nat

VARIABLES
  fd,          \* handleEntry.file by chunk, 0 when there is no entry
  refs,        \* handleEntry.refs
  lru,         \* idle entries, most recently used first
  closed,      \* chunkHandleCache.closed
  table,       \* descriptors: the chunk each one has open
  reader,      \* what each reader is doing
  victim,      \* compaction: the chunk being purged and its unlinked descriptor
  idleClosing, \* descriptors CloseIdle unlinked and has still to close
  retired,     \* chunks compaction took out of the registry
  removed      \* chunks whose file is removed

cvars == <<fd, refs, lru, closed, table, reader, victim, idleClosing, retired, removed>>

Fds == 1 .. MaxFds
Idle == [pc |-> "idle", chunk |-> NoChunk, fd |-> 0]
Entries == {c \in Chunks : fd[c] # 0}
Pinned == {c \in Chunks : refs[c] > 0}
FreeFds == {d \in Fds : table[d] = NoChunk}
\* Mutant of WithoutChunk: the entry stays on the list.
WithChunk(s, c) == s
\* lru.Remove of the element of c, when it is on the list.
WithoutChunk(s, c) ==
  IF \A i \in DOMAIN s : s[i] # c THEN s
  ELSE LET i == CHOOSE i \in DOMAIN s : s[i] = c
       IN SubSeq(s, 1, i - 1) \o SubSeq(s, i + 1, Len(s))
\* Mutant of ReaderOf: a reader that is still opening the file is missed.
PinnersOf(c) == {r \in Readers : reader[r].chunk = c /\ reader[r].pc = "reading"}
ReaderOf(c) == {r \in Readers : reader[r].chunk = c}

\* Closing the descriptors of the chunks in S, and forgetting their entries.
Unlinked(S) == [c \in Chunks |-> IF c \in S THEN 0 ELSE fd[c]]
Closed(S) == [d \in Fds |-> IF d \in S THEN NoChunk ELSE table[d]]
FdsOf(S) == {fd[c] : c \in S} \ {0}

\* Mutant of Excess: off by one.
ExcessLess(room, entries) ==
  IF Cardinality(entries) > room + 1 THEN Cardinality(entries) - room - 1 ELSE 0
\* evictOldestLocked until at most room entries are left or the list is empty.
Excess(room, entries) ==
  IF Cardinality(entries) > room THEN Cardinality(entries) - room ELSE 0
Kept(list, room, entries) ==
  IF Excess(room, entries) < Len(list) THEN Len(list) - Excess(room, entries) ELSE 0
Evicted(list, kept) == {list[i] : i \in kept + 1 .. Len(list)}

-----------------------------------------------------------------------------
(* Readers.                                                                *)

\* acquire, hit: one more pin, off the LRU list.
AcquireHit(r, c) ==
  /\ reader[r] = Idle
  /\ ~closed /\ c \notin retired
  /\ c \in Entries
  /\ refs' = [refs EXCEPT ![c] = @ + 1]
  /\ lru' = WithoutChunk(lru, c)
  /\ reader' = [reader EXCEPT ![r] = [pc |-> "reading", chunk |-> c, fd |-> fd[c]]]
  /\ UNCHANGED <<fd, closed, table, victim, idleClosing, retired, removed>>

\* acquire, miss: make room for one more entry and let go of the lock.
AcquireMiss(r, c) ==
  /\ reader[r] = Idle
  /\ ~closed /\ c \notin retired
  /\ c \notin Entries
  /\ LET kept == Kept(lru, MaxOpen - 1, Entries)
         out == Evicted(lru, kept)
     IN /\ fd' = Unlinked(out)
        /\ table' = Closed(FdsOf(out))
        /\ lru' = SubSeq(lru, 1, kept)
  /\ reader' = [reader EXCEPT ![r] = [pc |-> "opening", chunk |-> c, fd |-> 0]]
  /\ UNCHANGED <<refs, closed, victim, idleClosing, retired, removed>>

\* os.Open, with no lock held.
OpenFile(r) ==
  /\ reader[r].pc = "opening"
  /\ FreeFds # {}
  /\ LET d == CHOOSE x \in FreeFds : \A y \in FreeFds : x <= y
     IN /\ table' = [table EXCEPT ![d] = reader[r].chunk]
        /\ reader' = [reader EXCEPT ![r] = [pc |-> "opened", chunk |-> reader[r].chunk, fd |-> d]]
  /\ UNCHANGED <<fd, refs, lru, closed, victim, idleClosing, retired, removed>>

\* os.Open fails: acquire returns the error.
OpenFails(r) ==
  /\ reader[r].pc = "opening"
  /\ reader' = [reader EXCEPT ![r] = Idle]
  /\ UNCHANGED <<fd, refs, lru, closed, table, victim, idleClosing, retired, removed>>

\* Mutant of AddPin: a reader that lost the race to insert takes no pin.
AddPinIfWon(c) == IF c \in Entries /\ c \in Pinned THEN refs ELSE [refs EXCEPT ![c] = @ + 1]
AddPin(c) == [refs EXCEPT ![c] = @ + 1]
\* Mutant of AfterInsert: the late descriptor stays open.
AfterInsertKept(d, won) == table
AfterInsert(d, won) == IF won THEN table ELSE Closed({d})

\* Back under the lock: the first insertion wins, a late descriptor is closed.
Insert(r) ==
  /\ reader[r].pc = "opened"
  /\ LET c == reader[r].chunk
         won == c \notin Entries
     IN /\ fd' = IF won THEN [fd EXCEPT ![c] = reader[r].fd] ELSE fd
        /\ refs' = AddPin(c)
        /\ lru' = WithoutChunk(lru, c)
        /\ table' = AfterInsert(reader[r].fd, won)
        /\ reader' = [reader EXCEPT ![r] = [pc |-> "reading", chunk |-> c, fd |-> fd'[c]]]
  /\ UNCHANGED <<closed, victim, idleClosing, retired, removed>>

\* release: the last pin makes the entry idle, and the overflow is evicted.
Release(r) ==
  /\ reader[r].pc = "reading"
  /\ LET c == reader[r].chunk
         idle == IF refs[c] = 1 THEN <<c>> \o lru ELSE lru
         kept == IF refs[c] = 1 THEN Kept(idle, MaxOpen, Entries) ELSE Len(idle)
         out == Evicted(idle, kept)
     IN /\ refs' = [refs EXCEPT ![c] = @ - 1]
        /\ fd' = Unlinked(out)
        /\ table' = Closed(FdsOf(out))
        /\ lru' = SubSeq(idle, 1, kept)
  /\ reader' = [reader EXCEPT ![r] = Idle]
  /\ UNCHANGED <<closed, victim, idleClosing, retired, removed>>

-----------------------------------------------------------------------------
(* Compaction, memory pressure, shutdown.                                  *)

\* retireVictims: after the swap and the registry update no new reader picks c;
\* scans.Wait and the store lock see the readers that did out of the way.
Retire(c) ==
  /\ victim = Idle /\ ~closed
  /\ c \notin retired
  /\ retired' = retired \cup {c}
  /\ victim' = [pc |-> "draining", chunk |-> c, fd |-> 0]
  /\ UNCHANGED <<fd, refs, lru, closed, table, reader, idleClosing, removed>>

\* purge, under the lock: a pinned entry is refused, and the file stays; otherwise the
\* entry is unlinked ...
PurgeUnlink ==
  /\ victim.pc = "draining"
  /\ ReaderOf(victim.chunk) = {}
  /\ IF victim.chunk \in Pinned THEN victim' = Idle /\ UNCHANGED <<fd, lru>>
     ELSE /\ victim' = [pc |-> "unlinked", chunk |-> victim.chunk, fd |-> fd[victim.chunk]]
          /\ fd' = Unlinked({victim.chunk})
          /\ lru' = WithoutChunk(lru, victim.chunk)
  /\ UNCHANGED <<refs, closed, table, reader, idleClosing, retired, removed>>

\* ... and its descriptor closed after unlocking; without one nothing is closed.  An error
\* of the close leaves the file where it is.
PurgeClose ==
  /\ victim.pc = "unlinked"
  /\ table' = Closed({victim.fd})
  /\ victim' \in {[pc |-> "closed", chunk |-> victim.chunk, fd |-> 0], Idle}
  /\ UNCHANGED <<fd, refs, lru, closed, reader, idleClosing, retired, removed>>

\* os.Remove of the victim.
RemoveFile ==
  /\ victim.pc = "closed"
  /\ removed' = removed \cup {victim.chunk}
  /\ victim' = Idle
  /\ UNCHANGED <<fd, refs, lru, closed, table, reader, idleClosing, retired>>

\* Mutant of Unpinned: pins are ignored.
AllEntries == Entries
Unpinned == Entries \ Pinned

\* CloseIdle unlinks every unpinned entry under the lock (the list holds no others, so it
\* empties) ...
CloseIdle ==
  /\ idleClosing = {}
  /\ lru # <<>>
  /\ LET out == Unpinned
     IN /\ idleClosing' = FdsOf(out)
        /\ fd' = Unlinked(out)
        /\ lru' = <<>>
  /\ UNCHANGED <<refs, closed, table, reader, victim, retired, removed>>

\* ... and closes them after unlocking.
CloseIdleFiles ==
  /\ idleClosing # {}
  /\ table' = Closed(idleClosing)
  /\ idleClosing' = {}
  /\ UNCHANGED <<fd, refs, lru, closed, reader, victim, retired, removed>>

\* closeAll, called by Store.Close once no operation is left.
CloseAll ==
  /\ ~closed
  /\ \A r \in Readers : reader[r] = Idle
  /\ victim = Idle
  /\ closed' = TRUE
  /\ fd' = Unlinked(Chunks)
  /\ table' = Closed(FdsOf(Chunks))
  /\ lru' = <<>>
  /\ UNCHANGED <<refs, reader, victim, idleClosing, retired, removed>>

-----------------------------------------------------------------------------
Init ==
  /\ fd = [c \in Chunks |-> 0]
  /\ refs = [c \in Chunks |-> 0]
  /\ lru = <<>> /\ closed = FALSE
  /\ table = [d \in Fds |-> NoChunk]
  /\ reader = [r \in Readers |-> Idle]
  /\ victim = Idle /\ idleClosing = {} /\ retired = {} /\ removed = {}

Next ==
  \/ \E r \in Readers :
       \/ \E c \in Chunks : AcquireHit(r, c) \/ AcquireMiss(r, c)
       \/ OpenFile(r) \/ OpenFails(r) \/ Insert(r) \/ Release(r)
  \/ \E c \in Chunks : Retire(c)
  \/ PurgeUnlink \/ PurgeClose \/ RemoveFile
  \/ CloseIdle \/ CloseIdleFiles \/ CloseAll

Spec == Init /\ [][Next]_cvars

-----------------------------------------------------------------------------
(* Properties.                                                             *)

\* Type invariant.
TypeOK ==
  /\ fd \in [Chunks -> 0 .. MaxFds]
  /\ refs \in [Chunks -> Nat]
  /\ lru \in Seq(Chunks)
  /\ closed \in BOOLEAN
  /\ table \in [Fds -> Chunks \cup {NoChunk}]
  /\ reader \in [Readers -> [pc : {"idle", "opening", "opened", "reading"},
                             chunk : Chunks \cup {NoChunk}, fd : 0 .. MaxFds]]
  /\ victim \in [pc : {"idle", "draining", "unlinked", "closed"},
                 chunk : Chunks \cup {NoChunk}, fd : 0 .. MaxFds]
  /\ idleClosing \in SUBSET Fds
  /\ retired \in SUBSET Chunks /\ removed \in SUBSET Chunks

\* A descriptor a reader was handed stays open on its chunk until the reader
\* releases it, whatever eviction, purge, CloseIdle and closeAll do meanwhile.
PinnedStaysOpen ==
  \A r \in Readers :
    reader[r].pc = "reading" => /\ table[reader[r].fd] = reader[r].chunk
                                /\ fd[reader[r].chunk] = reader[r].fd

\* Every open descriptor has exactly one owner that will close it: an entry, a
\* reader about to insert it, the purge, or CloseIdle.  None leaks, none is
\* closed twice.
Owners(d) ==
  {<<"entry", c>> : c \in {c \in Chunks : fd[c] = d}}
    \cup {<<"opener", r>> : r \in {r \in Readers : reader[r].pc = "opened" /\ reader[r].fd = d}}
    \cup {<<"purge", x>> : x \in {x \in {victim.chunk} : victim.pc = "unlinked" /\ victim.fd = d}}
    \cup {<<"idle", x>> : x \in {x \in {d} : d \in idleClosing}}
OneOwner == \A d \in Fds : Cardinality(Owners(d)) = IF table[d] = NoChunk THEN 0 ELSE 1

\* The pins of an entry are the readers that hold it, and the LRU list is
\* exactly the unpinned entries, each once.
PinsCounted ==
  /\ \A c \in Chunks : refs[c] = Cardinality({r \in ReaderOf(c) : reader[r].pc = "reading"})
  /\ {lru[i] : i \in DOMAIN lru} = Entries \ Pinned
  /\ Len(lru) = Cardinality(Entries \ Pinned)

\* Idle descriptors never exceed maxOpen, and each reader at work pushes the
\* number of open descriptors over it by at most one: none is left behind by an
\* opener that lost the race, a failed acquire or an eviction.
OpenBounded ==
  /\ Len(lru) <= MaxOpen
  /\ Cardinality((Fds \ FreeFds) \ (idleClosing \cup {victim.fd})) <=
       MaxOpen + Cardinality({r \in Readers : reader[r] # Idle})

\* A file is removed only after the cache closed its descriptors; CloseIdle,
\* which closes after it unlocks, is the one exception.
RemovedFilesClosed ==
  \A d \in Fds : table[d] \in removed => d \in idleClosing

-----------------------------------------------------------------------------
\* Chunks and readers are only compared for equality, so TLC may exchange them.
Exchanges(S) == {p \in [S -> S] : \A y \in S : \E x \in S : p[x] = y}
CacheSymmetry == {[x \in DOMAIN p |-> p[x]] : p \in Exchanges(Chunks) \cup Exchanges(Readers)}
=============================================================================
