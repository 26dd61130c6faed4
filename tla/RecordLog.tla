----------------------------- MODULE RecordLog -----------------------------
(***************************************************************************)
(* What the journal of engine/store/wal.go promises its owner: records     *)
(* carry consecutive LSNs, and a record disappears only once the owner's   *)
(* durable checkpoint covers it.  The promise outlives failing writes,     *)
(* rolls and removals; it ends with a write behind a batch cut short, a    *)
(* removal behind a file that stayed, and a segment without its header.    *)
(***************************************************************************)
EXTENDS Integers

VARIABLES
  stored,  \* LSNs a replay would deliver
  top,     \* last LSN given to a stored record
  ckpt,    \* the owner's durable checkpoint
  sound    \* whether the promise still holds

logVars == <<stored, top, ckpt, sound>>

LogInit == stored = {} /\ top = 0 /\ ckpt = 0 /\ sound = TRUE

\* A batch, or the part of it that reached the disk.
Extend ==
  /\ sound /\ top' \in Int /\ top' > top
  /\ stored' = stored \cup (top + 1 .. top')
  /\ UNCHANGED <<ckpt, sound>>

\* The owner's checkpoint moves up to a stored record.
Advance ==
  /\ sound /\ ckpt' \in ckpt .. top
  /\ UNCHANGED <<stored, top, sound>>

\* Covered records may go.
Discard ==
  /\ sound /\ stored' \subseteq stored
  /\ \A l \in stored \ stored' : l <= ckpt
  /\ UNCHANGED <<top, ckpt, sound>>

\* One of the three, after which nothing is promised.
Break == sound /\ ~sound' /\ stored' = {} /\ top' = 0 /\ ckpt' = 0

LogNext == Extend \/ Advance \/ Discard \/ Break

LogSpec == LogInit /\ [][LogNext]_logVars

=============================================================================
