----------------------------- MODULE GroupCounts -----------------------------
(***************************************************************************)
(* The counts of the built-in groups (engine/app/collections.go): a scan   *)
(* of the store, kept as a snapshot with the identity it belongs to, and   *)
(* dropped when a test result, an ingestion or a collection change is      *)
(* stored.                                                                 *)
(***************************************************************************)
EXTENDS Integers, FiniteSets

CONSTANTS Configs,
          Callers,     \* callers of GroupsOverview
          MaxChanges   \* changes of the store and of the favorites

VARIABLES record,      \* per configuration: "absent", "untested", "working"
          favorites,
          rev,         \* the collections revision
          snap,        \* countsSnap, or NoSnap
          dropping,    \* a stored change has not dropped the snapshot yet
          caller,      \* per caller: how far its call is, and the counts it has
          changes

vars == <<record, favorites, rev, snap, dropping, caller, changes>>

Stored == {c \in Configs : record[c] # "absent"}

(* The counts of the records a walk saw, for the favorites read before it. *)
Counted(walked, liked) ==
  [all |-> Cardinality(walked), favorites |-> Cardinality(walked \cap liked),
   working |-> Cardinality({c \in walked : record[c] = "working"})]

(* Besides what the code keeps, a call and a snapshot say how they were    *)
(* met: "change" when a change was stored during the call or dropped no    *)
(* snapshot, "short" when the walk ended early.                            *)
NoCounts == [all |-> 0, favorites |-> 0, working |-> 0]
NoSnap == [kept |-> FALSE, old |-> FALSE, count |-> 0, rev |-> 0, counts |-> NoCounts,
           met |-> {}]
Idle == [at |-> "idle", count |-> 0, rev |-> 0, liked |-> {}, counts |-> NoCounts, met |-> {}]

TypeOK ==
  /\ record \in [Configs -> {"absent", "untested", "working"}]
  /\ favorites \subseteq Configs /\ rev \in 0..MaxChanges /\ changes \in 0..MaxChanges
  /\ dropping \in BOOLEAN /\ snap.kept \in BOOLEAN
  /\ \A c \in Callers : caller[c].at \in {"idle", "identity", "scan", "scanned"}

Init ==
  /\ record \in [Configs -> {"absent", "untested"}] /\ favorites = {} /\ rev = 0
  /\ snap = NoSnap /\ dropping = FALSE
  /\ caller = [c \in Callers |-> Idle] /\ changes = 0

(* A change, and the calls it meets. *)
Change ==
  /\ changes < MaxChanges /\ changes' = changes + 1 /\ ~dropping
  /\ caller' = [k \in Callers |->
                  IF caller[k] = Idle THEN Idle
                  ELSE [caller[k] EXCEPT !.met = @ \cup {"change"}]]

(* The snapshot after a change that drops none. *)
Undropped == IF snap.kept THEN [snap EXCEPT !.met = @ \cup {"change"}] ELSE snap

-----------------------------------------------------------------------------
(* A test result or an ingestion is stored, and drops the snapshot next. *)
StoreChange(c, status) ==
  /\ Change /\ record[c] # status
  /\ record' = [record EXCEPT ![c] = status]
  /\ dropping' = TRUE
  /\ UNCHANGED <<favorites, rev, snap>>

(* A mutation of Dropped: the snapshot stays. *)
DroppedNot == snap

(* InvalidateCountsSnapshot. *)
Dropped == NoSnap

Drop ==
  /\ dropping /\ dropping' = FALSE
  /\ snap' = Dropped
  /\ UNCHANGED <<record, favorites, rev, caller, changes>>

(* ToggleFavorite under collections.mu; when the save fails the favorites  *)
(* have changed all the same, and neither the revision nor the snapshot.   *)
ToggleFavorite(c) ==
  /\ Change
  /\ favorites' = (favorites \ {c}) \cup ({c} \ favorites)
  /\ \E saved \in BOOLEAN :
       /\ rev' = IF saved THEN rev + 1 ELSE rev
       /\ snap' = IF saved THEN Dropped ELSE Undropped
  /\ UNCHANGED <<record, dropping>>

(* SaveImportedConfigs writes the imported records over the stored ones,   *)
(* whose test result is gone, and drops nothing.                           *)
Import(c) ==
  /\ Change
  /\ record' = [record EXCEPT ![c] = "untested"]
  /\ snap' = Undropped
  /\ UNCHANGED <<favorites, rev, dropping>>

-----------------------------------------------------------------------------
(* builtinGroupCounts. *)
ReadIdentity(k) ==
  /\ caller[k] = Idle
  /\ caller' = [caller EXCEPT ![k] =
       [Idle EXCEPT !.at = "identity", !.count = Cardinality(Stored), !.rev = rev]]
  /\ UNCHANGED <<record, favorites, rev, snap, dropping, changes>>

Serves(k) ==
  snap.kept /\ ~snap.old /\ snap.count = caller[k].count /\ snap.rev = caller[k].rev

(* The snapshot is served, or the scan begins with the favorites, and the  *)
(* identity that was read is not needed any more.                          *)
Look(k) ==
  /\ caller[k].at = "identity"
  /\ caller' = [caller EXCEPT ![k] =
       IF Serves(k) THEN Idle ELSE [Idle EXCEPT !.at = "scan", !.liked = favorites, !.met = caller[k].met]]
  /\ UNCHANGED <<record, favorites, rev, snap, dropping, changes>>

(* scanBuiltinGroupCounts: the walk ends early when a chunk cannot be      *)
(* read, after 30 seconds, or with the application; it returns the counts  *)
(* it has, and no error.                                                   *)
Scan(k) ==
  /\ caller[k].at = "scan"
  /\ \E walked \in SUBSET Stored :
       caller' = [caller EXCEPT ![k] =
         [Idle EXCEPT !.at = "scanned", !.counts = Counted(walked, caller[k].liked),
                      !.met = caller[k].met \cup IF walked = Stored THEN {} ELSE {"short"}]]
  /\ UNCHANGED <<record, favorites, rev, snap, dropping, changes>>

(* A mutation of Replaces: a snapshot that is still young is kept. *)
ReplacesOnlyEmpty == ~snap.kept

Replaces == ~snap.kept \/ snap.old

(* The identity is read again, and the snapshot is stored with it. *)
Keep(k) ==
  /\ caller[k].at = "scanned"
  /\ snap' = IF Replaces
             THEN [kept |-> TRUE, old |-> FALSE, count |-> Cardinality(Stored), rev |-> rev,
                   counts |-> caller[k].counts, met |-> caller[k].met]
             ELSE snap
  /\ caller' = [caller EXCEPT ![k] = Idle]
  /\ UNCHANGED <<record, favorites, rev, dropping, changes>>

(* builtinCountsSnapshotTTL passes; what an old snapshot holds is not read *)
(* any more.                                                               *)
Expire ==
  /\ snap.kept /\ ~snap.old
  /\ snap' = [NoSnap EXCEPT !.kept = TRUE, !.old = TRUE]
  /\ UNCHANGED <<record, favorites, rev, dropping, caller, changes>>

Returns(k) == Look(k) \/ Scan(k) \/ Keep(k)

Next ==
  \/ \E c \in Configs : \/ StoreChange(c, "untested") \/ StoreChange(c, "working")
                        \/ ToggleFavorite(c) \/ Import(c)
  \/ \E k \in Callers : ReadIdentity(k) \/ Returns(k)
  \/ Drop \/ Expire

(* Time passes, a change that was stored drops the snapshot, and a call    *)
(* that began goes on.  Nobody has to call again.                          *)
Fairness == WF_vars(Expire) /\ WF_vars(Drop) /\ \A k \in Callers : WF_vars(Returns(k))

Spec == Init /\ [][Next]_vars /\ Fairness

-----------------------------------------------------------------------------
Servable == snap.kept /\ ~snap.old
Stale == Servable /\ snap.counts # Counted(Stored, favorites)

(* A snapshot that may be served has the counts of the data, unless a      *)
(* change met the call that made it or dropped nothing, or its walk of the *)
(* store ended early.                                                      *)
SnapshotSound == ~dropping /\ snap.met = {} => ~Stale

(* "served from an authoritative snapshot invalidated by                   *)
(* store/test/collection changes": a snapshot that may be served has the   *)
(* counts of the data, once every change has dropped what was kept.        *)
(* The code does otherwise: TLC refutes this property (README, section 6). *)
SnapshotTrue == ~dropping => ~Stale

(* Whatever was kept, a snapshot with wrong counts is not served for ever, *)
(* and a call returns.                                                     *)
Due(i) == \/ i \in Callers /\ caller[i] # Idle
          \/ i = 0 /\ Stale
Met(i) == \/ i \in Callers /\ caller[i] = Idle
          \/ i = 0 /\ ~Stale
StaleEnds == \A i \in Callers \cup {0} : Due(i) ~> Met(i)
=============================================================================
