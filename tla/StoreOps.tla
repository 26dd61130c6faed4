------------------------------ MODULE StoreOps ------------------------------
(***************************************************************************)
(* The calls of the store as operations that come, wait and end            *)
(* (engine/store/store.go, flush.go): the gate and the operation count     *)
(* that Close drains, the back-pressure on writers, the wait of Flush, the *)
(* Flush inside Compact and RebuildIndex, and the flush worker all of them *)
(* wait for.  What the tables hold is the business of Store; here a table  *)
(* is a number of records.                                                 *)
(*                                                                         *)
(* A region under writeMu or mu is one step.  closed and stopping, which   *)
(* Close sets one after the other, are one flag.                           *)
(***************************************************************************)
EXTENDS Integers, FiniteSets

CONSTANTS Callers,
          MaxFrozen,      \* defaultMaxFrozen
          TableRecords,   \* records that freeze a table
          MaxCalls, MaxFaults

VARIABLES closed, gate,   \* Store.closed; Close holds the gate
          closer,         \* Close: "open", "gate", "drain", "freeze", "stop", "join", "done"
          caller,         \* what each caller runs, and how far it is
          active, frozen, flushing,  \* records of the active table; the queue; a table in hand
          wake, retry,    \* flushWake holds a token; a retry timer is set
          err,            \* Store.flushErr
          worker,         \* "select", "loop", "flush", "drain", "last", "exit"
          calls, faults, forced  \* used so far; tables ForceFreeze queued

queue == <<active, frozen, flushing, wake>>
vars == <<closed, gate, closer, caller, queue, retry, err, worker, calls, faults, forced>>

Ops == {"upsert", "delete", "flush", "compact"}
Idle == [op |-> "none", at |-> "idle"]
Pending == frozen + (IF flushing THEN 1 ELSE 0)

Goto(c, at) == caller' = [caller EXCEPT ![c].at = at]
Return(c) == caller' = [caller EXCEPT ![c] = Idle]

(* What s.ops counts: from beginOp to endOp. *)
Counted(c) == caller[c] # Idle

Init ==
  /\ closed = FALSE /\ gate = FALSE /\ closer = "open"
  /\ caller = [c \in Callers |-> Idle]
  /\ active = 0 /\ frozen = 0 /\ flushing = FALSE /\ wake = FALSE /\ retry = FALSE
  /\ err = FALSE /\ worker = "select" /\ calls = 0 /\ faults = 0 /\ forced = 0

-----------------------------------------------------------------------------
(* Operations.                                                             *)

(* A mutation of Admitted: the flag is not looked at under the gate. *)
AdmittedAlways == TRUE

Admitted == ~closed

(* A call passes beginOp: once the gate is free, and Close has not been    *)
(* called.  One that has returns at once.                                  *)
BeginOp(c, op) ==
  /\ caller[c] = Idle /\ calls < MaxCalls /\ calls' = calls + 1
  /\ ~gate /\ Admitted
  /\ caller' = [caller EXCEPT ![c] = [op |-> op, at |-> IF op = "compact" THEN "lock" ELSE "run"]]
  /\ UNCHANGED <<closed, gate, closer, queue, retry, err, worker, faults, forced>>

(* freezeLocked on a table of n records. *)
Freeze(n) ==
  /\ active' = 0 /\ frozen' = frozen + (IF n > 0 THEN 1 ELSE 0)
  /\ wake' = (wake \/ n > 0)
  /\ UNCHANGED flushing

(* A mutation of Throttled: one table more may wait. *)
ThrottledLate(pending) == pending > MaxFrozen + 1

Throttled(pending) == pending >= MaxFrozen

(* writeRecords. *)
Upsert(c) ==
  /\ caller[c] = [op |-> "upsert", at |-> "run"]
  /\ IF active + 1 >= TableRecords THEN Freeze(active + 1)
     ELSE active' = active + 1 /\ UNCHANGED <<frozen, flushing, wake>>
  /\ IF Throttled(frozen' + (IF flushing THEN 1 ELSE 0)) THEN Goto(c, "check") ELSE Return(c)
  /\ UNCHANGED <<closed, gate, closer, retry, err, worker, calls, faults, forced>>

(* Delete of a live key: the table grows, and is neither frozen nor        *)
(* throttled.                                                              *)
Delete(c) ==
  /\ caller[c] = [op |-> "delete", at |-> "run"]
  /\ active' = active + 1 /\ Return(c)
  /\ UNCHANGED <<closed, gate, closer, frozen, flushing, wake, retry, err, worker,
                 calls, faults, forced>>

(* Flush up to its wait. *)
FlushFreezes(c) ==
  /\ caller[c].op \in {"flush", "compact"} /\ caller[c].at = "run"
  /\ Freeze(active) /\ Goto(c, "check")
  /\ UNCHANGED <<closed, gate, closer, retry, err, worker, calls, faults, forced>>

(* The predicates of the two waits on flushCond. *)
Proceeds(op) ==
  IF op = "upsert" THEN ~Throttled(Pending) ELSE Pending = 0 \/ (err /\ closed)

Check(c) ==
  /\ caller[c].at = "check"
  /\ IF ~Proceeds(caller[c].op) THEN Goto(c, "wait")
     ELSE IF caller[c].op = "compact" /\ ~err THEN Goto(c, "merge") ELSE Return(c)
  /\ UNCHANGED <<closed, gate, closer, queue, retry, err, worker, calls, faults, forced>>

(* compactMu. *)
Holds(c) == caller[c].op = "compact" /\ caller[c].at \in {"nested", "run", "check", "wait", "merge"}

LockCompact(c) ==
  /\ caller[c].at = "lock" /\ \A d \in Callers : ~Holds(d)
  /\ Goto(c, "nested")
  /\ UNCHANGED <<closed, gate, closer, queue, retry, err, worker, calls, faults, forced>>

(* The beginOp of the Flush that Compact and RebuildIndex call, themselves *)
(* counted already.                                                        *)
NestedFlush(c) ==
  /\ caller[c].at = "nested" /\ ~gate
  /\ IF Admitted THEN Goto(c, "run") ELSE Return(c)
  /\ UNCHANGED <<closed, gate, closer, queue, retry, err, worker, calls, faults, forced>>

(* The rest of Compact or RebuildIndex, which Store models. *)
Merge(c) ==
  /\ caller[c].at = "merge" /\ Return(c)
  /\ UNCHANGED <<closed, gate, closer, queue, retry, err, worker, calls, faults, forced>>

(* ForceFreeze and the freeze of ApplyPressure are not counted. *)
ForceFreeze ==
  /\ active > 0 /\ Freeze(active) /\ forced' = forced + 1
  /\ UNCHANGED <<closed, gate, closer, caller, retry, err, worker, calls, faults>>

-----------------------------------------------------------------------------
(* The flush worker.                                                       *)

(* A mutation of Broadcast: the waiters are not woken. *)
BroadcastNone == caller

Broadcast ==
  [c \in Callers |-> IF caller[c].at = "wait" THEN [caller[c] EXCEPT !.at = "check"]
                     ELSE caller[c]]

Wakes ==
  /\ worker = "select" /\ wake /\ wake' = FALSE /\ worker' = "loop"
  /\ UNCHANGED <<closed, gate, closer, caller, active, frozen, flushing, retry, err,
                 calls, faults, forced>>

FlushStops ==
  /\ worker = "select" /\ closer = "join" /\ worker' = "drain"
  /\ UNCHANGED <<closed, gate, closer, caller, queue, retry, err, calls, faults, forced>>

(* flushOne and drainForShutdown take the oldest table. *)
Take ==
  /\ worker \in {"loop", "drain"}
  /\ IF frozen = 0
     THEN /\ worker' = IF worker = "loop" THEN "select" ELSE "exit"
          /\ UNCHANGED <<frozen, flushing>>
     ELSE /\ worker' = IF worker = "loop" THEN "flush" ELSE "last"
          /\ frozen' = frozen - 1 /\ flushing' = TRUE
  /\ UNCHANGED <<closed, gate, closer, caller, active, wake, retry, err, calls, faults, forced>>

(* A table is flushed, or it fails: it goes back to the queue, but not     *)
(* once the store stops.                                                   *)
Flushed ==
  /\ worker \in {"flush", "last"} /\ flushing' = FALSE /\ caller' = Broadcast
  /\ worker' = IF worker = "flush" THEN "loop" ELSE "drain"
  /\ \/ /\ err' = (worker = "last" /\ err)
        /\ UNCHANGED <<frozen, retry, faults>>
     \/ /\ faults < MaxFaults /\ faults' = faults + 1 /\ err' = TRUE
        /\ frozen' = IF closed THEN frozen ELSE frozen + 1
        /\ retry' = (retry \/ ~closed)
  /\ UNCHANGED <<closed, gate, closer, active, wake, calls, forced>>

RetryWakes ==
  /\ retry /\ retry' = FALSE /\ wake' = TRUE
  /\ UNCHANGED <<closed, gate, closer, caller, active, frozen, flushing, err, worker,
                 calls, faults, forced>>

-----------------------------------------------------------------------------
(* Close.                                                                  *)

CloseBegins ==
  /\ closer = "open" /\ closer' = "gate" /\ closed' = TRUE
  /\ UNCHANGED <<gate, caller, queue, retry, err, worker, calls, faults, forced>>

CloseLocks ==
  /\ closer = "gate" /\ closer' = "drain" /\ gate' = TRUE
  /\ UNCHANGED <<closed, caller, queue, retry, err, worker, calls, faults, forced>>

CloseDrained ==
  /\ closer = "drain" /\ \A c \in Callers : ~Counted(c)
  /\ closer' = "freeze" /\ gate' = FALSE
  /\ UNCHANGED <<closed, caller, queue, retry, err, worker, calls, faults, forced>>

CloseFreezes ==
  /\ closer = "freeze" /\ closer' = "stop" /\ Freeze(active)
  /\ UNCHANGED <<closed, gate, caller, retry, err, worker, calls, faults, forced>>

CloseStops ==
  /\ closer = "stop" /\ closer' = "join"
  /\ UNCHANGED <<closed, gate, caller, queue, retry, err, worker, calls, faults, forced>>

CloseReturns ==
  /\ closer = "join" /\ worker = "exit" /\ closer' = "done"
  /\ UNCHANGED <<closed, gate, caller, queue, retry, err, worker, calls, faults, forced>>

-----------------------------------------------------------------------------
Work == Wakes \/ FlushStops \/ Take \/ Flushed
Runs(c) ==
  \/ Upsert(c) \/ Delete(c) \/ FlushFreezes(c) \/ Check(c) \/ LockCompact(c)
  \/ NestedFlush(c) \/ Merge(c)
Closes == CloseLocks \/ CloseDrained \/ CloseFreezes \/ CloseStops \/ CloseReturns

Next ==
  \/ \E c \in Callers : Runs(c) \/ \E op \in Ops : BeginOp(c, op)
  \/ Work \/ RetryWakes \/ ForceFreeze \/ CloseBegins \/ Closes

Goroutines == Work \/ Closes \/ \E c \in Callers : Runs(c)

(* Goroutines keep running. *)
Fairness == WF_vars(Work) /\ WF_vars(Closes) /\ \A c \in Callers : WF_vars(Runs(c))

Spec == Init /\ [][Next]_vars /\ Fairness

-----------------------------------------------------------------------------
TypeOK ==
  /\ {closed, gate, flushing, wake, retry, err} \subseteq BOOLEAN
  /\ closer \in {"open", "gate", "drain", "freeze", "stop", "join", "done"}
  /\ worker \in {"select", "loop", "flush", "drain", "last", "exit"}
  /\ caller \in [Callers -> [op : Ops \cup {"none"},
       at : {"idle", "lock", "nested", "run", "check", "wait", "merge"}]]
  /\ active \in 0..MaxCalls /\ frozen \in 0..MaxCalls /\ forced \in 0..MaxCalls
  /\ calls \in 0..MaxCalls /\ faults \in 0..MaxFaults

(* No operation runs once Close has drained them, and none is admitted     *)
(* afterwards; when Close returns no table is left.                        *)
CloseQuiet ==
  /\ closer \in {"freeze", "stop", "join", "done"} => \A c \in Callers : ~Counted(c)
  /\ closer = "done" => active = 0 /\ Pending = 0

(* Back-pressure: the tables above the limit are at most one for every     *)
(* caller, which waits for room, and those ForceFreeze added.              *)
PendingBounded == Pending <= MaxFrozen - 1 + Cardinality(Callers) + forced

(* Close holds the gate for a counted Compact, which waits for the gate. *)
Stuck == gate /\ \E c \in Callers : caller[c].at = "nested"

(* Every call returns, a throttled writer and a Close included, unless a   *)
(* Close came between the beginOp of Compact and that of its Flush.        *)
Returned == (\A c \in Callers : caller[c] = Idle) /\ closer \in {"open", "done"}
Due == ~Returned
Met == Returned \/ Stuck
OpsReturn == Due ~> Met

(* Comment of Close: it drains the operations in flight.  It waits for     *)
(* ever for a Compact that waits for the gate.                             *)
(* The code does otherwise: TLC refutes this property (README, section 6). *)
CloseEnds == closer = "gate" ~> closer = "done"

(* Comment of writeRecords: the store never buffers more than maxFrozen    *)
(* pending tables.                                                         *)
(* The code does otherwise: TLC refutes this property (README, section 6). *)
FrozenBounded == Pending <= MaxFrozen
=============================================================================
