------------------------------ MODULE TestQueue ------------------------------
(***************************************************************************)
(* The test scheduler of engine/testqueue: queue.go with its admission     *)
(* backlog (backlog.go).  A region under q.mu is one step, and so is a     *)
(* check of a task under task.mu with what the worker does next.           *)
(*                                                                         *)
(* A fingerprint stands for its configuration, its protocol and its        *)
(* source; "running" is preparing, testing and measuring, and "tested"     *)
(* is passed, failed and timed out.  Latencies and statistics are left     *)
(* out.  The bounded polls of Dequeue (200 ms) and of the slot wait        *)
(* (100 ms) make a blocked worker see every change in the end, so the      *)
(* notify channel needs no state.                                          *)
(***************************************************************************)
EXTENDS Integers, Sequences, FiniteSets, FiniteSetsExt, SequencesExt

CONSTANTS
  Fps,             \* configurations
  Workers, Tasks,  \* identities of worker goroutines and of tasks, 1 .. n
  Tuners,          \* callers of SetConcurrency
  Batches,         \* candidate lists of EnqueueBacklog
  Options, Prios,  \* what Enqueue does with a duplicate; priorities
  MaxQueueSize, MaxAttempts, Measurements, CoreProbes, AdmissionBatch, AdmissionFloor,
  Concurrency, Sizes,  \* Config.Concurrency; the sizes the tuners ask for
  MaxCalls         \* bound: calls from outside

ASSUME QueueAssumption ==
  /\ MaxQueueSize \in Nat \ {0} /\ MaxAttempts \in Nat \ {0} /\ Measurements \in Nat \ {0}
  /\ CoreProbes \in Nat \ {0} /\ AdmissionBatch \in Nat \ {0} /\ AdmissionFloor \in Nat \ {0}

VARIABLES
  task,           \* tasks by identifier: state, fingerprint, priority, batch
  pending,        \* tasks in the heap
  inflight,       \* tasks a worker took
  byFp,           \* byFingerprint, 0 for absent
  backlog,        \* deferred candidates: fingerprint and batch
  batch,          \* the open bulk batch
  worker,         \* program counter, task, attempt or measurement, liveWorkers as read
  live, desired,  \* liveWorkers, desiredWorkers
  slots,          \* core slots taken
  paused, held, stopped,
  tuner,          \* SetConcurrency calls under way: size asked for, stopped flag checked
  admitting,      \* an EnqueueBacklog or ResumeAdmission call is about to admit
  calls

vars == <<task, pending, inflight, byFp, backlog, batch, worker, live, desired, slots,
          paused, held, stopped, tuner, admitting, calls>>
queueVars == <<task, pending, inflight, byFp, backlog, batch>>
poolVars == <<live, desired, tuner>>
modeVars == <<paused, held, stopped>>

NoTask == [st |-> "none", fp |-> CHOOSE f \in Fps : TRUE, prio |-> 0, batch |-> 0]
NoBatch == [id |-> 0, planned |-> 0, done |-> 0, finished |-> FALSE]
At(pc) == [pc |-> pc, t |-> 0, n |-> 0, seen |-> 0]
Idle == [n |-> -1, checked |-> FALSE]

Terminal(s) == s \in {"tested", "cancelled"}
Cancelled(t) == task[t].st = "cancelled"
Live == {t \in Tasks : task[t].st \in {"queued", "running"}}

Init ==
  /\ task = [t \in Tasks |-> NoTask] /\ pending = {} /\ inflight = {}
  /\ byFp = [f \in Fps |-> 0] /\ backlog = << >> /\ batch = NoBatch
  /\ worker = [w \in Workers |-> At(IF w <= Concurrency THEN "top" ELSE "gone")]
  /\ live = Concurrency /\ desired = Concurrency /\ slots = 0
  /\ paused = FALSE /\ held = FALSE /\ stopped = FALSE
  /\ tuner = [r \in Tuners |-> Idle] /\ admitting = FALSE /\ calls = 0

Call == calls < MaxCalls /\ calls' = calls + 1
Unused == SetToSortSeq({t \in Tasks : task[t].st = "none"}, <)
NewTask(f, prio, b) == [st |-> "queued", fp |-> f, prio |-> prio, batch |-> b]

-----------------------------------------------------------------------------
(* finishTaskLocked, the one way into a terminal state.                    *)

\* Mutant of ReportDue: the deferred candidates are forgotten.
ReportDueEarly(b, n, left) == b.done + n >= b.planned

\* batchCompletedLocked: every task materialised has ended and the backlog is empty.
ReportDue(b, n, left) == left = << >> /\ b.done + n >= b.planned

\* Mutant of Unfinished: a task ends a second time.
Ending(ts) == {t \in ts : task[t].st # "none"}
Unfinished(ts) == {t \in ts : ~Terminal(task[t].st)}

\* The unfinished tasks of ts end in state s, and left is the backlog by then.
Finish(ts, s, left) ==
  LET ends == Unfinished(ts)
      n == Cardinality({t \in ends : task[t].batch = batch.id})
      counted == batch.id # 0 /\ ~batch.finished /\ n > 0
  IN /\ task' = [t \in Tasks |-> IF t \in ends THEN [task[t] EXCEPT !.st = s] ELSE task[t]]
     /\ pending' = pending \ ends /\ inflight' = inflight \ ends
     /\ byFp' = [f \in Fps |-> IF \E t \in ends : task[t].fp = f THEN 0 ELSE byFp[f]]
     /\ batch' = IF counted THEN [batch EXCEPT !.done = @ + n, !.finished = ReportDue(batch, n, left)]
                 ELSE batch
     /\ backlog' = left

-----------------------------------------------------------------------------
(* Calls from the application.                                             *)

\* A duplicate is refused, and may raise the priority of the task in the index.
Enqueue(f, prio, opt) ==
  /\ Call /\ ~stopped /\ Cardinality(pending) < MaxQueueSize
  /\ Len(Unused) > Len(backlog)
  /\ IF byFp[f] # 0 /\ opt # "allow"
     THEN /\ task' = IF opt = "replace" /\ prio > task[byFp[f]].prio
                     THEN [task EXCEPT ![byFp[f]].prio = prio] ELSE task
          /\ UNCHANGED <<pending, byFp>>
     ELSE /\ task' = [task EXCEPT ![Head(Unused)] = NewTask(f, prio, 0)]
          /\ pending' = pending \cup {Head(Unused)}
          /\ byFp' = [byFp EXCEPT ![f] = Head(Unused)]
  /\ UNCHANGED <<inflight, backlog, batch, worker, slots, admitting, poolVars, modeVars>>

\* Cancel, CancelByFingerprint, CancelBySource.
Cancel(t) ==
  /\ Call /\ t \in pending \cup inflight
  /\ Finish({t}, "cancelled", backlog)
  /\ UNCHANGED <<worker, slots, admitting, poolVars, modeVars>>

\* CancelAll drops the deferred candidates first.
CancelAll ==
  /\ Call
  /\ Finish(pending \cup inflight, "cancelled", << >>)
  /\ UNCHANGED <<worker, slots, admitting, poolVars, modeVars>>

Pause ==
  /\ Call /\ ~stopped /\ paused' = TRUE
  /\ UNCHANGED <<held, stopped, worker, slots, admitting, queueVars, poolVars>>

Resume ==
  /\ Call /\ paused /\ paused' = FALSE
  /\ UNCHANGED <<held, stopped, worker, slots, admitting, queueVars, poolVars>>

\* Stop up to the wait for the workers, which has ended when they are gone.
Stop ==
  /\ Call /\ ~stopped /\ stopped' = TRUE
  /\ backlog' = << >>
  /\ UNCHANGED <<task, pending, inflight, byFp, batch, worker, slots, paused, held, admitting,
                 poolVars>>

-----------------------------------------------------------------------------
(* The admission backlog.                                                  *)

\* OpenBatch, then the first lock region of EnqueueBacklog: a candidate that is live or
\* deferred already is skipped.
EnqueueBacklog(fs) ==
  /\ Call /\ ~stopped /\ ~admitting /\ fs # << >>
  /\ LET new == SelectSeq(fs, LAMBDA f : byFp[f] = 0 /\ \A i \in DOMAIN backlog : backlog[i].fp # f)
     IN /\ Len(Unused) >= Len(backlog) + Len(new)
        /\ backlog' = backlog \o [i \in DOMAIN new |-> [fp |-> new[i], batch |-> batch.id + 1]]
  /\ batch' = [NoBatch EXCEPT !.id = batch.id + 1]
  /\ admitting' = TRUE
  /\ UNCHANGED <<task, pending, inflight, byFp, worker, slots, poolVars, modeVars>>

PauseAdmission ==
  /\ Call /\ ~held /\ held' = TRUE
  /\ UNCHANGED <<paused, stopped, worker, slots, admitting, queueVars, poolVars>>

ResumeAdmission ==
  /\ Call /\ held /\ ~admitting /\ held' = FALSE /\ admitting' = TRUE
  /\ UNCHANGED <<paused, stopped, worker, slots, queueVars, poolVars>>

AdmissionFloorLocked == IF AdmissionFloor > MaxQueueSize THEN MaxQueueSize ELSE AdmissionFloor

\* Mutant of Mature: the live queue is not looked at again.
MatureAnyway(n) == SubSeq(backlog, 1, n)

\* The tasks made of the first n candidates: one that is live by now is dropped.
Mature(n) == SelectSeq(SubSeq(backlog, 1, n), LAMBDA x : byFp[x.fp] = 0)

\* The loop of admit takes candidate n.
Takes(n) ==
  /\ ~stopped /\ ~held /\ ~paused
  /\ Len(Mature(n - 1)) < AdmissionBatch
  /\ Cardinality(pending) + Cardinality(inflight) + Len(Mature(n - 1)) < AdmissionFloorLocked

\* admit, one lock region.
Admit ==
  LET n == Max({k \in 0 .. Len(backlog) : \A j \in 1 .. k : Takes(j)})
      new == Mature(n)
      Made(t, k) == k <= Len(new) /\ Unused[k] = t
      mine == SelectSeq(new, LAMBDA x : x.batch = batch.id)
  IN /\ backlog' = SubSeq(backlog, n + 1, Len(backlog))
     /\ task' = [t \in Tasks |->
                   IF \E k \in DOMAIN new : Made(t, k)
                   THEN LET k == CHOOSE k \in DOMAIN new : Made(t, k)
                        IN NewTask(new[k].fp, 0, new[k].batch)
                   ELSE task[t]]
     /\ pending' = pending \cup {Unused[k] : k \in DOMAIN new}
     /\ byFp' = [f \in Fps |-> IF \E k \in DOMAIN new : new[k].fp = f
                               THEN Unused[CHOOSE k \in DOMAIN new : new[k].fp = f] ELSE byFp[f]]
     /\ batch' = IF batch.finished THEN batch ELSE [batch EXCEPT !.planned = @ + Len(mine)]
     /\ UNCHANGED inflight

\* The second half of EnqueueBacklog and of ResumeAdmission.
CallAdmits ==
  /\ admitting /\ admitting' = FALSE /\ Admit
  /\ UNCHANGED <<worker, slots, calls, poolVars, modeVars>>

-----------------------------------------------------------------------------
(* The size of the pool.                                                   *)

\* SetConcurrency stores the target and wakes the workers blocked in Dequeue.
SetConcurrency(r, n) ==
  /\ Call /\ tuner[r] = Idle /\ ~stopped
  /\ tuner' = [tuner EXCEPT ![r] = [n |-> n, checked |-> FALSE]]
  /\ desired' = n
  /\ worker' = [w \in Workers |-> IF worker[w].pc = "get" THEN At("woken") ELSE worker[w]]
  /\ UNCHANGED <<live, slots, admitting, queueVars, modeVars>>

\* The growth loop: the stopped flag is read, then the pool grows by one worker or the
\* target is found reached.
GrowChecks(r) ==
  /\ tuner[r].n >= 0 /\ ~tuner[r].checked
  /\ tuner' = [tuner EXCEPT ![r] = IF stopped THEN Idle ELSE [@ EXCEPT !.checked = TRUE]]
  /\ UNCHANGED <<worker, live, desired, slots, admitting, calls, queueVars, modeVars>>

Grow(r) ==
  /\ tuner[r].checked
  /\ IF live >= tuner[r].n
     THEN tuner' = [tuner EXCEPT ![r] = Idle] /\ UNCHANGED <<live, worker>>
     ELSE /\ tuner' = [tuner EXCEPT ![r].checked = FALSE]
          /\ live' = live + 1
          /\ worker' = [worker EXCEPT ![Min({w \in Workers : worker[w].pc = "gone"})] = At("top")]
  /\ UNCHANGED <<desired, slots, admitting, calls, queueVars, modeVars>>

\* The top of the worker loop: above the target a worker tries to retire, by a compare and
\* swap on the count it read.
Top(w) ==
  /\ worker[w].pc = "top"
  /\ worker' = [worker EXCEPT ![w] = IF live > desired THEN [At("retire") EXCEPT !.seen = live]
                                     ELSE At("get")]
  /\ UNCHANGED <<live, desired, tuner, slots, admitting, calls, queueVars, modeVars>>

Retire(w) ==
  /\ worker[w].pc = "retire"
  /\ IF live = worker[w].seen
     THEN live' = live - 1 /\ worker' = [worker EXCEPT ![w] = At("gone")]
     ELSE worker' = [worker EXCEPT ![w] = At("top")] /\ UNCHANGED live
  /\ UNCHANGED <<desired, tuner, slots, admitting, calls, queueVars, modeVars>>

-----------------------------------------------------------------------------
(* Dequeue.                                                                *)

\* The head of the heap: highest priority, then oldest.
First == CHOOSE t \in pending : \A u \in pending \ {t} :
           task[t].prio > task[u].prio \/ (task[t].prio = task[u].prio /\ t < u)
Ready == pending # {} /\ ~paused

\* Under q.mu: a task is handed out whether or not the queue was stopped meanwhile.
Dequeue(w) ==
  /\ worker[w].pc = "get" /\ Ready
  /\ worker' = [worker EXCEPT ![w] = [At("park") EXCEPT !.t = First, !.n = 1]]
  /\ pending' = pending \ {First} /\ inflight' = inflight \cup {First}
  /\ task' = [task EXCEPT ![First].st = "running"]
  /\ UNCHANGED <<byFp, backlog, batch, slots, admitting, calls, poolVars, modeVars>>

\* A resize was signalled: the worker returns to the top of its loop (ErrResize), or misses
\* it, because another case of the select was ready or it read the channel afterwards.
Resized(w) ==
  /\ worker[w].pc = "woken"
  /\ \E pc \in {"top", "get"} : worker' = [worker EXCEPT ![w] = At(pc)]
  /\ UNCHANGED <<slots, admitting, calls, queueVars, poolVars, modeVars>>

\* Mutant of StopSeen: only a worker that waits for a slot sees the stop.
StopSeenParked(w) == stopped /\ worker[w].pc = "park"
StopSeen(w) == stopped /\ worker[w].pc \in {"get", "woken"}

\* The select found the context cancelled: the worker exits.
Leave(w) ==
  /\ StopSeen(w)
  /\ live' = live - 1 /\ worker' = [worker EXCEPT ![w] = At("gone")]
  /\ UNCHANGED <<desired, tuner, slots, admitting, calls, queueVars, modeVars>>

-----------------------------------------------------------------------------
(* runTask.                                                                *)

\* A worker that is done with its task goes on to admit.
Done(w) == worker' = [worker EXCEPT ![w] = At("admit")]
To(w, pc, n) == worker' = [worker EXCEPT ![w].pc = pc, ![w].n = n]

\* Mutant of SlotFree: the slots are not counted.
SlotGiven == TRUE
SlotFree == slots < CoreProbes

\* Waiting for a core slot: a cancelled task is left alone, a stopped queue abandons its
\* task as it stands, a free slot is taken.
Park(w) ==
  /\ worker[w].pc = "park"
  /\ \/ (Cancelled(worker[w].t) \/ stopped) /\ Done(w) /\ UNCHANGED slots
     \/ /\ ~Cancelled(worker[w].t) /\ SlotFree
        /\ slots' = slots + 1 /\ To(w, "publish", worker[w].n)
  /\ UNCHANGED <<admitting, calls, queueVars, poolVars, modeVars>>

\* Mutant of ReleaseUnused: the slot of a task cancelled before its test is kept.
KeepUnused == slots
ReleaseUnused == slots - 1

\* The cancel function is published, unless the task was cancelled since the slot came.
Publish(w) ==
  /\ worker[w].pc = "publish"
  /\ IF Cancelled(worker[w].t) THEN Done(w) /\ slots' = ReleaseUnused
     ELSE To(w, "test", worker[w].n) /\ UNCHANGED slots
  /\ UNCHANGED <<admitting, calls, queueVars, poolVars, modeVars>>

\* How a test that did not work ended: by the context of a stopped queue, by its deadline,
\* by itself.
Outcomes == {"tested"} \cup (IF stopped THEN {"cancelled"} ELSE {})

\* The test returned, and its slot is free again.  A task cancelled meanwhile is discarded.
Tested(w) ==
  LET me == worker[w] IN
  /\ me.pc = "test" /\ slots' = slots - 1
  /\ IF Cancelled(me.t) THEN Done(w)
     ELSE \/ IF Measurements > 1 THEN To(w, "measure", 1) ELSE To(w, "tested", 0)
          \/ \E s \in Outcomes : IF s # "cancelled" /\ me.n < MaxAttempts
                                 THEN To(w, "backoff", me.n + 1) ELSE To(w, s, 0)
  /\ UNCHANGED <<admitting, calls, queueVars, poolVars, modeVars>>

\* A further measurement, which takes no slot; one that fails ends the series, and the task
\* passes with that result.
Measured(w) ==
  LET me == worker[w] IN
  /\ me.pc = "measure"
  /\ IF Cancelled(me.t) THEN Done(w)
     ELSE \E ok \in BOOLEAN : IF ok /\ me.n + 1 < Measurements THEN To(w, "measure", me.n + 1)
                              ELSE To(w, "tested", 0)
  /\ UNCHANGED <<slots, admitting, calls, queueVars, poolVars, modeVars>>

\* finishTask in the state the worker settled on; the task stays as it is if it was
\* cancelled since the worker looked.
Finishes(w) ==
  /\ worker[w].pc \in {"tested", "cancelled"}
  /\ Done(w) /\ Finish({worker[w].t}, worker[w].pc, backlog)
  /\ UNCHANGED <<slots, admitting, calls, poolVars, modeVars>>

\* The pause between attempts ended by the stop, or by its timer.
Backoff(w) ==
  LET me == worker[w] IN
  /\ me.pc = "backoff"
  /\ \/ stopped /\ To(w, "cancelled", 0)
     \/ IF Cancelled(me.t) THEN Done(w) ELSE To(w, "park", me.n)
  /\ UNCHANGED <<slots, admitting, calls, queueVars, poolVars, modeVars>>

\* After every task the worker feeds the queue from the backlog.
WorkerAdmits(w) ==
  /\ worker[w].pc = "admit" /\ Admit
  /\ worker' = [worker EXCEPT ![w] = At("top")]
  /\ UNCHANGED <<slots, admitting, calls, poolVars, modeVars>>

-----------------------------------------------------------------------------
\* Workers in the same state are interchangeable: the first of them moves.
Turn(w) == \A v \in Workers : worker[v] = worker[w] => w <= v

Step(w) ==
  /\ Turn(w)
  /\ \/ Top(w) \/ Retire(w) \/ Dequeue(w) \/ Resized(w) \/ Leave(w)
     \/ Park(w) \/ Publish(w) \/ Tested(w) \/ Measured(w) \/ Finishes(w) \/ Backoff(w)
     \/ WorkerAdmits(w)

Next ==
  \/ \E f \in Fps, p \in Prios, o \in Options : Enqueue(f, p, o)
  \/ \E t \in Tasks : Cancel(t)
  \/ CancelAll \/ Pause \/ Resume \/ Stop
  \/ \E fs \in Batches : EnqueueBacklog(fs)
  \/ PauseAdmission \/ ResumeAdmission \/ CallAdmits
  \/ \E r \in Tuners, n \in Sizes : SetConcurrency(r, n)
  \/ \E r \in Tuners : GrowChecks(r) \/ Grow(r)
  \/ \E w \in Workers : Step(w)

\* Goroutines run; a test returns by its deadline; polls and backoffs elapse.
Fairness ==
  /\ \A w \in Workers : WF_vars(Step(w))
  /\ \A r \in Tuners : WF_vars(GrowChecks(r) \/ Grow(r))
  /\ WF_vars(CallAdmits)

Spec == Init /\ [][Next]_vars /\ Fairness

-----------------------------------------------------------------------------
TypeOK ==
  /\ task \in [Tasks -> [st : {"none", "queued", "running", "tested", "cancelled"},
                      fp : Fps, prio : Nat, batch : Nat]]
  /\ pending \subseteq Tasks /\ inflight \subseteq Tasks /\ byFp \in [Fps -> Tasks \cup {0}]
  /\ \A i \in DOMAIN backlog : backlog[i] \in [fp : Fps, batch : Nat]
  /\ batch \in [id : Nat, planned : Nat, done : Nat, finished : BOOLEAN]
  /\ worker \in [Workers -> [pc : {"gone", "top", "retire", "get", "woken", "park",
                                   "publish", "test", "measure", "backoff", "tested", "cancelled", "admit"},
                             t : Tasks \cup {0}, n : Nat, seen : Nat]]
  /\ live \in Nat /\ desired \in Nat /\ slots \in 0 .. CoreProbes
  /\ {paused, held, stopped, admitting} \subseteq BOOLEAN /\ calls \in 0 .. MaxCalls
  /\ tuner \in [Tuners -> [n : Nat \cup {-1}, checked : BOOLEAN]]

\* One test per configuration: the tasks that have not ended are those in the heap and
\* those taken, never both, and the index leads to each by its fingerprint, whatever
\* raced with the admission of a deferred candidate of the same fingerprint.
OneTestPerConfig ==
  /\ pending \cup inflight = Live /\ pending \cap inflight = {}
  /\ \A t \in Live : byFp[task[t].fp] = t
  /\ \A f \in Fps : byFp[f] # 0 => byFp[f] \in Live

\* The completion report of a batch is true: when it is sent, every task made for the batch
\* has ended, each was counted, and no candidate of the batch is still deferred.
BatchReportTrue ==
  batch.finished =>
    /\ \A t \in Live : task[t].batch # batch.id
    /\ \A i \in DOMAIN backlog : backlog[i].batch # batch.id
    /\ batch.done = Cardinality({t \in Tasks : task[t].batch = batch.id})

\* A result is final: a task that has ended keeps its state, although a cancellation and
\* the worker that runs the test may end it at the same time.
ResultsFinal == [][\A t \in Tasks : Terminal(task[t].st) => task'[t].st = task[t].st]_vars

\* Once no more calls come, every task a worker took ends, unless the queue was stopped:
\* cancellations lose no slot and leave no worker waiting for one.
TakenTasksEnd == <>[](inflight = {} \/ stopped)

\* Stop returns: after it every worker exits, whatever it was doing, one that
\* SetConcurrency was about to start included.
StopReturns == stopped ~> \A w \in Workers : worker[w].pc = "gone"

\* Comment of worker: each worker claims one retirement slot, so the pool can never
\* undershoot the desired size.
\* The code does otherwise: TLC refutes this property (README, section 6).
PoolReachesTarget == (\A r \in Tuners : tuner[r] = Idle) /\ ~stopped => live >= desired

\* Comment of EnqueueBacklog: the deferred candidates materialise as the queue drains.
\* The code does otherwise: TLC refutes this property (README, section 6).
BacklogDrains == backlog # << >> ~> (backlog = << >> \/ paused \/ held \/ stopped)
=============================================================================
