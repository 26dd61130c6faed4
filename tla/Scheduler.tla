------------------------------ MODULE Scheduler ------------------------------
(***************************************************************************)
(* engine/scheduler: one goroutine runs the maintenance cycle on a timer   *)
(* or a wake-up; with an initial delay the first cycle runs in a second    *)
(* goroutine that nobody joins.                                            *)
(***************************************************************************)
EXTENDS Integers, FiniteSets

CONSTANT MaxStarts     \* bound: calls of Start that start a loop

VARIABLES
  starts,              \* those calls so far
  running, cancelled,  \* Scheduler.running, the context of the last loop
  wake,                \* wakeCh holds a token
  busy,                \* Scheduler.busy
  loop,                \* the loop: none, first, select, run, cycle, exit
  first,               \* the delayed goroutine of each start: none, delay, run, cycle, exit
  stop                 \* the Stop call: idle, waiting

Starts == 1 .. MaxStarts
vars == <<starts, running, cancelled, wake, busy, loop, first, stop>>

Init ==
  /\ starts = 0 /\ running = FALSE /\ cancelled = FALSE /\ wake = FALSE /\ busy = FALSE
  /\ loop = "none" /\ first = [i \in Starts |-> "none"] /\ stop = "idle"

\* Start, with a context of its own; a scheduler that runs ignores it, and one that was
\* stopped starts again.
Start ==
  /\ ~running /\ starts < MaxStarts
  /\ starts' = starts + 1 /\ running' = TRUE /\ cancelled' = FALSE /\ loop' = "first"
  /\ UNCHANGED <<wake, busy, first, stop>>

\* Stop cancels the context and waits for the end of the loop.
Stop ==
  /\ running /\ stop = "idle" /\ stop' = "waiting" /\ cancelled' = TRUE
  /\ UNCHANGED <<starts, running, wake, busy, loop, first>>

StopReturns ==
  /\ stop = "waiting" /\ loop = "exit" /\ stop' = "idle" /\ running' = FALSE
  /\ UNCHANGED <<starts, cancelled, wake, busy, loop, first>>

\* Wake: a token that is not taken yet covers this one.
Wake ==
  /\ ~wake /\ wake' = TRUE
  /\ UNCHANGED <<starts, running, cancelled, busy, loop, first, stop>>

-----------------------------------------------------------------------------
\* RunOnStart: at once, after a delay in a goroutine of its own, or not at all.
LoopBegins ==
  /\ loop = "first"
  /\ \/ loop' = "run" /\ UNCHANGED first
     \/ loop' = "select" /\ first' = [first EXCEPT ![starts] = "delay"]
     \/ loop' = "select" /\ UNCHANGED first
  /\ UNCHANGED <<starts, running, cancelled, wake, busy, stop>>

\* Mutant of LoopSelects: the context is not asked again after a wake-up or the timer.
LoopSelectsOnce ==
  /\ loop = "select"
  /\ \/ cancelled /\ loop' = "exit" /\ UNCHANGED wake
     \/ wake /\ wake' = FALSE /\ loop' = "run"
     \/ UNCHANGED wake /\ loop' = "run"
  /\ UNCHANGED <<starts, running, cancelled, busy, first, stop>>

\* The select: the end of the context, a wake-up, the timer; then the context again.
LoopSelects ==
  /\ loop = "select"
  /\ \/ cancelled /\ loop' = "exit" /\ UNCHANGED wake
     \/ wake /\ wake' = FALSE /\ loop' = IF cancelled THEN "exit" ELSE "run"
     \/ UNCHANGED wake /\ loop' = IF cancelled THEN "exit" ELSE "run"
  /\ UNCHANGED <<starts, running, cancelled, busy, first, stop>>

\* Mutant of SkipIfBusy: a cycle starts whatever runs.
SkipNever == FALSE
SkipIfBusy == busy

\* runCycle: skipped when a cycle runs.
LoopRuns ==
  /\ loop = "run"
  /\ IF SkipIfBusy THEN loop' = "select" /\ UNCHANGED busy ELSE loop' = "cycle" /\ busy' = TRUE
  /\ UNCHANGED <<starts, running, cancelled, wake, first, stop>>

LoopCycleEnds ==
  /\ loop = "cycle" /\ loop' = "select" /\ busy' = FALSE
  /\ UNCHANGED <<starts, running, cancelled, wake, first, stop>>

\* The delayed goroutine: its context or the delay, then its context again.
FirstWaits(i) ==
  /\ first[i] = "delay"
  /\ first' = [first EXCEPT ![i] = IF cancelled \/ i < starts THEN "exit" ELSE "run"]
  /\ UNCHANGED <<starts, running, cancelled, wake, busy, loop, stop>>

FirstRuns(i) ==
  /\ first[i] = "run"
  /\ IF SkipIfBusy THEN first' = [first EXCEPT ![i] = "exit"] /\ UNCHANGED busy
     ELSE first' = [first EXCEPT ![i] = "cycle"] /\ busy' = TRUE
  /\ UNCHANGED <<starts, running, cancelled, wake, loop, stop>>

FirstCycleEnds(i) ==
  /\ first[i] = "cycle" /\ first' = [first EXCEPT ![i] = "exit"] /\ busy' = FALSE
  /\ UNCHANGED <<starts, running, cancelled, wake, loop, stop>>

Loop == LoopBegins \/ LoopSelects \/ LoopRuns \/ LoopCycleEnds
First == \E i \in Starts : FirstWaits(i) \/ FirstRuns(i) \/ FirstCycleEnds(i)
Next == Start \/ Stop \/ StopReturns \/ Wake \/ Loop \/ First

\* Goroutines run; a cycle observes its context and ends.
Fairness == WF_vars(Loop) /\ WF_vars(First) /\ WF_vars(StopReturns)
Spec == Init /\ [][Next]_vars /\ Fairness

-----------------------------------------------------------------------------
TypeOK ==
  /\ {running, cancelled, wake, busy} \subseteq BOOLEAN
  /\ loop \in {"none", "first", "select", "run", "cycle", "exit"}
  /\ first \in [Starts -> {"none", "delay", "run", "cycle", "exit"}] /\ stop \in {"idle", "waiting"}

Delayed == {i \in Starts : first[i] = "cycle"}
Cycles == Cardinality(Delayed) + IF loop = "cycle" THEN 1 ELSE 0

\* Cycles never overlap, the delayed one of an earlier start included, and busy says whether
\* one runs: a flag that stayed set would skip every later cycle.
OneCycle == Cycles = IF busy THEN 1 ELSE 0

\* A Stop that returned has drained the loop.  The delayed cycle is the exception: nobody
\* waits for it, so only that one may still run.
StopDrained == loop = "exit" /\ ~running /\ busy => Delayed # {}

\* "graceful shutdown drains the running cycle": once Stop returned, no cycle runs.
\* The code does otherwise: TLC refutes this property (README, section 6).
StopDrainsAll == loop = "exit" /\ ~running => ~busy

\* Stop returns, and a scheduler that was started runs a cycle again and again until its loop
\* exits.
Due(i) == \/ i = 1 /\ stop = "waiting"
          \/ i = 2 /\ loop # "none" /\ ~busy
Met(i) == \/ i = 1 /\ stop = "idle"
          \/ i = 2 /\ (busy \/ loop \in {"exit", "none"})
SchedulerLive == \A i \in 1 .. 2 : Due(i) ~> Met(i)
=============================================================================
