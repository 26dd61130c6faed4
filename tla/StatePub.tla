------------------------------ MODULE StatePub ------------------------------
(***************************************************************************)
(* internal/statepub: the ordered delivery of state snapshots by one       *)
(* goroutine, with a bounded queue, as the connection manager uses it.     *)
(*                                                                         *)
(* A snapshot is its stage, a detail that tells snapshots of one stage     *)
(* apart, and the number of its submission.  A dispatch calls every        *)
(* subscriber in turn; it is one step of one listener here.                *)
(***************************************************************************)
EXTENDS Integers, Sequences, SequencesExt

CONSTANTS
  Stages, ReplaceableStages,  \* stages, and those of class Replaceable
  MaxQueue,                   \* maxQueue
  MaxPublish                  \* bound: accepted submissions

VARIABLES
  queue, last, stopped, signal,
  loop,    \* the delivery goroutine: select, drain, final (drain), exit
  item,    \* the snapshot popped and not yet delivered, number 0 for none
  seen,    \* number of the snapshot the listener saw last
  joined   \* a Stop call returned

vars == <<queue, last, stopped, signal, loop, item, seen, joined>>

None == [n |-> 0, stage |-> "none", detail |-> 0]
SameState(x, y) == x.stage = y.stage /\ x.detail = y.detail

Init ==
  /\ queue = << >> /\ last = None /\ stopped = FALSE /\ signal = FALSE
  /\ loop = "select" /\ item = None /\ seen = 0 /\ joined = FALSE

-----------------------------------------------------------------------------
\* compactLocked, first pass: of consecutive snapshots of one stage the newest wins.
Merge(q) ==
  SelectSeq(q, LAMBDA x : \A i \in 1 .. Len(q) - 1 : q[i] = x => q[i + 1].stage # x.stage)

\* Second pass: the oldest replaceable snapshots make room for one.
Shed(q) ==
  LET loose == {i \in DOMAIN q : q[i].stage \in ReplaceableStages}
      goes(i) == i \in loose /\ Len(q) >= MaxQueue
                 /\ Cardinality({j \in loose : j < i}) < Len(q) - MaxQueue + 1
  IN [k \in 1 .. Cardinality({i \in DOMAIN q : ~goes(i)}) |->
        q[SetToSortSeq({i \in DOMAIN q : ~goes(i)}, <)[k]]]

\* The queue that has room, or loses its oldest snapshot.
MadeRoom(q) ==
  LET c == Shed(Merge(q))
  IN IF Len(q) < MaxQueue THEN q ELSE IF Len(c) >= MaxQueue THEN Tail(c) ELSE c

\* Publish: dropped when stopped or equal to the newest submission.
Publish(stage, detail) ==
  LET x == [n |-> last.n + 1, stage |-> stage, detail |-> detail] IN
  /\ last.n < MaxPublish /\ ~stopped /\ ~SameState(last, x)
  /\ queue' = Append(MadeRoom(queue), x)
  /\ last' = x /\ signal' = TRUE
  /\ UNCHANGED <<stopped, loop, item, seen, joined>>

\* Stop closes quit; any Stop call returns when the goroutine has ended.
Stop ==
  /\ ~stopped /\ stopped' = TRUE
  /\ UNCHANGED <<queue, last, signal, loop, item, seen, joined>>

StopReturns ==
  /\ stopped /\ loop = "exit" /\ joined' = TRUE
  /\ UNCHANGED <<queue, last, stopped, signal, loop, item, seen>>

-----------------------------------------------------------------------------
\* Mutant of Quit: the loop ends without a last drain.
QuitAtOnce == "exit"
Quit == "final"

\* The select of the loop, when both are ready either.
Signalled ==
  /\ loop = "select" /\ signal /\ signal' = FALSE /\ loop' = "drain"
  /\ UNCHANGED <<queue, last, stopped, item, seen, joined>>

Quits ==
  /\ loop = "select" /\ stopped /\ loop' = Quit
  /\ UNCHANGED <<queue, last, stopped, signal, item, seen, joined>>

\* drain pops under the lock, and dispatches outside it.
Pop ==
  /\ loop \in {"drain", "final"} /\ item = None
  /\ IF queue = << >>
     THEN /\ loop' = IF loop = "final" THEN "exit" ELSE "select"
          /\ UNCHANGED <<queue, item>>
     ELSE item' = Head(queue) /\ queue' = Tail(queue) /\ UNCHANGED loop
  /\ UNCHANGED <<last, stopped, signal, seen, joined>>

Dispatch ==
  /\ item # None /\ seen' = item.n /\ item' = None
  /\ UNCHANGED <<queue, last, stopped, signal, loop, joined>>

Deliver == Signalled \/ Quits \/ Pop \/ Dispatch

Next ==
  \/ \E s \in Stages, d \in 0 .. 1 : Publish(s, d)
  \/ Stop \/ StopReturns \/ Deliver

Goroutines == Deliver \/ StopReturns

Fairness == WF_vars(Deliver) /\ WF_vars(StopReturns)

-----------------------------------------------------------------------------
TypeOK ==
  /\ Len(queue) <= MaxQueue /\ loop \in {"select", "drain", "final", "exit"}
  /\ seen \in 0 .. MaxPublish /\ {stopped, signal, joined} \subseteq BOOLEAN

\* A Stop that returned has delivered the newest state submitted before it, and no listener
\* is called afterwards: the queue is empty and nothing is on its way.
StopDeliversNewest == joined => queue = << >> /\ item = None /\ seen = last.n

\* States reach the listener in the order of their submission, and compaction keeps the
\* newest one: the queue ends with it whenever it has not been handed out.
NewestQueued ==
  /\ \A i \in 1 .. Len(queue) - 1 : queue[i].n < queue[i + 1].n
  /\ queue # << >> => queue[Len(queue)].n = last.n /\ queue[1].n > item.n /\ queue[1].n > seen
  /\ queue = << >> => last.n \in {item.n, seen}

\* The newest state is delivered, whether or not the publisher is stopped meanwhile.
Due == seen # last.n
Met == seen = last.n
NewestDelivered == Due ~> Met
=============================================================================
