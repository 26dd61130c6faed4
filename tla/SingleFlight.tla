---------------------------- MODULE SingleFlight ----------------------------
(***************************************************************************)
(* internal/singleflight: callers of one key share one execution, each     *)
(* waits under its own context.  A call is named by its serial number.     *)
(***************************************************************************)
EXTENDS Integers, Sequences

CONSTANTS
  Callers, Keys,
  MaxCalls  \* bound: executions

VARIABLES
  registered,  \* g.m: the call registered for a key, 0 for none
  call,        \* calls made: key and progress (running, returned, unregistered, done)
  waits        \* the call a caller waits for, 0 for none

vars == <<registered, call, waits>>

Init == registered = [k \in Keys |-> 0] /\ call = << >> /\ waits = [p \in Callers |-> 0]

\* Mutant of Joins: nobody joins a running execution.
JoinsNever(k) == FALSE
Joins(k) == registered[k] # 0

\* Do: join the registered call, or register one and start its goroutine.
Do(p, k) ==
  /\ waits[p] = 0
  /\ IF Joins(k)
     THEN waits' = [waits EXCEPT ![p] = registered[k]] /\ UNCHANGED <<registered, call>>
     ELSE /\ Len(call) < MaxCalls
          /\ call' = Append(call, [key |-> k, st |-> "running"])
          /\ registered' = [registered EXCEPT ![k] = Len(call) + 1]
          /\ waits' = [waits EXCEPT ![p] = Len(call) + 1]

\* The goroutine: fn returns, the key is deleted, done is closed.
FnReturns(c) ==
  /\ call[c].st = "running" /\ call' = [call EXCEPT ![c].st = "returned"]
  /\ UNCHANGED <<registered, waits>>

Unregister(c) ==
  /\ call[c].st = "returned" /\ call' = [call EXCEPT ![c].st = "unregistered"]
  /\ registered' = [registered EXCEPT ![call[c].key] = 0]
  /\ UNCHANGED waits

CloseDone(c) ==
  /\ call[c].st = "unregistered" /\ call' = [call EXCEPT ![c].st = "done"]
  /\ UNCHANGED <<registered, waits>>

\* wait: the result, or the end of the caller's own context.
Returns(p) ==
  /\ waits[p] # 0 /\ call[waits[p]].st = "done" /\ waits' = [waits EXCEPT ![p] = 0]
  /\ UNCHANGED <<registered, call>>

GivesUp(p) ==
  /\ waits[p] # 0 /\ waits' = [waits EXCEPT ![p] = 0]
  /\ UNCHANGED <<registered, call>>

Runs(c) == c \in DOMAIN call /\ (FnReturns(c) \/ Unregister(c) \/ CloseDone(c))

Next ==
  \/ \E p \in Callers, k \in Keys : Do(p, k)
  \/ \E c \in 1 .. MaxCalls : Runs(c)
  \/ \E p \in Callers : Returns(p) \/ GivesUp(p)

Fairness ==
  /\ \A c \in 1 .. MaxCalls : WF_vars(Runs(c))
  /\ \A p \in Callers : WF_vars(Returns(p))

Spec == Init /\ [][Next]_vars /\ Fairness

-----------------------------------------------------------------------------
TypeOK ==
  /\ registered \in [Keys -> Nat]
  /\ call \in Seq([key : Keys, st : {"running", "returned", "unregistered", "done"}])
  /\ waits \in [Callers -> Nat]

\* At most one execution of a key is under way, and it is the registered one, so every
\* caller that comes while it runs joins it.
OneExecution ==
  \A c \in DOMAIN call : call[c].st \in {"running", "returned"} => registered[call[c].key] = c

\* The map holds no call that has ended, and nobody waits for a call that was never made:
\* the order of the deletion and the close loses no caller.
RegisteredRuns ==
  /\ \A k \in Keys : registered[k] # 0 =>
       /\ registered[k] \in DOMAIN call /\ call[registered[k]].key = k
       /\ call[registered[k]].st \in {"running", "returned"}
  /\ \A p \in Callers : waits[p] # 0 => waits[p] \in DOMAIN call

\* Every caller returns, although the caller that started the execution may give up.
Due(p) == waits[p] # 0
Met(p) == waits[p] = 0
WaitersReturn == \A p \in Callers : Due(p) ~> Met(p)
=============================================================================
