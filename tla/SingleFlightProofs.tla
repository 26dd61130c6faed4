------------------------ MODULE SingleFlightProofs ------------------------
(***************************************************************************)
(* For any callers, keys and number of executions: one execution of a key  *)
(* runs at a time and it is the one that callers join.  The inductive      *)
(* invariant is the conjunction of the types and the two invariants of     *)
(* SingleFlight: a call that is running or has returned is the registered  *)
(* one, and what is registered is such a call.                             *)
(***************************************************************************)
EXTENDS SingleFlight, TLAPS

Statuses == {"running", "returned", "unregistered", "done"}
Calls == [key : Keys, st : Statuses]
FlightInv == TypeOK /\ OneExecution /\ RegisteredRuns

\* Do: joining leaves the calls alone, and the call that is registered instead is the first
\* of its key, because nothing was registered for the key.
LEMMA DoKeepsInv ==
  ASSUME FlightInv, NEW p \in Callers, NEW k \in Keys, Do(p, k)
  PROVE  FlightInv'
<1>1. CASE Joins(k)
  <2>1. waits' = [waits EXCEPT ![p] = registered[k]] /\ UNCHANGED <<registered, call>>
    BY <1>1 DEF Do
  <2>2. QED
    BY <2>1 DEF FlightInv, TypeOK, OneExecution, RegisteredRuns
<1>2. CASE ~Joins(k)
  <2> DEFINE n == Len(call) + 1
  <2>1. /\ call' = Append(call, [key |-> k, st |-> "running"])
        /\ registered' = [registered EXCEPT ![k] = n]
        /\ waits' = [waits EXCEPT ![p] = n]
    BY <1>2 DEF Do
  <2>2. call \in Seq(Calls) /\ n \in Nat /\ n # 0
    BY DEF FlightInv, TypeOK, Calls, Statuses
  <2>3. call' \in Seq(Calls) /\ DOMAIN call' = 1 .. n /\ DOMAIN call = 1 .. n - 1
        /\ call'[n] = [key |-> k, st |-> "running"]
        /\ \A c \in DOMAIN call : call'[c] = call[c]
    BY <2>1, <2>2 DEF Calls, Statuses
  <2>4. TypeOK'
    BY <2>1, <2>2, <2>3 DEF FlightInv, TypeOK, Calls, Statuses
  <2>5. OneExecution'
    <3> SUFFICES ASSUME NEW c \in 1 .. n, call'[c].st \in {"running", "returned"}
                 PROVE  registered'[call'[c].key] = c
      BY <2>3 DEF OneExecution
    <3>1. CASE c = n
      BY <3>1, <2>1, <2>3 DEF FlightInv, TypeOK
    <3>2. CASE c # n
      <4>0. c \in DOMAIN call /\ call'[c] = call[c]
        BY <3>2, <2>2, <2>3
      <4>1. registered[call[c].key] = c
        BY <4>0 DEF FlightInv, OneExecution
      <4>2. call[c] \in Calls
        BY <4>0, <2>2
      <4>3. c # 0 /\ call[c].key \in Keys \ {k}
        BY <4>1, <4>2, <1>2, <2>2, <2>3 DEF Joins, Calls
      <4>4. QED
        BY <4>0, <4>1, <4>3, <2>1 DEF FlightInv, TypeOK
    <3>3. QED
      BY <3>1, <3>2
  <2>6. RegisteredRuns'
    BY <2>1, <2>2, <2>3 DEF FlightInv, TypeOK, RegisteredRuns
  <2>7. QED
    BY <2>4, <2>5, <2>6 DEF FlightInv
<1>3. QED
  BY <1>1, <1>2

\* The goroutine of a call: only Unregister changes the map, and it takes out its own call.
LEMMA RunsKeepsInv ==
  ASSUME FlightInv, NEW c \in 1 .. MaxCalls, Runs(c)
  PROVE  FlightInv'
<1>1. c \in DOMAIN call /\ call \in Seq(Calls) /\ call[c] \in Calls
  <2>1. c \in DOMAIN call
    BY Zenon DEF Runs
  <2>2. call \in Seq(Calls)
    BY DEF FlightInv, TypeOK, Calls, Statuses
  <2>3. QED
    BY <2>1, <2>2
<1>2. ASSUME NEW s \in Statuses, call' = [call EXCEPT ![c].st = s]
      PROVE  /\ call' \in Seq(Calls) /\ DOMAIN call' = DOMAIN call
             /\ call'[c].st = s /\ call'[c].key = call[c].key
             /\ \A d \in DOMAIN call : d # c => call'[d] = call[d]
  BY <1>1, <1>2 DEF Calls, Statuses
<1>3. CASE FnReturns(c)
  <2>1. call[c].st = "running" /\ call' = [call EXCEPT ![c].st = "returned"]
        /\ UNCHANGED <<registered, waits>>
    BY <1>3 DEF FnReturns
  <2>2. /\ call' \in Seq(Calls) /\ DOMAIN call' = DOMAIN call
        /\ call'[c].st = "returned" /\ call'[c].key = call[c].key
        /\ \A d \in DOMAIN call : d # c => call'[d] = call[d]
    BY <2>1, <1>2 DEF Statuses
  <2>3. QED
    BY <1>1, <2>1, <2>2 DEF FlightInv, TypeOK, OneExecution, RegisteredRuns, Calls, Statuses
<1>4. CASE Unregister(c)
  <2>1. call[c].st = "returned" /\ call' = [call EXCEPT ![c].st = "unregistered"]
        /\ registered' = [registered EXCEPT ![call[c].key] = 0] /\ UNCHANGED waits
    BY <1>4 DEF Unregister
  <2>2. /\ call' \in Seq(Calls) /\ DOMAIN call' = DOMAIN call
        /\ call'[c].st = "unregistered" /\ call'[c].key = call[c].key
        /\ \A d \in DOMAIN call : d # c => call'[d] = call[d]
    BY <2>1, <1>2 DEF Statuses
  <2>3. registered[call[c].key] = c /\ call[c].key \in Keys
    BY <1>1, <2>1 DEF FlightInv, OneExecution, Calls
  <2>4. TypeOK'
    BY <2>1, <2>2, <2>3 DEF FlightInv, TypeOK, Calls, Statuses
  <2>5. OneExecution'
    BY <1>1, <2>1, <2>2, <2>3 DEF FlightInv, TypeOK, OneExecution, Calls
  <2>6. RegisteredRuns'
    BY <1>1, <2>1, <2>2, <2>3 DEF FlightInv, TypeOK, RegisteredRuns, Calls
  <2>7. QED
    BY <2>4, <2>5, <2>6 DEF FlightInv
<1>5. CASE CloseDone(c)
  <2>1. call[c].st = "unregistered" /\ call' = [call EXCEPT ![c].st = "done"]
        /\ UNCHANGED <<registered, waits>>
    BY <1>5 DEF CloseDone
  <2>2. /\ call' \in Seq(Calls) /\ DOMAIN call' = DOMAIN call
        /\ call'[c].st = "done" /\ call'[c].key = call[c].key
        /\ \A d \in DOMAIN call : d # c => call'[d] = call[d]
    BY <2>1, <1>2 DEF Statuses
  <2>3. QED
    BY <1>1, <2>1, <2>2 DEF FlightInv, TypeOK, OneExecution, RegisteredRuns, Calls, Statuses
<1>6. QED
  BY <1>3, <1>4, <1>5 DEF Runs

\* A caller that returns or gives up changes nothing but its own wait.
LEMMA WaitEndsKeepsInv ==
  ASSUME FlightInv, NEW p \in Callers, Returns(p) \/ GivesUp(p)
  PROVE  FlightInv'
<1>1. waits' = [waits EXCEPT ![p] = 0] /\ UNCHANGED <<registered, call>>
  BY DEF Returns, GivesUp
<1>2. QED
  BY <1>1 DEF FlightInv, TypeOK, OneExecution, RegisteredRuns

\* At most one execution of a key is under way, it is the registered one, and the map holds
\* no call that has ended: what Do relies on when it joins the call it finds in the map.
THEOREM OneExecutionAlways == Spec => [](OneExecution /\ RegisteredRuns)
<1>1. Init => FlightInv
  BY DEF Init, FlightInv, TypeOK, OneExecution, RegisteredRuns
<1>2. FlightInv /\ [Next]_vars => FlightInv'
  <2> SUFFICES ASSUME FlightInv, [Next]_vars PROVE FlightInv'
    OBVIOUS
  <2>1. CASE Next
    BY <2>1, DoKeepsInv, RunsKeepsInv, WaitEndsKeepsInv DEF Next
  <2>2. CASE UNCHANGED vars
    BY <2>2 DEF vars, FlightInv, TypeOK, OneExecution, RegisteredRuns
  <2>3. QED
    BY <2>1, <2>2
<1>3. FlightInv => OneExecution /\ RegisteredRuns
  BY DEF FlightInv
<1>4. QED
  BY <1>1, <1>2, <1>3, PTL DEF Spec
=============================================================================
