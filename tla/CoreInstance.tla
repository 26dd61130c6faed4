---------------------------- MODULE CoreInstance ----------------------------
(***************************************************************************)
(* One supervised protocol core: core.Instance (engine/core/core.go), its  *)
(* startup supervisor (engine/core/health.go) and the managed process      *)
(* under it (system/system.go).                                            *)
(*                                                                         *)
(* The module gives the parts that a session, a racer or a test probe is   *)
(* built from.  i.mu and m.mu regions are single steps; the death of the   *)
(* process, the supervisor's verdict and the two halves of Close are steps *)
(* of their own.  A process that survives SIGKILL (the error result of     *)
(* terminateProcess) is left out.                                          *)
(***************************************************************************)
EXTENDS Integers, FiniteSets

CONSTANT Instances  \* identities of launched cores

VARIABLE inst       \* core.Instance and its ManagedProcess, by identity

InstanceStates ==
  {"created", "starting", "running", "stopping", "stopped", "crashed", "timed_out"}

Instance ==
  [st : InstanceStates,                    \* Instance.state
   ctx : Nat,                              \* the session context it was launched on
   exit : {"alive", "clean", "error"},     \* what ManagedProcess.Wait reports
   verdict : {"none", "timing_out", "ready", "failed"},  \* markReady: readyErr, once
   stop : BOOLEAN,                         \* ManagedProcess.stopStarted
   dir : BOOLEAN]                          \* the runtime directory exists

NotLaunched ==
  [st |-> "created", ctx |-> 0, exit |-> "clean", verdict |-> "none",
   stop |-> FALSE, dir |-> FALSE]

\* Launch: directory, document, process and supervisor.
Launched(ctx) ==
  [st |-> "starting", ctx |-> ctx, exit |-> "alive", verdict |-> "none",
   stop |-> FALSE, dir |-> TRUE]

Alive(i) == inst[i].exit = "alive"
Unused == {i \in Instances : inst[i].st = "created"}

\* Close returns at once when another call has already begun it.
CloseReturnsAtOnce(i) == inst[i].st \in {"stopping", "stopped"}

\* Instance.Close up to the wait in ManagedProcess.Stop.
CloseBegun(i) ==
  IF CloseReturnsAtOnce(i) THEN inst
  ELSE [inst EXCEPT ![i].st = "stopping", ![i].stop = TRUE]

\* The rest of Close: the process is gone, the runtime files are removed.
CloseEnded(i) == [inst EXCEPT ![i].st = "stopped", ![i].dir = FALSE]

\* The process exits by itself, with or without an error, while nobody stops it.
ProcExits(i, live) ==
  /\ Alive(i) /\ ~inst[i].stop /\ live
  /\ \E e \in {"clean", "error"} : inst' = [inst EXCEPT ![i].exit = e]

\* terminateProcess after Stop, or the kill that CommandContext issues once the
\* launch context is cancelled.  wasStopped turns the exit into a clean one.
ProcKilled(i, live) ==
  /\ Alive(i) /\ (inst[i].stop \/ ~live)
  /\ inst' = [inst EXCEPT ![i].exit = IF inst[i].stop THEN "clean" ELSE "error"]

Supervised(i) == inst[i].verdict = "none" /\ inst[i].st # "created"

\* awaitListener: the listener answered.  markReady sets Running whatever the
\* state has become meanwhile.
SupervisorReady(i) ==
  /\ Supervised(i) /\ Alive(i)
  /\ inst' = [inst EXCEPT ![i].verdict = "ready", ![i].st = "running"]

\* awaitListener: the process died first, or the launch context was cancelled.
SupervisorFailed(i, live) ==
  /\ \/ Supervised(i) /\ (~Alive(i) \/ ~live)
     \/ inst[i].verdict = "timing_out" /\ ~Alive(i)
  /\ inst' = [inst EXCEPT ![i].verdict = "failed",
                          ![i].st = IF live /\ Supervised(i) THEN "crashed" ELSE @]

\* awaitListener: the startup deadline passed; the supervisor stops the process
\* and publishes its verdict once it is gone (SupervisorFailed).
SupervisorTimesOut(i) ==
  /\ Supervised(i) /\ Alive(i)
  /\ inst' = [inst EXCEPT ![i].st = "timed_out", ![i].stop = TRUE,
                          ![i].verdict = "timing_out"]

InstanceTypeOK == inst \in [Instances -> Instance]

=============================================================================
