----------------------------- MODULE Connection -----------------------------
(***************************************************************************)
(* The connection manager of engine/connection/connection.go: Connect with *)
(* its bounded attempts, Disconnect, Reconnect, VerifyConnected, Shutdown, *)
(* and the monitor with its process watcher and stability recheck.         *)
(*                                                                         *)
(* Callers are goroutines of the application: every call may overlap every *)
(* other one.  A region under m.mu is one step.  A wait (readiness, a      *)
(* verification, the join of the monitor, Instance.Close) lies between two *)
(* steps.  Times are left out: a recheck is due or not, a wait may end at  *)
(* any moment the code allows.  A refused call (shut down, already active, *)
(* nothing to verify) changes nothing and is not an action.                *)
(***************************************************************************)
EXTENDS CoreInstance

CONSTANTS
  Callers,        \* goroutines that call the manager, 1 .. n
  MaxCandidates,  \* core.Preferences.MaxAttempts
  Threshold,      \* Options.VerifyFailureThreshold
  MaxOps,         \* bound: calls in total
  Monitors        \* identities of started monitors, one per successful Connect

ASSUME ConnectionAssumption ==
  /\ MaxCandidates \in Nat \ {0} /\ Threshold \in Nat \ {0} /\ MaxOps \in Nat

VARIABLES
  state,       \* Manager.state
  generation,  \* Manager.generation, the session epoch
  session,     \* the epoch whose runtime context is live, 0 when none is
  instance,    \* Manager.instance, 0 for nil
  verified,    \* verifiedAt: the epoch the newest success came from, 0 for none
  failures,    \* Manager.verifyFailures
  shutdown,    \* Manager.shutdown
  configured,  \* Manager.cfg is set
  monitor,     \* monitorCancel and monitorDone: the current monitor, 0 for nil
  mon,         \* the monitor goroutines and their watchers
  call,        \* what each caller is doing
  ops          \* calls so far

mvars == <<state, generation, session, instance, verified, failures, shutdown,
           configured, monitor, mon, call, ops>>
vars == <<mvars, inst>>

States ==
  {"disconnected", "selecting", "preparing", "starting_core", "waiting_for_ready",
   "connected", "verifying", "connected_verified", "disconnecting", "connection_failed"}
ConnectedLike(s) == s \in {"connected", "verifying", "connected_verified"}
Active(s) == s \in States \ {"disconnected", "disconnecting", "connection_failed"}
Live(ctx) == ctx # 0 /\ ctx = session

\* What a call carries: the epoch it works for, the runtime context it launches on,
\* candidates left, its core, where it goes after a Close, whether the core ran when
\* the probe began, the state of its own context, and the monitor it joins.
Idle == [pc |-> "idle", op |-> "none", gen |-> 0, ctx |-> 0, left |-> 0, i |-> 0,
         then |-> "idle", sound |-> FALSE, cancelled |-> FALSE, retried |-> FALSE, join |-> 0]
NoMonitor == [gen |-> 0, i |-> 0, cancelled |-> FALSE, watch |-> "done",
              tick |-> "done", sound |-> FALSE, torn |-> 0]

Init ==
  /\ state = "disconnected" /\ generation = 0 /\ session = 0 /\ instance = 0
  /\ verified = 0 /\ failures = 0 /\ shutdown = FALSE /\ configured = FALSE
  /\ monitor = 0 /\ mon = [m \in Monitors |-> NoMonitor]
  /\ call = [c \in Callers |-> Idle] /\ ops = 0
  /\ inst = [i \in Instances |-> NotLaunched]

-----------------------------------------------------------------------------
(* Steps of a call.                                                        *)

At(c, pc) == call[c].pc = pc
Goto(c, pc) == call' = [call EXCEPT ![c].pc = pc]
\* Instance.Close, and what follows it.
CloseThen(c, pc) == call' = [call EXCEPT ![c].pc = "close", ![c].then = pc]
Continue(c) ==
  call' = [call EXCEPT ![c].pc = call[c].then, ![c].then = "idle", ![c].sound = FALSE]
Return(c) == call' = [call EXCEPT ![c] = Idle]
\* Every call has a goroutine of its own: the lowest one that is free.
CanCall(c) ==
  /\ At(c, "idle") /\ \A d \in Callers : d < c => ~At(d, "idle")
  /\ ops < MaxOps /\ ops' = ops + 1
\* The session this call works for is still the current one.
Current(c) == call[c].gen = generation

\* verifiedAt moves on success only, to the epoch the probe was made in; lastVerify is
\* left out.
Evidence(ok, gen) == IF ok THEN gen ELSE verified

keepSession == UNCHANGED <<generation, session, shutdown, configured>>
keepEvidence == UNCHANGED <<verified, failures>>
keepMonitors == UNCHANGED <<monitor, mon>>

-----------------------------------------------------------------------------
(* Connect and its attempts.                                               *)

\* Mutant of Connectable: a manager that is shut down still connects.
ConnectableForever == ~Active(state)
Connectable == ~shutdown /\ ~Active(state)

\* A new epoch; beginSessionLocked cancels the previous runtime context.
BeginConnect(c) ==
  /\ generation' = generation + 1 /\ session' = generation + 1
  /\ state' = "selecting" /\ configured' = TRUE
  /\ call' = [call EXCEPT ![c] = [Idle EXCEPT !.pc = "select", !.op = "connect",
                                              !.gen = generation + 1]]
  /\ UNCHANGED <<instance, shutdown, inst>> /\ keepEvidence /\ keepMonitors

Connect(c) == CanCall(c) /\ Connectable /\ BeginConnect(c)

\* An attempt begins by asking whether its session is current.
Preparing(c, n) ==
  IF Current(c)
  THEN state' = "preparing" /\ call' = [call EXCEPT ![c].pc = "validate", ![c].left = n]
  ELSE UNCHANGED state /\ call' = [call EXCEPT ![c].pc = "failed", ![c].left = n]

\* Registry.Select finds the candidates, in order of preference, or none.
SelectBackend(c) ==
  /\ At(c, "select")
  /\ \E n \in 0 .. MaxCandidates :
       IF n > 0 THEN Preparing(c, n) ELSE UNCHANGED state /\ Goto(c, "fail")
  /\ UNCHANGED <<instance, ops, inst>> /\ keepSession /\ keepEvidence /\ keepMonitors

NextAttempt(c) ==
  /\ At(c, "prepare") /\ Preparing(c, call[c].left)
  /\ UNCHANGED <<instance, ops, inst>> /\ keepSession /\ keepEvidence /\ keepMonitors

\* Validate or checkPortBindability may refuse.  The launch is on the runtime context
\* of the session, not on the context of the call.
StartingCore(c) ==
  /\ At(c, "validate")
  /\ \E ok \in BOOLEAN :
       IF ok /\ Current(c)
       THEN /\ state' = "starting_core"
            /\ call' = [call EXCEPT ![c].pc = "launch", ![c].ctx = session]
       ELSE UNCHANGED state /\ Goto(c, "failed")
  /\ UNCHANGED <<instance, ops, inst>> /\ keepSession /\ keepEvidence /\ keepMonitors

LaunchFails(c) ==
  /\ At(c, "launch") /\ Goto(c, "failed")
  /\ UNCHANGED <<state, instance, ops, inst>>
  /\ keepSession /\ keepEvidence /\ keepMonitors

\* A process does not start on a context that is already cancelled.
LaunchCore(c) ==
  /\ At(c, "launch") /\ Live(call[c].ctx)
  /\ \E i \in Unused :
       /\ \A j \in Unused : i <= j
       /\ inst' = [inst EXCEPT ![i] = Launched(call[c].ctx)]
       /\ call' = [call EXCEPT ![c].pc = "publish", ![c].i = i]
  /\ UNCHANGED <<state, instance, ops>> /\ keepSession /\ keepEvidence /\ keepMonitors

\* The core is handed to the manager, unless its session has ended.
PublishInstance(c) ==
  /\ At(c, "publish")
  /\ IF Current(c)
     THEN state' = "waiting_for_ready" /\ instance' = call[c].i /\ Goto(c, "wait")
     ELSE UNCHANGED <<state, instance>> /\ CloseThen(c, "failed")
  /\ UNCHANGED <<ops, inst>> /\ keepSession /\ keepEvidence /\ keepMonitors

\* WaitReady returns the supervisor's verdict, or the end of the call's own context.
WaitReady(c) ==
  /\ At(c, "wait")
  /\ \/ inst[call[c].i].verdict = "ready" /\ Goto(c, "ready")
     \/ inst[call[c].i].verdict = "failed" /\ CloseThen(c, "drop")
     \/ call' = [call EXCEPT ![c].pc = "close", ![c].then = "drop", ![c].cancelled = TRUE]
  /\ UNCHANGED <<state, instance, ops, inst>>
  /\ keepSession /\ keepEvidence /\ keepMonitors

DropInstance(c) ==
  /\ At(c, "drop")
  /\ instance' = IF Current(c) /\ instance = call[c].i THEN 0 ELSE instance
  /\ Goto(c, "failed_ready")
  /\ UNCHANGED <<state, ops, inst>> /\ keepSession /\ keepEvidence /\ keepMonitors

CoreReady(c) ==
  /\ At(c, "ready")
  /\ IF Current(c)
     THEN state' = "connected" /\ instance' = call[c].i /\ Goto(c, "verify")
     ELSE UNCHANGED <<state, instance>> /\ CloseThen(c, "failed")
  /\ UNCHANGED <<ops, inst>> /\ keepSession /\ keepEvidence /\ keepMonitors

\* This transition does not ask for the epoch.
BeginVerify(c) ==
  /\ At(c, "verify")
  /\ state' = "verifying"
  /\ call' = [call EXCEPT ![c].pc = "verifying", ![c].sound = Alive(call[c].i)]
  /\ UNCHANGED <<instance, ops, inst>> /\ keepSession /\ keepEvidence /\ keepMonitors

\* Mutant of VerdictCounts: the verdict of an ended session is recorded too.
VerdictAlwaysCounts(c) == TRUE
VerdictCounts(c) == Current(c)
\* Mutant of CloseRejected: the core of the rejected route is left running.
LeaveRejected(c) == Goto(c, "reject")
CloseRejected(c) == CloseThen(c, "reject")
\* The verdict of VerifyTunnel: a success needs a core that ran when it began.
EndVerify(c) ==
  /\ At(c, "verifying")
  /\ \E ok \in {FALSE, call[c].sound} :
       IF ~VerdictCounts(c) THEN CloseThen(c, "failed") /\ keepEvidence
       ELSE /\ verified' = Evidence(ok, call[c].gen) /\ failures' = IF ok THEN 0 ELSE failures
            /\ IF ok THEN Goto(c, "verified") ELSE CloseRejected(c)
  /\ UNCHANGED <<state, instance, ops, inst>> /\ keepSession /\ keepMonitors

\* The unusable route is dropped; the next candidate may run.
RejectRoute(c) ==
  /\ At(c, "reject")
  /\ IF Current(c) THEN instance' = 0 /\ state' = "selecting" ELSE UNCHANGED <<state, instance>>
  /\ Goto(c, "failed")
  /\ UNCHANGED <<ops, inst>> /\ keepSession /\ keepEvidence /\ keepMonitors

ConnectedVerified(c) ==
  /\ At(c, "verified")
  /\ IF Current(c) THEN state' = "connected_verified" /\ Goto(c, "stop_monitor")
     ELSE UNCHANGED state /\ Goto(c, "failed")
  /\ UNCHANGED <<instance, ops, inst>> /\ keepSession /\ keepEvidence /\ keepMonitors

\* Between two attempts: the call gives up when its own context or its session has
\* ended.  One more attempt on the same backend follows a failed readiness, if the
\* manager is in connection_failed.
AttemptFailed(c) ==
  /\ At(c, "failed") \/ At(c, "failed_ready")
  /\ \E ended \in BOOLEAN :
       LET giveUp == ended \/ call[c].cancelled \/ ~Current(c)
           again == At(c, "failed_ready") /\ state = "connection_failed"
           next == [Idle EXCEPT !.pc = "prepare", !.op = "connect", !.gen = call[c].gen]
       IN call' = [call EXCEPT ![c] =
            IF ~@.retried /\ giveUp THEN [next EXCEPT !.pc = "fail"]
            ELSE IF ~@.retried /\ again THEN [next EXCEPT !.left = call[c].left, !.retried = TRUE]
            ELSE IF @.left > 1 THEN [next EXCEPT !.left = call[c].left - 1]
            ELSE [next EXCEPT !.pc = "fail"]]
  /\ UNCHANGED <<state, instance, ops, inst>>
  /\ keepSession /\ keepEvidence /\ keepMonitors

\* failAt: the terminal state of a session that is still the current one.
FailAt(c) ==
  /\ At(c, "fail")
  /\ IF Current(c) THEN state' = "connection_failed" /\ instance' = 0 /\ session' = 0
     ELSE UNCHANGED <<state, instance, session>>
  /\ Return(c)
  /\ UNCHANGED <<generation, shutdown, configured, ops, inst>>
  /\ keepEvidence /\ keepMonitors

-----------------------------------------------------------------------------
(* Instance.Close, called by whoever holds the core.                       *)

CloseCore(c) ==
  /\ At(c, "close")
  /\ inst' = CloseBegun(call[c].i)
  /\ IF CloseReturnsAtOnce(call[c].i) THEN Continue(c) ELSE Goto(c, "closing")
  /\ UNCHANGED <<state, instance, ops>> /\ keepSession /\ keepEvidence /\ keepMonitors

CloseReturns(c) ==
  /\ At(c, "closing") /\ ~Alive(call[c].i)
  /\ inst' = CloseEnded(call[c].i)
  /\ Continue(c)
  /\ UNCHANGED <<state, instance, ops>> /\ keepSession /\ keepEvidence /\ keepMonitors

-----------------------------------------------------------------------------
(* stopMonitor and startMonitor.                                           *)

StopMonitor(c) ==
  /\ At(c, "stop_monitor")
  /\ call' = [call EXCEPT ![c].pc = "join", ![c].join = monitor]
  /\ monitor' = 0
  /\ mon' = [m \in Monitors |-> [mon[m] EXCEPT !.cancelled = @ \/ m = monitor]]
  /\ UNCHANGED <<state, instance, ops, inst>> /\ keepSession /\ keepEvidence

\* The wait for the goroutines of the monitor that was taken.
Joined(c) == At(c, "join") /\ (call[c].join # 0 => mon[call[c].join].tick = "done")

\* The new monitor watches the session and the core that are current by now.
InstallMonitor(c) ==
  /\ Joined(c) /\ call[c].op = "connect"
  /\ \E m \in Monitors :
       /\ mon[m].gen = 0 /\ \A k \in Monitors : k < m => mon[k].gen # 0
       /\ monitor' = m
       /\ mon' = [mon EXCEPT ![m] =
            [gen |-> generation, i |-> instance, cancelled |-> FALSE,
             watch |-> IF instance = 0 THEN "done" ELSE "wait", tick |-> "idle", sound |-> FALSE,
             torn |-> 0]]
  /\ Return(c)
  /\ UNCHANGED <<state, instance, ops, inst>> /\ keepSession /\ keepEvidence

-----------------------------------------------------------------------------
(* Disconnect, and the two calls built on it.                              *)

\* The session boundary comes first: the epoch and its runtime context end.
EndSession(c, op) ==
  /\ generation' = generation + 1 /\ session' = 0
  /\ call' = [call EXCEPT ![c].pc = "stop_monitor", ![c].op = op]
  /\ UNCHANGED <<state, shutdown, configured, instance, inst>> /\ keepEvidence /\ keepMonitors

CallDisconnect(c) == CanCall(c) /\ EndSession(c, "disconnect")
CallReconnect(c) == CanCall(c) /\ configured /\ EndSession(c, "reconnect")
CallShutdown(c) ==
  /\ CanCall(c)
  /\ shutdown' = TRUE /\ Goto(c, "shutdown")
  /\ UNCHANGED <<state, generation, session, configured, instance, inst>>
  /\ keepEvidence /\ keepMonitors
ShutdownDisconnects(c) == At(c, "shutdown") /\ EndSession(c, "shutdown") /\ UNCHANGED ops

TakeInstance(c) ==
  /\ Joined(c) /\ call[c].op # "connect"
  /\ instance' = 0 /\ state' = "disconnecting"
  /\ verified' = 0 /\ failures' = 0
  /\ call' = [call EXCEPT ![c].pc = IF instance = 0 THEN "disconnected" ELSE "close",
                          ![c].then = "disconnected", ![c].i = instance,
                          ![c].join = 0]
  /\ UNCHANGED <<ops, inst>> /\ keepSession /\ keepMonitors

\* The terminal state, whatever the epoch is by now.  Shutdown then forgets the
\* configuration; Reconnect goes on to Connect.
Disconnected(c) ==
  /\ At(c, "disconnected")
  /\ state' = "disconnected"
  /\ IF call[c].op = "reconnect" THEN Goto(c, "reconnect") ELSE Return(c)
  /\ configured' = (configured /\ call[c].op # "shutdown")
  /\ UNCHANGED <<generation, session, shutdown, instance, ops, inst>>
  /\ keepEvidence /\ keepMonitors

Reconnect(c) ==
  /\ At(c, "reconnect") /\ UNCHANGED ops
  /\ IF Connectable THEN BeginConnect(c)
     ELSE /\ Return(c) /\ UNCHANGED <<state, instance, inst>>
          /\ keepSession /\ keepEvidence /\ keepMonitors

-----------------------------------------------------------------------------
(* VerifyConnected.                                                        *)

VerifyConnected(c) ==
  /\ CanCall(c) /\ instance # 0 /\ ConnectedLike(state)
  /\ call' = [call EXCEPT ![c] = [Idle EXCEPT !.pc = "probe", !.op = "verify",
                                  !.gen = generation, !.sound = Alive(instance)]]
  /\ UNCHANGED <<state, instance, inst>> /\ keepSession /\ keepEvidence /\ keepMonitors

ApplyVerification(c) ==
  /\ At(c, "probe")
  /\ \E ok \in {FALSE, call[c].sound} :
       IF Current(c) THEN verified' = Evidence(ok, call[c].gen) /\ failures' = IF ok THEN 0 ELSE failures
       ELSE keepEvidence
  /\ Return(c)
  /\ UNCHANGED <<state, instance, ops, inst>> /\ keepSession /\ keepMonitors

-----------------------------------------------------------------------------
(* The monitor: a process watcher and a ticker, joined by stopMonitor.     *)

Watch(m, w) == mon' = [mon EXCEPT ![m].watch = w]
Tick(m, t) == mon' = [mon EXCEPT ![m].tick = t, ![m].sound = FALSE]
Observed(m) == mon[m].gen = generation /\ ConnectedLike(state)

\* Mutant of WaitProcess: the wait is not bound to the monitor's context.
WaitProcessExit(m) == ~Alive(mon[m].i)
WaitProcess(m) == mon[m].cancelled \/ ~Alive(mon[m].i)

\* WaitProcess returns; only an error on a monitor that still runs is a crash.
WatcherWakes(m) ==
  /\ mon[m].watch = "wait" /\ WaitProcess(m)
  /\ Watch(m, IF ~mon[m].cancelled /\ inst[mon[m].i].exit = "error" /\ Observed(m)
              THEN "crash" ELSE "done")
  /\ UNCHANGED <<state, instance, monitor, call, ops, inst>> /\ keepSession /\ keepEvidence

\* handleCoreCrash: a session boundary, if the session is still that one.
HandleCoreCrash(m) ==
  /\ mon[m].watch = "crash"
  /\ IF Observed(m)
     THEN /\ state' = "connection_failed" /\ instance' = 0
          /\ generation' = generation + 1 /\ session' = 0
     ELSE UNCHANGED <<state, instance, generation, session>>
  /\ inst' = CloseBegun(mon[m].i)
  /\ Watch(m, IF CloseReturnsAtOnce(mon[m].i) THEN "done" ELSE "closing")
  /\ UNCHANGED <<shutdown, configured, monitor, call, ops>> /\ keepEvidence

WatcherCloses(m) ==
  /\ mon[m].watch = "closing" /\ ~Alive(mon[m].i)
  /\ inst' = CloseEnded(mon[m].i)
  /\ Watch(m, "done")
  /\ UNCHANGED <<state, instance, monitor, call, ops>> /\ keepSession /\ keepEvidence

\* The ticker's iteration ends the monitor when its session is over.
MonitorEnds(m) ==
  /\ mon[m].tick = "idle"
  /\ mon[m].cancelled \/ instance = 0 \/ ~Observed(m)
  /\ mon' = [mon EXCEPT ![m].tick = "exit", ![m].cancelled = TRUE]
  /\ UNCHANGED <<state, instance, monitor, call, ops, inst>> /\ keepSession /\ keepEvidence

MonitorDone(m) ==
  /\ mon[m].tick = "exit" /\ mon[m].watch = "done"
  /\ mon' = [mon EXCEPT ![m] = [NoMonitor EXCEPT !.gen = mon[m].gen]]
  /\ UNCHANGED <<state, instance, monitor, call, ops, inst>> /\ keepSession /\ keepEvidence

\* Mutant of RecheckDue: a dead core is left to the watcher.
RecheckDueAlive(m) ==
  instance # 0 /\ mon[m].gen = generation /\ state = "connected_verified" /\ Alive(instance)
RecheckDue(m) == instance # 0 /\ mon[m].gen = generation /\ state = "connected_verified"
\* Mutant of Tolerated: one failure more before the session ends.
ToleratedOnce == failures + 1 <= Threshold
\* Grace: the session survives fewer failures than the threshold.
Tolerated == failures + 1 < Threshold

\* runStabilityRecheck, when one is due.  A probe under a cancelled context fails.
BeginRecheck(m) ==
  /\ mon[m].tick = "idle" /\ RecheckDue(m)
  /\ mon' = [mon EXCEPT ![m].tick = "recheck",
                          ![m].sound = Alive(instance) /\ ~mon[m].cancelled]
  /\ UNCHANGED <<state, instance, monitor, call, ops, inst>> /\ keepSession /\ keepEvidence

\* Success resets the count, one failure too many ends the session.
EndRecheck(m) ==
  /\ mon[m].tick = "recheck"
  /\ \E ok \in {FALSE, mon[m].sound} :
       IF mon[m].gen # generation
       THEN Tick(m, "idle") /\ UNCHANGED <<state, instance>> /\ keepSession /\ keepEvidence
       ELSE IF ok \/ Tolerated
       THEN /\ verified' = Evidence(ok, mon[m].gen) /\ failures' = IF ok THEN 0 ELSE failures + 1
            /\ Tick(m, "idle") /\ UNCHANGED <<state, instance>> /\ keepSession
       ELSE /\ UNCHANGED verified /\ failures' = 0
            /\ state' = "disconnecting" /\ instance' = 0
            /\ generation' = generation + 1 /\ session' = 0
            /\ mon' = [mon EXCEPT ![m].tick = IF instance = 0 THEN "fail" ELSE "close",
                                  ![m].torn = instance]
            /\ UNCHANGED <<shutdown, configured>>
  /\ UNCHANGED <<monitor, call, ops, inst>>

\* The teardown ends before connection_failed shows.
MonitorCloses(m) ==
  /\ \/ /\ mon[m].tick = "close"
        /\ inst' = CloseBegun(mon[m].torn)
        /\ Tick(m, IF CloseReturnsAtOnce(mon[m].torn) THEN "fail" ELSE "closing")
     \/ /\ mon[m].tick = "closing" /\ ~Alive(mon[m].torn)
        /\ inst' = CloseEnded(mon[m].torn)
        /\ Tick(m, "fail")
  /\ UNCHANGED <<state, instance, monitor, call, ops>> /\ keepSession /\ keepEvidence

MonitorFails(m) ==
  /\ mon[m].tick = "fail"
  /\ state' = IF state = "disconnecting" THEN "connection_failed" ELSE state
  /\ Tick(m, "idle")
  /\ UNCHANGED <<instance, monitor, call, ops, inst>> /\ keepSession /\ keepEvidence

-----------------------------------------------------------------------------
CallerStep(c) ==
  \/ SelectBackend(c) \/ NextAttempt(c) \/ StartingCore(c) \/ LaunchFails(c) \/ LaunchCore(c)
  \/ PublishInstance(c) \/ WaitReady(c) \/ DropInstance(c) \/ CoreReady(c) \/ BeginVerify(c)
  \/ EndVerify(c) \/ RejectRoute(c) \/ ConnectedVerified(c) \/ AttemptFailed(c) \/ FailAt(c)
  \/ CloseCore(c) \/ CloseReturns(c) \/ StopMonitor(c) \/ InstallMonitor(c)
  \/ ShutdownDisconnects(c) \/ TakeInstance(c) \/ Disconnected(c) \/ Reconnect(c) \/ ApplyVerification(c)
WatcherStep(m) == WatcherWakes(m) \/ HandleCoreCrash(m) \/ WatcherCloses(m)
TickStep(m) ==
  \/ MonitorEnds(m) \/ MonitorDone(m) \/ BeginRecheck(m) \/ EndRecheck(m)
  \/ MonitorCloses(m) \/ MonitorFails(m)
SupervisorStep(i) ==
  /\ \/ SupervisorReady(i) \/ SupervisorTimesOut(i)
     \/ SupervisorFailed(i, Live(inst[i].ctx))
  /\ UNCHANGED mvars
Killed(i) == ProcKilled(i, Live(inst[i].ctx)) /\ UNCHANGED mvars
Exits(i) == ProcExits(i, Live(inst[i].ctx)) /\ UNCHANGED mvars

Next ==
  \/ \E c \in Callers :
       \/ Connect(c) \/ CallDisconnect(c) \/ CallReconnect(c) \/ CallShutdown(c)
       \/ VerifyConnected(c) \/ CallerStep(c)
  \/ \E m \in Monitors : WatcherStep(m) \/ TickStep(m)
  \/ \E i \in Instances : SupervisorStep(i) \/ Killed(i) \/ Exits(i)

\* A goroutine that can go on does; nobody is obliged to call, and no core to exit.
Fairness ==
  /\ \A c \in Callers : WF_vars(CallerStep(c))
  /\ \A m \in Monitors : WF_vars(WatcherStep(m)) /\ WF_vars(TickStep(m))
  /\ \A i \in Instances : WF_vars(SupervisorStep(i)) /\ WF_vars(Killed(i))

Spec == Init /\ [][Next]_vars /\ Fairness

-----------------------------------------------------------------------------
\* Every field of the manager, of a call and of a monitor has its type.
TypeOK ==
  /\ InstanceTypeOK
  /\ state \in States /\ generation \in Nat /\ session \in 0 .. generation
  /\ instance \in Instances \cup {0} /\ failures \in 0 .. Threshold - 1
  /\ verified \in 0 .. generation
  /\ shutdown \in BOOLEAN /\ configured \in BOOLEAN
  /\ monitor \in Monitors \cup {0} /\ ops \in 0 .. MaxOps
  /\ \A c \in Callers : call[c].gen \in 0 .. generation /\ call[c].i \in Instances \cup {0}
  /\ \A m \in Monitors : mon[m].gen \in 0 .. generation /\ mon[m].i \in Instances \cup {0}

\* The core a call is about to publish, to close, or to learn the fate of.
Held(i) ==
  \/ \E c \in Callers :
       /\ call[c].i = i
       /\ call[c].pc \in {"publish", "wait", "close", "closing", "ready", "verify", "verifying"}
  \/ \E m \in Monitors : mon[m].torn = i /\ mon[m].tick = "close"

\* No unowned process: a running core that nobody has told to stop and whose session is
\* live is the manager's instance or is in the hands of a call (attempt: "it can never
\* resurrect state or leak an unowned process").
NoOrphanCore ==
  \A i \in Instances :
    Alive(i) /\ ~inst[i].stop /\ Live(inst[i].ctx) => instance = i \/ Held(i)

\* A live verified session never shows the success of another session: results that
\* arrive after a boundary are discarded by the generation gates.
EvidenceOfThisSession ==
  state = "connected_verified" /\ session # 0 => verified \in {0, generation}

Quiet == \A c \in Callers : At(c, "idle")
DeadSession == state = "connected_verified" /\ instance # 0 /\ ~Alive(instance)

\* With no call under way, an active state belongs to a session and a core (Disconnect:
\* "Nothing keeps mutating the manager afterwards").
\* The code does otherwise: TLC refutes this property (README, section 6).
IdleStateTrue == Quiet /\ Active(state) => session # 0 /\ instance # 0

\* With no call under way, a manager that says "disconnected" has no core (Disconnect's
\* last assignment does not ask which session is current).
\* The code does otherwise: TLC refutes this property (README, section 6).
DisconnectedTrue == Quiet /\ state = "disconnected" => instance = 0

\* Once nobody calls any more, every call under way returns: the joins, closes and
\* waits of overlapping calls and of the monitor never form a cycle.
CallsReturn == (ops = MaxOps) ~> Quiet

\* A verified session whose core is gone is left, whether the exit was an error (the
\* watcher sees it) or clean (only the stability rechecks tell).
DeadCoreNoticed == DeadSession ~> ~DeadSession

\* Once the manager is shut down, every core ends and every monitor goroutine is gone
\* for good.
ShutdownQuiesces ==
  shutdown ~> [](/\ \A i \in Instances : ~Alive(i)
                 /\ \A m \in Monitors : mon[m].tick = "done" /\ mon[m].watch = "done")

=============================================================================
