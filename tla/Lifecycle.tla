------------------------------ MODULE Lifecycle ------------------------------
(***************************************************************************)
(* The life of the application (engine/app/app.go, bootphase.go,           *)
(* statepublish.go, cmd/freeiran/main.go): the boot transaction of New, the *)
(* background work of Start, the ingestion cycle, the publication of the   *)
(* application state, the test queue and tunnel controller created on      *)
(* first use, and Shutdown.                                                *)
(***************************************************************************)
EXTENDS Integers, Sequences, FiniteSets

CONSTANT MaxCycles     \* ingestion cycles

VARIABLES main,        \* the main goroutine: how far boot and wiring came
          held,        \* the resources of the boot transaction
          phases,      \* the boot phases recorded
          status,      \* AppState.Status
          cycle,       \* runIngestionCycle: "idle", "run", "finish", "return"
          ingesting,   \* the flag of the cycle
          cycles,
          worker,      \* the deferred goroutines of Start: waiting, at work, done
          seen,        \* the last state the publisher took, None before one
          queue,       \* the test queue: "none", "live", "stopped"
          watch,       \* whether its state watcher was started
          tunnel,      \* the tunnel controller: "none", "off", "on", "box" with a
                       \* sing-box TUN session, "hung" in the Disable of one
          session,     \* whether a core process runs
          call,        \* a call of the UI that got its queue or controller
          cancelled,   \* the lifecycle context
          shut,        \* the next step of Shutdown; 0 before it, and past the last
          late         \* whether Enable ended once Shutdown was past the tunnel,
                       \* or Shutdown could not restore it

vars == <<main, held, phases, status, cycle, ingesting, cycles, worker, seen, queue,
          watch, tunnel, session, call, cancelled, shut, late>>

None == [status |-> "none", ingesting |-> FALSE, phase |-> 0]

(* bootOrder: boot, workspace, store and services ready, UI runtime ready, *)
(* UI ready, background warmup, ready.                                     *)
Phases == 0..7
ServicesReady == 3
UIRuntimeReady == 4
UIReady == 5
BackgroundWarm == 6
BootReady == 7

(* The steps of New, with the resource each acquires; the last is the     *)
(* publisher of the connection manager, which has a goroutine.             *)
BootSteps == << "logger", "global", "store", "context", "publisher" >>

(* The order of Shutdown. *)
ShutdownSteps == << "memory", "recovery", "scheduler", "cancel", "status", "connection",
                    "publishers", "queue", "tunnel", "store", "logger" >>
TunnelStep == 9

Init ==
  /\ main = "boot" /\ held = {} /\ phases = {0} /\ status = "none"
  /\ cycle = "idle" /\ ingesting = FALSE /\ cycles = 0
  /\ worker = [w \in {"verify", "warm"} |-> "off"]
  /\ seen = None /\ queue = "none" /\ watch = FALSE /\ tunnel = "none"
  /\ session = FALSE /\ call = "none" /\ cancelled = FALSE /\ shut = 0 /\ late = FALSE

-----------------------------------------------------------------------------
(* Publication.                                                            *)

Last(S) == CHOOSE p \in S : \A q \in S : q <= p

(* State: a snapshot of the application state.  It is taken and published  *)
(* in one step here; StatePub models the publisher behind it.              *)
Current(st, ing, ph) == [status |-> st, ingesting |-> ing, phase |-> Last(ph)]

(* publishState: nothing before a listener registered or after            *)
(* stopPublishers.                                                         *)
Published == main \in {"wired", "started", "running"} /\ shut \notin 8..12

Publish(st, ing, ph) == seen' = IF Published THEN Current(st, ing, ph) ELSE seen

(* markBoot: a phase no later than the current one is ignored. *)
Advances(p) == p > Last(phases)

Mark(p) ==
  IF Advances(p)
  THEN phases' = phases \cup {p} /\ Publish(status, ingesting, phases')
  ELSE UNCHANGED <<phases, seen>>

-----------------------------------------------------------------------------
(* New and the wiring in main.                                             *)

Acquire ==
  /\ main = "boot" /\ Cardinality(held) < Len(BootSteps)
  /\ held' = held \cup {BootSteps[Cardinality(held) + 1]}
  /\ phases' = phases \cup {p \in {1, 2} : p <= Cardinality(held) - 1}
  /\ UNCHANGED <<main, status, cycle, ingesting, cycles, worker, seen, queue, watch,
                 tunnel, session, call, cancelled, shut, late>>

(* A mutation of Unreleased: the store stays open. *)
UnreleasedStore == {"store", "publisher"}

(* fail closes the store, the context, the global slot and the logger; it  *)
(* does not know of the connection manager.                                *)
Unreleased == {"publisher"}

(* A stage fails; loadSources, the last one, after the connection manager. *)
BootFails ==
  /\ main = "boot"
  /\ main' = "failed" /\ held' = held \cap Unreleased
  /\ cancelled' = ("context" \in held)
  /\ UNCHANGED <<phases, status, cycle, ingesting, cycles, worker, seen, queue, watch,
                 tunnel, session, call, shut, late>>

Booted ==
  /\ main = "boot" /\ Cardinality(held) = Len(BootSteps)
  /\ main' = "booted" /\ status' = "ready"
  /\ phases' = phases \cup {ServicesReady}
  /\ UNCHANGED <<held, cycle, ingesting, cycles, worker, seen, queue, watch, tunnel,
                 session, call, cancelled, shut, late>>

(* SetStateListener: the listener registers and the current state follows. *)
SetStateListener ==
  /\ main = "booted"
  /\ main' = "wired"
  /\ seen' = Current(status, ingesting, phases)
  /\ UNCHANGED <<held, phases, status, cycle, ingesting, cycles, worker, queue, watch,
                 tunnel, session, call, cancelled, shut, late>>

(* Start: the deferred goroutines wait out the warmup window. *)
Start ==
  /\ main = "wired"
  /\ main' = "started"
  /\ worker' = [w \in DOMAIN worker |-> "wait"]
  /\ Mark(BackgroundWarm)
  /\ UNCHANGED <<held, status, cycle, ingesting, cycles, queue, watch, tunnel, session,
                 call, cancelled, shut, late>>

(* MarkUIRuntimeReady, then wailsApp.Run. *)
RunUI ==
  /\ main = "started"
  /\ main' = "running"
  /\ Mark(UIRuntimeReady)
  /\ UNCHANGED <<held, status, cycle, ingesting, cycles, worker, queue, watch, tunnel,
                 session, call, cancelled, shut, late>>

(* MarkUIReady, when the frontend shows its first frame. *)
FirstFrame ==
  /\ main = "running" /\ shut = 0
  /\ Mark(UIReady)
  /\ UNCHANGED <<main, held, status, cycle, ingesting, cycles, worker, queue, watch,
                 tunnel, session, call, cancelled, shut, late>>

-----------------------------------------------------------------------------
(* Background work.                                                        *)

(* waitForWarmupWindow: the window passes, or the application ends first;  *)
(* the store refuses an operation once it is closed.                       *)
WindowOver(w) ==
  /\ worker[w] = "wait"
  /\ \E after \in {IF "store" \in held THEN "work" ELSE "refused"}
                   \cup {d \in {"done"} : cancelled} :
       worker' = [worker EXCEPT ![w] = after]
  /\ UNCHANGED <<main, held, phases, status, cycle, ingesting, cycles, seen, queue,
                 watch, tunnel, session, call, cancelled, shut, late>>

(* The verification: a corrupt chunk, or a cancelled walk, degrades a      *)
(* ready application.                                                      *)
VerifyDone ==
  /\ worker["verify"] \in {"work", "refused"}
  /\ worker' = [worker EXCEPT !["verify"] = "done"]
  /\ \E ok \in {FALSE} \cup {b \in {TRUE} : worker["verify"] = "work" /\ ~cancelled} :
       /\ status' = IF ~ok /\ status = "ready" THEN "degraded" ELSE status
       /\ IF ok THEN UNCHANGED seen ELSE Publish(status', ingesting, phases)
  /\ UNCHANGED <<main, held, phases, cycle, ingesting, cycles, queue, watch, tunnel,
                 session, call, cancelled, shut, late>>

(* warmCaches marks the last phase whether or not it read the store. *)
WarmDone ==
  /\ worker["warm"] \in {"work", "refused"}
  /\ worker' = [worker EXCEPT !["warm"] = "done"]
  /\ Mark(BootReady)
  /\ UNCHANGED <<main, held, status, cycle, ingesting, cycles, queue, watch, tunnel,
                 session, call, cancelled, shut, late>>

(* runIngestionCycle, by the scheduler or by a refresh of the user. *)
CycleStarts ==
  /\ main \in {"started", "running"} /\ ~cancelled /\ shut <= 3
  /\ cycle = "idle" /\ ~ingesting /\ cycles < MaxCycles
  /\ cycle' = "run" /\ ingesting' = TRUE /\ cycles' = cycles + 1
  /\ Publish(status, TRUE, phases)
  /\ UNCHANGED <<main, held, phases, status, worker, queue, watch, tunnel, session,
                 call, cancelled, shut, late>>

(* The pipeline ends, with or without an error; the merged state is saved. *)
CycleRuns ==
  /\ cycle = "run"
  /\ cycle' = "finish"
  /\ UNCHANGED <<main, held, phases, status, ingesting, cycles, worker, seen, queue,
                 watch, tunnel, session, call, cancelled, shut, late>>

CyclePublishes ==
  /\ cycle = "finish"
  /\ cycle' = "return"
  /\ Publish(status, ingesting, phases)
  /\ UNCHANGED <<main, held, phases, status, ingesting, cycles, worker, queue, watch,
                 tunnel, session, call, cancelled, shut, late>>

(* The deferred reset of the flag. *)
CycleReturns ==
  /\ cycle = "return"
  /\ cycle' = "idle" /\ ingesting' = FALSE
  /\ UNCHANGED <<main, held, phases, status, cycles, worker, seen, queue, watch, tunnel,
                 session, call, cancelled, shut, late>>

-----------------------------------------------------------------------------
(* Calls of the UI.                                                        *)

(* Nothing keeps calls of the UI out once Shutdown runs. *)
Serving == main = "running"

(* ensureTestQueue, under initMu: the queue starts under the lifecycle     *)
(* context, and the watcher with it.                                       *)
EnsureQueue ==
  /\ Serving /\ call = "none"
  /\ queue' = IF queue = "none" THEN (IF cancelled THEN "stopped" ELSE "live") ELSE queue
  /\ watch' = (watch \/ queue = "none")
  /\ UNCHANGED <<main, held, phases, status, cycle, ingesting, cycles, worker, seen,
                 tunnel, session, call, cancelled, shut, late>>

(* SetMode: a new queue takes the place of the old one, which is stopped. *)
SetMode ==
  /\ Serving /\ call = "none"
  /\ queue' = IF cancelled THEN "stopped" ELSE "live"
  /\ UNCHANGED <<main, held, phases, status, cycle, ingesting, cycles, worker, seen,
                 watch, tunnel, session, call, cancelled, shut, late>>

(* ensureController, then Enable on the controller it returned. *)
EnableBegins ==
  /\ Serving /\ call = "none"
  /\ call' = "enable"
  /\ tunnel' = IF tunnel = "none" THEN "off" ELSE tunnel
  /\ UNCHANGED <<main, held, phases, status, cycle, ingesting, cycles, worker, seen,
                 queue, watch, session, cancelled, shut, late>>

Enable ==
  /\ call = "enable" /\ tunnel # "hung"
  /\ call' = "none"
  /\ tunnel' \in {tunnel} \cup IF tunnel = "off" THEN {"on", "box"} ELSE {}
  /\ late' = (late \/ shut > TunnelStep)
  /\ UNCHANGED <<main, held, phases, status, cycle, ingesting, cycles, worker, seen,
                 queue, watch, session, cancelled, shut>>

(* Controller.Disable: it restores the proxy or tears the first-party TUN  *)
(* down, or fails to; with a sing-box session it holds the controller's    *)
(* mutex and waits for the backend's, which it holds itself (Tun).         *)
Disabled == CASE tunnel = "box" -> {"hung"} [] tunnel = "on" -> {"off", "on"}
              [] OTHER -> {tunnel}

Disable ==
  /\ Serving /\ call = "none" /\ tunnel \in {"on", "box"}
  /\ tunnel' \in Disabled
  /\ UNCHANGED <<main, held, phases, status, cycle, ingesting, cycles, worker, seen,
                 queue, watch, session, call, cancelled, shut, late>>

(* The connection manager refuses a connect once it shuts down. *)
Connect ==
  /\ Serving /\ call = "none" /\ shut <= 6
  /\ session' = ~session
  /\ UNCHANGED <<main, held, phases, status, cycle, ingesting, cycles, worker, seen,
                 queue, watch, tunnel, call, cancelled, shut, late>>

-----------------------------------------------------------------------------
(* Shutdown.                                                               *)

Quit ==
  /\ main = "running" /\ shut = 0
  /\ shut' = 1
  /\ UNCHANGED <<main, held, phases, status, cycle, ingesting, cycles, worker, seen,
                 queue, watch, tunnel, session, call, cancelled, late>>

(* A mutation of StopStep: the store closes before the connection.         *)
StopStepEarly(n) == CASE n = 6 -> "store" [] n = 10 -> "connection"
                      [] OTHER -> ShutdownSteps[n]

StopStep(n) == ShutdownSteps[n]

(* Each step waits for what it stops: the scheduler for its cycle, the     *)
(* tunnel for the mutex of its controller, the store for the operations in *)
(* flight.                                                                 *)
Ended(step) ==
  CASE step = "scheduler" -> cycle = "idle"
    [] step = "tunnel" -> tunnel # "hung"
    [] step = "store" -> \A w \in DOMAIN worker : worker[w] # "work"
    [] OTHER -> TRUE

ShutdownStep ==
  /\ shut \in 1..Len(ShutdownSteps)
  /\ LET step == StopStep(shut) IN
     /\ Ended(step)
     /\ tunnel' \in IF step = "tunnel" THEN Disabled ELSE {tunnel}
     /\ shut' = IF tunnel' = "hung" /\ step = "tunnel" THEN shut ELSE shut + 1
     /\ late' = (late \/ (step = "tunnel" /\ tunnel' = "on"))
     /\ cancelled' = (cancelled \/ step = "cancel")
     /\ status' = IF step = "status" THEN "shutting_down" ELSE status
     /\ IF step = "status" THEN Publish(status', ingesting, phases) ELSE UNCHANGED seen
     /\ session' = (session /\ step # "connection")
     /\ queue' = IF step = "queue" /\ queue = "live" THEN "stopped" ELSE queue
     /\ held' = held \ CASE step = "cancel" -> {"context"}
                         [] step = "connection" -> {"publisher"}
                         [] step = "store" -> {"store"}
                         [] step = "logger" -> {"logger", "global"}
                         [] OTHER -> {}
  /\ UNCHANGED <<main, phases, cycle, ingesting, cycles, worker, watch, call>>

-----------------------------------------------------------------------------
Next ==
  \/ Acquire \/ BootFails \/ Booted \/ SetStateListener \/ Start \/ RunUI \/ FirstFrame
  \/ \E w \in DOMAIN worker : WindowOver(w)
  \/ VerifyDone \/ WarmDone
  \/ CycleStarts \/ CycleRuns \/ CyclePublishes \/ CycleReturns
  \/ EnsureQueue \/ SetMode \/ EnableBegins \/ Enable \/ Disable \/ Connect
  \/ Quit \/ ShutdownStep

MainGoes == Acquire \/ Booted \/ SetStateListener \/ Start \/ RunUI
Verifying == WindowOver("verify") \/ VerifyDone
Warming == WindowOver("warm") \/ WarmDone
CycleGoes == CycleRuns \/ CyclePublishes \/ CycleReturns

(* The scheduler of the runtime runs every goroutine that can run; what    *)
(* the user does is not fair.                                              *)
Fairness ==
  /\ WF_vars(MainGoes) /\ WF_vars(Verifying) /\ WF_vars(Warming) /\ WF_vars(CycleGoes)
  /\ WF_vars(Enable) /\ WF_vars(ShutdownStep)

Spec == Init /\ [][Next]_vars /\ Fairness

-----------------------------------------------------------------------------
TypeOK ==
  /\ main \in {"boot", "failed", "booted", "wired", "started", "running"}
  /\ held \subseteq {BootSteps[i] : i \in DOMAIN BootSteps} /\ phases \subseteq Phases
  /\ status \in {"none", "ready", "degraded", "shutting_down"}
  /\ cycle \in {"idle", "run", "finish", "return"} /\ cycles \in 0..MaxCycles
  /\ queue \in {"none", "live", "stopped"} /\ call \in {"none", "enable"}
  /\ tunnel \in {"none", "off", "on", "box", "hung"} /\ shut \in 0..Len(ShutdownSteps) + 1

(* A boot that fails holds no file, lock or context: whatever New acquired *)
(* before the failing stage is released by the one failure path of the     *)
(* transaction.  The one exception is the publisher's goroutine.           *)
BootUnwinds == main = "failed" => held \subseteq {"publisher"}

(* Shutdown stops in order: when the store closes, no core process runs,   *)
(* the tunnel is down, the queue has stopped and no background goroutine   *)
(* works on the store; and what is stopped stays so.  The exception is a   *)
(* tunnel that Shutdown failed to restore, or that a call of the UI        *)
(* enables after Shutdown disabled it.                                     *)
StopsInOrder ==
  main = "running" /\ "store" \notin held =>
    /\ ~session /\ (tunnel \in {"none", "off"} \/ late) /\ queue # "live"
    /\ "publisher" \notin held
    /\ \A w \in DOMAIN worker : worker[w] # "work"

(* A boot that is not cut short reaches the last phase, and a Shutdown     *)
(* that began ends, whatever the cycle and the warmup were doing.  The one *)
(* exception is the Disable of a sing-box session, which does not return:  *)
(* the store then stays open (README, section 6).                          *)
Due(i) == \/ i = 1 /\ main = "boot"
          \/ i = 2 /\ shut = 1
Met(i) == \/ i = 1 /\ (main = "failed" \/ BootReady \in phases \/ shut > 0)
          \/ i = 2 /\ (shut > Len(ShutdownSteps) \/ tunnel = "hung")
BootAndStopEnd == \A i \in 1..2 : Due(i) ~> Met(i)

(* "Shutdown coordinates a safe stop ... flush and close the store": a     *)
(* Shutdown that began closes the store.                                   *)
(* The code does otherwise: TLC refutes this property (README, section 6). *)
ShutdownCloses == shut = 1 ~> shut > Len(ShutdownSteps)

(* "Boot phases, in guaranteed transition order.  A phase may be skipped   *)
(* only when the process fails before reaching it."                        *)
(* The code does otherwise: TLC refutes this property (README, section 6). *)
PhasesRecorded ==
  main = "running" => UIRuntimeReady \in phases

(* "Every subsequent real change is published from the transition path     *)
(* that caused it": between transitions, the state the UI was last given   *)
(* is the state of the application.                                        *)
(* The code does otherwise: TLC refutes this property (README, section 6). *)
PublishedTrue ==
  Published /\ cycle = "idle" => seen = Current(status, ingesting, phases)

(* "The ONE queue-change pump starts with the ONE queue." *)
(* The code does otherwise: TLC refutes this property (README, section 6). *)
QueueWatched == queue = "live" => watch
=============================================================================
