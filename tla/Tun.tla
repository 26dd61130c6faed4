-------------------------------- MODULE Tun ---------------------------------
(***************************************************************************)
(* The TUN mode of engine/tunnel: the controller, the backend that selects *)
(* between the first-party dataplane and the managed sing-box process, the *)
(* session marker, and crashes.                                            *)
(*                                                                         *)
(* The calls of the controller are exclusive (Controller.mu).  The mutex   *)
(* of the sing-box backend is modelled where it is held across a call.     *)
(***************************************************************************)
EXTENDS Integers

CONSTANT Entries  \* number of addresses and routes the first-party adapter gets

VARIABLES
  call,     \* step of the controller's call; "idle", "down" after a crash
  enabled,  \* Controller.enabled
  active,   \* selectingTUNBackend.active: NoBackend, "first", "singbox"
  running,  \* the backend that holds a device or an instance, NoBackend for none
  adapter,  \* platform: the backend whose adapter exists
  applied,  \* platform: addresses and routes on the first-party adapter
  undo,     \* undo steps the first-party backend knows
  marker,   \* the session marker file exists
  status,   \* published status of the last session
  mu        \* the mutex of the sing-box backend is held across steps

vars == <<call, enabled, active, running, adapter, applied, undo, marker, status, mu>>

NoBackend == "none"

Init ==
  /\ call = "idle" /\ enabled = FALSE /\ active = NoBackend /\ running = NoBackend
  /\ adapter = NoBackend /\ applied = 0 /\ undo = 0 /\ marker = FALSE /\ status = "off"
  /\ mu = FALSE

\* failEnable: the call ends with status failed; the controller stays disabled.
Fails == call' = "idle" /\ status' = "failed"
Succeeds(b) == call' = "idle" /\ status' = "active" /\ enabled' = TRUE /\ active' = b

-----------------------------------------------------------------------------
(* The first-party backend.                                                *)

\* The checks before anything is touched, and OpenDevice.
FirstOpen ==
  /\ call = "idle" /\ ~enabled /\ running = NoBackend /\ adapter = NoBackend
  /\ \/ /\ call' = "opened" /\ running' = "first" /\ adapter' = "first" /\ status' = "starting"
     \/ Fails /\ UNCHANGED <<running, adapter>>
  /\ UNCHANGED <<enabled, active, applied, undo, marker, mu>>

\* ApplyInterfaceConfig: the list of undo steps is kept only when all entries were applied.
FirstConfigure ==
  /\ call = "opened"
  /\ \/ applied' = Entries /\ undo' = Entries /\ call' = "configured"
     \/ applied' \in 0 .. Entries - 1 /\ undo' = 0 /\ call' = "undo"
  /\ UNCHANGED <<enabled, active, running, adapter, marker, status, mu>>

\* Route, engine and userspace stack start; the failure of one cancels the engine.
FirstServe ==
  /\ call = "configured" /\ call' \in {"serving", "undo"}
  /\ UNCHANGED <<enabled, active, running, adapter, applied, undo, marker, status, mu>>

\* The verification gate; a session that fails it is torn down by Disable.
FirstVerify ==
  /\ call = "serving"
  /\ \/ Succeeds("first")
     \/ call' = "undo" /\ UNCHANGED <<enabled, active, status>>
  /\ UNCHANGED <<running, adapter, applied, undo, marker, mu>>

\* Mutant of AfterClose: the device is forgotten and not closed.
AfterCloseOpen == adapter
\* device.Close removes the adapter, and what is configured on it.
AfterClose == NoBackend

\* rollbackFailed: undo steps in reverse, each may fail, then the device.
FirstRollback ==
  /\ call = "undo"
  /\ adapter' = AfterClose /\ applied' = 0
  /\ undo' = 0 /\ running' = NoBackend /\ Fails
  /\ UNCHANGED <<enabled, active, marker, mu>>

\* Disable: an undo step that failed is reported, and the controller stays enabled; the
\* selecting backend forgets the session all the same, so the next Disable finds none.
FirstDisable ==
  /\ call = "idle" /\ enabled /\ active = "first"
  /\ adapter' = AfterClose /\ applied' = 0
  /\ undo' = 0 /\ running' = NoBackend /\ active' = NoBackend
  /\ \/ enabled' = FALSE /\ status' = "off"
     \/ enabled' = TRUE /\ status' = "failed"
  /\ UNCHANGED <<call, marker, mu>>

DisableAgain ==
  /\ call = "idle" /\ enabled /\ active = NoBackend
  /\ enabled' = FALSE /\ status' = "off"
  /\ UNCHANGED <<call, active, running, adapter, applied, undo, marker, mu>>

-----------------------------------------------------------------------------
(* The sing-box backend.                                                   *)

\* The checks, StartTUN, and the publication of the session under the mutex.
BoxStart ==
  /\ call = "idle" /\ ~enabled /\ running = NoBackend
  /\ \/ call' = "launched" /\ running' = "singbox" /\ adapter' = "singbox" /\ status' = "starting"
     \/ Fails /\ UNCHANGED <<running, adapter>>
  /\ UNCHANGED <<enabled, active, applied, undo, marker, mu>>

\* WaitReady, then adapter, routes, pinning and traffic (verifyTUNActivation).
BoxVerify ==
  /\ call = "launched" /\ call' \in {"verified", "stop"}
  /\ UNCHANGED <<enabled, active, running, adapter, applied, undo, marker, status, mu>>

\* Mutant of Marked: the session is active without a marker.
Unmarked == marker' = marker
Marked == marker' = TRUE

\* writeTUNSessionMarker.
BoxMark ==
  /\ call = "verified"
  /\ \/ Marked /\ call' = "marked"
     \/ call' = "stop" /\ UNCHANGED marker
  /\ UNCHANGED <<enabled, active, running, adapter, applied, undo, status, mu>>

\* Disable with an instance takes the mutex and calls setStatus before it lets go.
BoxDisable ==
  /\ call = "idle" /\ enabled /\ active = "singbox"
  /\ mu' = TRUE /\ call' = "disable"
  /\ UNCHANGED <<enabled, active, running, adapter, applied, undo, marker, status>>

\* setStatus takes the mutex: Enable publishes the session, Disable goes on to stop it.
BoxSetStatus ==
  /\ call \in {"marked", "disable"} /\ ~mu
  /\ IF call = "marked" THEN Succeeds("singbox")
     ELSE call' = "close" /\ status' = "stopping" /\ UNCHANGED <<enabled, active>>
  /\ UNCHANGED <<running, adapter, applied, undo, marker, mu>>

\* The process is stopped; its adapter may outlive it, and the removal of the marker may
\* fail.  rollbackEnable fails either way; Disable only then, and stays enabled.
BoxStop ==
  /\ call \in {"stop", "close"} /\ running' = NoBackend
  /\ \E left, kept \in BOOLEAN :
       /\ adapter' = IF left THEN "singbox" ELSE NoBackend
       /\ IF call = "stop" \/ left \/ kept THEN Fails /\ UNCHANGED <<enabled, marker>>
          ELSE call' = "idle" /\ status' = "off" /\ enabled' = FALSE /\ marker' = FALSE
  /\ active' = NoBackend
  /\ UNCHANGED <<applied, undo, mu>>

-----------------------------------------------------------------------------
\* A crash ends the process; its adapters go, or stay until sing-box ends.
Crash ==
  /\ call # "down" /\ call' = "down"
  /\ enabled' = FALSE /\ active' = NoBackend /\ running' = NoBackend /\ undo' = 0
  /\ adapter' \in {NoBackend, adapter} \ {"first"} /\ applied' = 0
  /\ mu' = FALSE
  /\ UNCHANGED <<marker, status>>

\* CheckStaleTUNSession at boot reports a marker and keeps the file.
Restart ==
  /\ call = "down" /\ call' = "idle" /\ status' = IF marker THEN "stale" ELSE "off"
  /\ UNCHANGED <<enabled, active, running, adapter, applied, undo, marker, mu>>

FirstSteps == FirstConfigure \/ FirstServe \/ FirstVerify \/ FirstRollback
BoxSteps == BoxVerify \/ BoxMark \/ BoxSetStatus \/ BoxStop
Next ==
  \/ FirstOpen \/ FirstSteps \/ FirstDisable \/ DisableAgain
  \/ BoxStart \/ BoxSteps \/ BoxDisable \/ Crash \/ Restart

Fairness == WF_vars(FirstSteps) /\ WF_vars(BoxSteps)
Spec == Init /\ [][Next]_vars /\ Fairness

-----------------------------------------------------------------------------
TypeOK ==
  /\ {active, running, adapter} \subseteq {NoBackend, "first", "singbox"}
  /\ {applied, undo} \subseteq 0 .. Entries /\ {enabled, marker, mu} \subseteq BOOLEAN

\* A tunnel that is off, or whose activation failed, leaves nothing of the first-party
\* dataplane behind: no device, no adapter, no address and no route, although the undo
\* steps of a batch that failed half way are never run.
TunOffClean == call = "idle" /\ ~enabled => running = NoBackend /\ adapter # "first" /\ applied = 0

\* A session of sing-box that was published active has a marker on disk, so a crash of the
\* application is reported at the next boot.
ActiveMarked == status = "active" /\ active = "singbox" => marker

\* Disable returns: "stop the dataplane, wait for exit, verify the interface is gone,
\* consume the session marker, report".
\* The code does otherwise: TLC refutes this property (README, section 6).
DisableReturns == call = "disable" ~> call # "disable"
=============================================================================
