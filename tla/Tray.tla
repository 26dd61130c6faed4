-------------------------------- MODULE Tray --------------------------------
(***************************************************************************)
(* Settings and the system tray (engine/app/loggingservice.go Save and     *)
(* applySettings; the tray manager of cmd/freeiran/main.go).  The tray is  *)
(* built, synchronised and destroyed by closures posted to the UI thread.  *)
(***************************************************************************)
EXTENDS Integers, Sequences

CONSTANTS Callers,    \* goroutines that synchronise the menu
          MaxSaves,   \* settings saves
          MaxChanges  \* changes of the tunnel mode

VARIABLES setting,    \* tray_enabled, in memory
          disk,       \* and in settings.json
          save,       \* the save in flight: the value, and how far it came
          saves,
          mode,       \* the tunnel mode
          changes,
          sync,       \* per caller: "idle", "read", or the mode it read
          ui,         \* the closures posted to the UI thread, in order
          tray,       \* {} without a tray, else "menu" and the boxes it shows checked
          app         \* "starting", "running", "quitting"

vars == <<setting, disk, save, saves, mode, changes, sync, ui, tray, app>>

Modes == {"off", "proxy", "tun"}
NoSave == [step |-> "none", value |-> FALSE]
Closures == [kind : {"reconcile"}, enabled : BOOLEAN] \cup [kind : {"show"}, mode : Modes]

TypeOK ==
  /\ setting \in BOOLEAN /\ disk \in BOOLEAN /\ saves \in 0..MaxSaves
  /\ save \in [step : {"none", "write", "apply"}, value : BOOLEAN]
  /\ mode \in Modes /\ changes \in 0..MaxChanges
  /\ sync \in [Callers -> {"idle", "read"} \cup Modes]
  /\ ui \in Seq(Closures)
  /\ tray \subseteq {"menu", "proxy", "tun"} /\ app \in {"starting", "running", "quitting"}

(* loadSettings: an unreadable file is the default, which has a tray. *)
Init ==
  /\ setting \in BOOLEAN /\ disk = setting
  /\ save = NoSave /\ saves = 0 /\ mode = "off" /\ changes = 0
  /\ sync = [c \in Callers |-> "idle"]
  /\ ui = <<>> /\ tray = {} /\ app = "starting"

(* The menu that shows a mode. *)
Menu(m) == {"menu"} \cup ({m} \ {"off"})

Reconcile(enabled) == [kind |-> "reconcile", enabled |-> enabled]

(* ApplicationStarted: the window is created and the first reconcile       *)
(* follows the setting.  The frontend that saves settings is in this       *)
(* window, so no save precedes it.                                         *)
Started ==
  /\ app = "starting" /\ app' = "running"
  /\ ui' = Append(ui, Reconcile(setting))
  /\ UNCHANGED <<setting, disk, save, saves, mode, changes, sync, tray>>

(* Save: an invalid setting, or a failed write, changes nothing. *)
SaveBegins ==
  /\ app = "running" /\ save = NoSave /\ saves < MaxSaves
  /\ saves' = saves + 1
  /\ \E v \in BOOLEAN : save' \in {NoSave, [step |-> "write", value |-> v]}
  /\ UNCHANGED <<setting, disk, mode, changes, sync, ui, tray, app>>

(* A mutation of SaveWrites: the setting changes though the write failed. *)
SaveWritesAnyway ==
  /\ save.step = "write"
  /\ setting' = save.value /\ disk' \in {disk, save.value}
  /\ save' = [save EXCEPT !.step = "apply"]
  /\ UNCHANGED <<saves, mode, changes, sync, ui, tray, app>>

(* WriteFileAtomic, then the setting in memory, under settingsWrite. *)
SaveWrites ==
  /\ save.step = "write"
  /\ \/ /\ disk' = save.value /\ setting' = save.value
        /\ save' = [save EXCEPT !.step = "apply"]
     \/ save' = NoSave /\ UNCHANGED <<setting, disk>>
  /\ UNCHANGED <<saves, mode, changes, sync, ui, tray, app>>

(* applySettings, still under settingsWrite: the listener posts the        *)
(* reconcile.                                                              *)
SaveApplies ==
  /\ save.step = "apply"
  /\ ui' = Append(ui, Reconcile(save.value))
  /\ save' = NoSave
  /\ UNCHANGED <<setting, disk, saves, mode, changes, sync, tray, app>>

-----------------------------------------------------------------------------
(* A TunnelService call changes the mode, or fails; either way its caller  *)
(* synchronises the menu afterwards.                                       *)
TunnelCall(c) ==
  /\ app = "running" /\ sync[c] = "idle" /\ changes < MaxChanges
  /\ changes' = changes + 1
  /\ mode' \in Modes
  /\ sync' = [sync EXCEPT ![c] = "read"]
  /\ UNCHANGED <<setting, disk, save, saves, ui, tray, app>>

(* A click of a checkbox: the toolkit flips it, then the handler calls the *)
(* service: Disable when the mode is its own, else Enable, refused without *)
(* a session.                                                              *)
Click(c, box) ==
  /\ app = "running" /\ tray # {} /\ sync[c] = "idle" /\ changes < MaxChanges
  /\ changes' = changes + 1
  /\ tray' = IF box \in tray THEN tray \ {box} ELSE tray \cup {box}
  /\ mode' \in IF mode = box THEN {"off", mode} ELSE {box, mode}
  /\ sync' = [sync EXCEPT ![c] = "read"]
  /\ UNCHANGED <<setting, disk, save, saves, ui, app>>

(* SyncFromServices: the state is read on the caller's goroutine, *)
SyncRead(c) ==
  /\ sync[c] = "read"
  /\ sync' = [sync EXCEPT ![c] = mode]
  /\ UNCHANGED <<setting, disk, save, saves, mode, changes, ui, tray, app>>

(* and the change of the menu is posted. *)
SyncPost(c) ==
  /\ sync[c] \in Modes
  /\ ui' = Append(ui, [kind |-> "show", mode |-> sync[c]])
  /\ sync' = [sync EXCEPT ![c] = "idle"]
  /\ UNCHANGED <<setting, disk, save, saves, mode, changes, tray, app>>

-----------------------------------------------------------------------------
(* The UI thread.  buildLocked makes the checkboxes unchecked. *)
Built == Menu("off")

(* A mutation of Reconciled: an existing tray is not destroyed. *)
ReconciledKept(enabled) == IF tray = {} /\ enabled THEN Built ELSE tray

Reconciled(enabled) ==
  CASE enabled /\ tray = {} -> Built
    [] enabled /\ tray # {} -> tray
    [] OTHER -> {}

RunClosure ==
  /\ ui # <<>> /\ app = "running"
  /\ ui' = Tail(ui)
  /\ tray' = IF Head(ui).kind = "reconcile" THEN Reconciled(Head(ui).enabled)
             ELSE IF tray = {} THEN tray ELSE Menu(Head(ui).mode)
  /\ UNCHANGED <<setting, disk, save, saves, mode, changes, sync, app>>

(* OnShutdown: the tray is destroyed before the engine stops. *)
Quit ==
  /\ app = "running" /\ app' = "quitting"
  /\ tray' = {}
  /\ UNCHANGED <<setting, disk, save, saves, mode, changes, sync, ui>>

Next ==
  \/ Started \/ SaveBegins \/ SaveWrites \/ SaveApplies
  \/ \E c \in Callers : \/ TunnelCall(c) \/ SyncRead(c) \/ SyncPost(c)
                        \/ \E box \in {"proxy", "tun"} : Click(c, box)
  \/ RunClosure \/ Quit

(* The goroutines and the UI thread keep running. *)
Fairness ==
  /\ WF_vars(SaveWrites \/ SaveApplies)
  /\ \A c \in Callers : WF_vars(SyncRead(c) \/ SyncPost(c))
  /\ WF_vars(RunClosure)

Spec == Init /\ [][Next]_vars /\ Fairness

-----------------------------------------------------------------------------
Settled == app = "running" /\ ui = <<>> /\ save = NoSave /\ \A c \in Callers : sync[c] = "idle"

(* The saved setting governs the tray: once the saves and the closures they *)
(* posted are done, the file, the setting in memory and the existence of   *)
(* the tray agree, in whatever order saves were made.                      *)
TrayFollows == Settled => disk = setting /\ (tray # {} <=> setting)

(* "a failed enable, a disconnect, an external change or a rebuild always  *)
(* re-reads the real dataplane state, so the menu cannot drift": once the  *)
(* closures are done, the checkboxes show the tunnel mode.                 *)
(* The code does otherwise: TLC refutes this property (README, section 6). *)
MenuAgrees == Settled /\ tray # {} => tray = Menu(mode)
=============================================================================
