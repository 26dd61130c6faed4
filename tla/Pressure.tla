------------------------------ MODULE Pressure ------------------------------
(***************************************************************************)
(* Memory pressure and what follows it (engine/mempressure, engine/booster, *)
(* engine/cleanup, engine/app memoryservice.go and cleanupservice.go): one  *)
(* goroutine samples the pressure and ticks the booster; the listener of a *)
(* change gates the test queue, adapts the store and asks for a cleanup    *)
(* pass, while the queue may be created or replaced.                       *)
(***************************************************************************)
EXTENDS Integers, Sequences

CONSTANTS Usages,      \* the usage fractions sampled, in percent
          Highest,     \* per tunable, the upper limit of the booster
          Override     \* DevQueueWorkers, 0 for none

VARIABLES usage,       \* the last sampled usage fraction
          state,       \* Controller.state: 0 normal .. 3 critical
          listener,    \* the state the listener has yet to act on, or None
          target,      \* the queue the listener read before it acts
          level,       \* the pressure level the store adapted to
          settings,    \* the booster's settings
          cooldown,    \* its depthCooldown
          queue,       \* the current queue: serial, gate, workers; serial 0 for none
          old,         \* the gate of the queue SetMode replaced
          pass,        \* whether a pass runs
          recent       \* whether MinInterval has not passed since the last one

vars == <<usage, state, listener, target, level, settings, cooldown, queue, old,
          pass, recent>>

None == -1
NoQueue == [serial |-> 0, held |-> FALSE, workers |-> 0]
Tunables == {"workers", "ingestion", "parser", "batch", "cache", "chunk", "depth"}
Lowest == [t \in Tunables |-> 1]

(* The thresholds of New, in percent. *)
Up == << 60, 75, 88, 100 >>
Down == << 0, 45, 60, 72 >>

(* A mutation of clamp: the upper limit is forgotten. *)
clampLow(v, lo, hi) == IF v < lo THEN lo ELSE v

clamp(v, lo, hi) == IF v < lo THEN lo ELSE IF v > hi THEN hi ELSE v
Within(t, v) == clamp(v, Lowest[t], Highest[t])

TypeOK ==
  /\ usage \in Usages \cup {0} /\ state \in 0..3 /\ listener \in None..3 /\ level \in 0..3
  /\ target \in None..2 /\ cooldown \in 0..2
  /\ settings \in [Tunables -> Nat]
  /\ queue.serial \in 0..2 /\ old \in BOOLEAN
  /\ pass \in BOOLEAN /\ recent \in BOOLEAN

Init ==
  /\ usage = 0 /\ state = 0 /\ listener = None /\ target = None /\ level = 0
  /\ settings = [t \in Tunables |-> Within(t, Highest[t] \div 2)] /\ cooldown = 0
  /\ queue = NoQueue /\ old = FALSE
  /\ pass = FALSE /\ recent = FALSE

-----------------------------------------------------------------------------
(* A mutation of Steps: the first downward threshold is the upward one. *)
StepsTight(s, u) ==
  IF s < Len(Up) - 1 /\ u >= Up[s + 1] THEN s + 1
  ELSE IF s > 0 /\ u < Up[s] THEN s - 1 ELSE s

(* One round of the hysteresis loop of Sample. *)
Steps(s, u) ==
  IF s < Len(Up) - 1 /\ u >= Up[s + 1] THEN s + 1
  ELSE IF s > 0 /\ u < Down[s + 1] THEN s - 1 ELSE s

(* The loop goes on until nothing changes; four states need three rounds. *)
Settle(s, u) == Steps(Steps(Steps(s, u), u), u)

(* Sample, by the one sampling goroutine. *)
Sample(u) ==
  /\ listener = None
  /\ usage' = u
  /\ state' = Settle(state, u)
  /\ listener' = IF state' # state THEN state' ELSE None
  /\ UNCHANGED <<target, level, settings, cooldown, queue, old, pass, recent>>

Holds(s) == s \in {2, 3}

(* The listener reads the queue under initMu, *)
ListenerReads ==
  /\ listener # None /\ target = None
  /\ target' = queue.serial
  /\ UNCHANGED <<usage, state, listener, level, settings, cooldown, queue, old,
                 pass, recent>>

(* gates it, adapts the store and asks for a cleanup pass.  The caches it  *)
(* clears and the handles it closes are in Caches and HandleCache.         *)
ListenerActs ==
  /\ listener # None /\ target # None
  /\ queue' = IF target # 0 /\ target = queue.serial
              THEN [queue EXCEPT !.held = Holds(listener)] ELSE queue
  /\ old' = IF target # 0 /\ target # queue.serial THEN Holds(listener) ELSE old
  /\ level' = listener
  /\ listener' = None /\ target' = None
  /\ UNCHANGED <<usage, state, settings, cooldown, pass, recent>>

-----------------------------------------------------------------------------
(* The queue, under initMu.                                                *)

(* effectiveQueueConcurrency. *)
Effective(n) == IF Override > 0 THEN Override ELSE n

(* A mutation of Gate: a new queue is not gated. *)
GateOpen(s) == FALSE

(* applyAdmissionGate: a new queue starts under the current pressure. *)
Gate(s) == Holds(s)

(* ensureTestQueue takes the booster's worker count. *)
EnsureQueue ==
  /\ queue.serial = 0
  /\ queue' = [serial |-> 1, held |-> Gate(state), workers |-> settings["workers"]]
  /\ UNCHANGED <<usage, state, listener, target, level, settings, cooldown, old,
                 pass, recent>>

(* SetMode takes the worker count of the mode. *)
SetMode(n) ==
  /\ queue.serial < 2
  /\ queue' = [serial |-> queue.serial + 1, held |-> Gate(state), workers |-> n]
  /\ old' = queue.held
  /\ UNCHANGED <<usage, state, listener, target, level, settings, cooldown, pass,
                 recent>>

-----------------------------------------------------------------------------
(* The booster.                                                            *)

(* What a tick makes of a tunable: in the normal state it is raised when   *)
(* the workload (backlog, hit rate, throughput) demands it, under pressure *)
(* it is lowered.  A value never leaves its limits.                        *)
Adjusted(t, demand) ==
  LET v == settings[t] IN
  CASE state = 0 /\ t \in demand \cap {"workers", "ingestion"} -> Within(t, v + 1)
    [] state = 0 /\ t \in demand \cap {"cache", "batch"} -> Within(t, v * 2)
    [] state = 0 /\ t \in demand \cap {"depth"} ->
         IF cooldown > 0 THEN v ELSE Within(t, v + 1)
    [] state = 1 /\ t \in demand \cap {"cache"} -> Within(t, v \div 2)
    [] state = 1 /\ t = "batch" -> Within(t, v \div 2)
    [] state = 2 /\ t \in {"workers", "ingestion", "parser"} -> Within(t, (v * 3) \div 4)
    [] state = 2 /\ t \in {"cache", "batch", "chunk"} -> Within(t, v \div 2)
    [] state = 3 -> Lowest[t]
    [] OTHER -> v

(* The queue depth grows at most every third tick of the normal state. *)
Cooled(grew) ==
  IF state # 0 THEN 0 ELSE IF cooldown > 0 THEN cooldown - 1 ELSE IF grew THEN 2 ELSE 0

(* OnChange: the queue, if there is one, takes the worker count; the cache *)
(* and the store take theirs.                                              *)
OnChange(new) ==
  IF new # settings /\ queue.serial # 0
  THEN [queue EXCEPT !.workers = Effective(new["workers"])] ELSE queue

(* Tick, in the goroutine that samples. *)
Tick(demand) ==
  /\ listener = None
  /\ settings' = [t \in Tunables |-> Adjusted(t, demand)]
  /\ cooldown' = Cooled(settings'["depth"] > settings["depth"])
  /\ queue' = OnChange(settings')
  /\ UNCHANGED <<usage, state, listener, target, level, old, pass, recent>>

-----------------------------------------------------------------------------
(* Cleanup.                                                                *)

(* Run, by the maintenance ticker or at the request of the listener, in a  *)
(* goroutine of its own: refused while a pass runs or soon after one.      *)
CleanupRun ==
  /\ pass' = (pass \/ ~recent)
  /\ UNCHANGED <<usage, state, listener, target, level, settings, cooldown, queue, old, recent>>

(* The tasks run one after the other, each well or with an error; the pass *)
(* ends with the last one or when its time is over.                        *)
PassEnds ==
  /\ pass /\ pass' = FALSE /\ recent' = TRUE
  /\ UNCHANGED <<usage, state, listener, target, level, settings, cooldown, queue, old>>

(* MinInterval passes. *)
IntervalOver ==
  /\ recent /\ recent' = FALSE
  /\ UNCHANGED <<usage, state, listener, target, level, settings, cooldown, queue, old,
                 pass>>

-----------------------------------------------------------------------------
Next ==
  \/ \E u \in Usages : Sample(u)
  \/ ListenerReads \/ ListenerActs
  \/ EnsureQueue \/ \E n \in {1, Highest["workers"]} : SetMode(n)
  \/ \E demand \in SUBSET {"workers", "ingestion", "cache", "batch", "depth"} : Tick(demand)
  \/ CleanupRun \/ PassEnds \/ IntervalOver

(* The tickers keep ticking, and a started call goes on. *)
Fairness ==
  /\ WF_vars(ListenerReads \/ ListenerActs)
  /\ WF_vars(PassEnds)

Spec == Init /\ [][Next]_vars /\ Fairness

-----------------------------------------------------------------------------
(* Hysteresis without a stuck state: after every sample the state is one   *)
(* the usage allows.  Above the highest threshold it is critical, below    *)
(* the lowest normal, and in between it is what the thresholds last        *)
(* crossed say, in one sample and not one level per sample.                *)
Banded ==
  \A s \in 1..3 : /\ usage >= Up[s] => state >= s
                  /\ usage < Down[s + 1] => state < s

(* A usage inside the band of the state it settled in keeps it there, so a *)
(* level is left only when the usage leaves the band by the other side.    *)
NoFlappingStep ==
  \A s \in 1..3 : /\ state < s /\ state' >= s => usage' >= Up[s]
                  /\ state >= s /\ state' < s => usage' < Down[s + 1]
NoFlapping == [][NoFlappingStep]_vars

(* The tunables stay within their limits through every history of pressure *)
(* and workload.                                                           *)
WithinLimits == \A t \in Tunables : settings[t] \in Lowest[t]..Highest[t]

(* The gate of the queue and the store's level follow the pressure, also   *)
(* for a queue created or replaced while the listener was on its way.      *)
GateMatches ==
  listener = None => level = state /\ (queue.serial # 0 => queue.held = Holds(state))

(* "0 = adaptive memory-booster control, 1-64 = fixed": with an override,  *)
(* the queue works with that many workers.                                 *)
(* The code does otherwise: TLC refutes this property (README, section 6). *)
OverrideHeld == Override > 0 /\ queue.serial # 0 => queue.workers = Override
=============================================================================
