------------------------------ MODULE StartFlow ------------------------------
(***************************************************************************)
(* The adaptive start flow (engine/app/discoveryservice.go) and the race   *)
(* it may run (engine/connection/racing.go): detect, discover, test, rank, *)
(* connect, verify.  A racer is a temporary core of its own; Race returns  *)
(* the winner's configuration and the manager then connects it.            *)
(*                                                                         *)
(* The session belongs to the connection manager, which other callers of   *)
(* the application use at the same time.                                   *)
(***************************************************************************)
EXTENDS Integers, Sequences, FiniteSets, SequencesExt

CONSTANTS Configs, MaxRacers        \* candidates, the racers of one race

VARIABLES stage,      \* where RunStartFlow is
          manual,     \* manualFingerprint, 0 when automatic
          trusted, allowed,   \* trusted routes, AllowUntrustedPublicRoutes
          cancelled,  \* the flow's context
          nodes, ranked,      \* discovered, and ranked
          racer,      \* each racer's core: "none", "starting", "up", "closing", "gone"
          verified,   \* the racers whose verification passed
          collected,  \* the racers whose result the race has read
          winner, left,       \* the race's winner; the candidates not tried yet
          dialed, session,    \* the Connect calls of the flow; the manager's session
          result

race == <<racer, verified, collected, winner>>
vars == <<stage, manual, trusted, allowed, cancelled, nodes, ranked, race, left,
          dialed, session, result>>

NoResult == [connected |-> 0, verified |-> FALSE, end |-> "none"]

(* RunStartFlow, which refuses while a flow is running; one flow is        *)
(* followed.                                                               *)
Run ==
  /\ stage = "idle" /\ result = NoResult
  /\ \E m \in Configs \cup {0} : manual' = m
  /\ stage' = "detecting" /\ cancelled' = FALSE
  /\ nodes' = {} /\ ranked' = <<>> /\ left' = <<>> /\ dialed' = {} /\ result' = NoResult
  /\ racer' = [c \in Configs |-> "none"] /\ verified' = {} /\ collected' = {} /\ winner' = 0
  /\ UNCHANGED <<trusted, allowed, session>>

(* finishFlow and the deferred reset *)
Finish(end, connected) ==
  stage' = "idle" /\ result' = [result EXCEPT !.end = end, !.connected = connected]

(* Environment and Discover: the pool, whose fresh nodes are persisted. *)
Discover ==
  /\ stage = "detecting"
  /\ \E pool \in SUBSET Configs :
       /\ nodes' = pool
       /\ IF pool = {} THEN Finish("no_usable_candidates", 0)
          ELSE stage' = "testing" /\ UNCHANGED result
  /\ UNCHANGED <<manual, trusted, allowed, cancelled, ranked, race, left, dialed, session>>

(* testTopCandidates and rankCandidates: the connectable nodes, in some    *)
(* order.                                                                  *)
Rank ==
  /\ stage = "testing"
  /\ \E usable \in SUBSET nodes : \E order \in SetToSeqs(usable) :
       /\ ranked' = order
       /\ IF usable = {} THEN Finish("no_usable_candidates", 0)
          ELSE stage' = "selecting" /\ UNCHANGED result
  /\ UNCHANGED <<manual, trusted, allowed, cancelled, nodes, race, left, dialed, session>>

(* A mutation of Selectable: the policy is not asked for. *)
SelectableAny(order) == order

(* The route-trust policy of an automatic selection. *)
Selectable(order) ==
  IF manual = 0 /\ ~allowed THEN SelectSeq(order, LAMBDA c : c \in trusted) ELSE order

(* Selection: a manual candidate is looked up among the ranked ones and    *)
(* in the store and goes straight to verification; connectBest races the   *)
(* first ones when racing is enabled, or tries them in order.              *)
Select ==
  /\ stage = "selecting"
  /\ LET order == Selectable(ranked) IN
     IF manual # 0
     THEN /\ \E stored \in BOOLEAN :
               IF manual \in Range(ranked) \/ stored
               THEN stage' = "verifying" /\ result' = [result EXCEPT !.connected = manual]
               ELSE Finish("failed", 0)
          /\ UNCHANGED <<ranked, race, left>>
     ELSE IF order = <<>>
     THEN Finish("no_usable_candidates", 0) /\ UNCHANGED <<ranked, race, left>>
     ELSE /\ ranked' = order /\ left' = order
          /\ \E racing \in BOOLEAN :
               IF racing /\ Len(order) >= 2
               THEN /\ stage' = "racing"
                    /\ racer' = [c \in Configs |->
                         IF \E i \in 1..Len(order) : i <= MaxRacers /\ order[i] = c
                         THEN "starting" ELSE "none"]
               ELSE stage' = "connecting" /\ UNCHANGED racer
          /\ UNCHANGED <<verified, collected, winner, result>>
  /\ UNCHANGED <<manual, trusted, allowed, cancelled, nodes, dialed, session>>

(***************************************************************************)
(* Race                                                                    *)
(***************************************************************************)
Racers == {c \in Configs : racer[c] # "none"}
RaceCancelled == cancelled \/ winner # 0 \/ stage # "racing"

(* raceOne: select, validate, start, wait for readiness.  A failure before *)
(* the start leaves no core behind; a cancelled context is a failure.      *)
RacerStarts(c) ==
  /\ racer[c] = "starting"
  /\ \E to \in {"closing", "gone"} \cup {u \in {"up"} : ~RaceCancelled} :
       racer' = [racer EXCEPT ![c] = to]
  /\ UNCHANGED <<stage, manual, trusted, allowed, cancelled, nodes, ranked, verified,
                 collected, winner, left, dialed, session, result>>

(* VerifyTunnel: a probe that has its answer when the race is cancelled    *)
(* may still pass.                                                         *)
RacerVerifies(c) ==
  /\ racer[c] = "up"
  /\ racer' = [racer EXCEPT ![c] = "closing"]
  /\ \E ok \in BOOLEAN : verified' = IF ok THEN verified \cup {c} ELSE verified
  /\ UNCHANGED <<stage, manual, trusted, allowed, cancelled, nodes, ranked,
                 collected, winner, left, dialed, session, result>>

(* The deferred Close, after which the result is sent (the channel has     *)
(* room for every racer).                                                  *)
RacerCloses(c) ==
  /\ racer[c] = "closing"
  /\ racer' = [racer EXCEPT ![c] = "gone"]
  /\ UNCHANGED <<stage, manual, trusted, allowed, cancelled, nodes, ranked, verified,
                 collected, winner, left, dialed, session, result>>

(* A mutation of RaceOver: it returns as soon as it has a winner. *)
RaceOverAtWinner == winner # 0 \/ collected = Racers

(* Race reads one result for each racer. *)
RaceOver == collected = Racers

Collect(c) ==
  /\ stage = "racing" /\ ~RaceOver
  /\ racer[c] = "gone" /\ c \notin collected
  /\ collected' = collected \cup {c}
  /\ winner' = IF winner = 0 /\ c \in verified THEN c ELSE winner
  /\ UNCHANGED <<stage, manual, trusted, allowed, cancelled, nodes, ranked, racer, verified,
                 left, dialed, session, result>>

(* The race is over: the winner is connected first.  A cancelled race      *)
(* returns without waiting for its racers, and nothing is connected.       *)
RaceEnds ==
  /\ stage = "racing" /\ (RaceOver \/ cancelled)
  /\ stage' = "connecting"
  /\ left' = IF winner # 0 /\ ~cancelled THEN <<winner>> \o ranked ELSE ranked
  /\ UNCHANGED <<manual, trusted, allowed, cancelled, nodes, ranked, race, dialed, session,
                 result>>

(***************************************************************************)
(* Connect and verify                                                      *)
(***************************************************************************)

(* Connect of the next candidate: the manager tears its session down and   *)
(* brings the new one up, or fails.                                        *)
Connect ==
  /\ stage = "connecting"
  /\ IF left = <<>> \/ cancelled
     THEN Finish("failed", 0) /\ UNCHANGED <<left, dialed, session>>
     ELSE /\ dialed' = dialed \cup {Head(left)} /\ left' = Tail(left)
          /\ \E up \in BOOLEAN :
               IF up
               THEN /\ session' = Head(left) /\ stage' = "verifying"
                    /\ result' = [result EXCEPT !.connected = Head(left)]
               ELSE session' = 0 /\ UNCHANGED <<stage, result>>
  /\ UNCHANGED <<manual, trusted, allowed, cancelled, nodes, ranked, race>>

(* VerifyConnected asks the manager's session, whichever it is. *)
Verify ==
  /\ stage = "verifying"
  /\ \E ok \in IF session = 0 \/ cancelled THEN {FALSE} ELSE BOOLEAN :
       /\ stage' = "idle"
       /\ result' = [result EXCEPT !.verified = ok, !.end = IF ok THEN "connected" ELSE "failed"]
  /\ UNCHANGED <<manual, trusted, allowed, cancelled, nodes, ranked, race, left, dialed,
                 session>>

(* CancelStartFlow *)
Cancel ==
  /\ stage # "idle" /\ ~cancelled /\ cancelled' = TRUE
  /\ UNCHANGED <<stage, manual, trusted, allowed, nodes, ranked, race, left, dialed, session,
                 result>>

(* Another caller of the manager connects or disconnects. *)
Others ==
  /\ \E s \in Configs \cup {0} : session' = s
  /\ UNCHANGED <<stage, manual, trusted, allowed, cancelled, nodes, ranked, race, left, dialed,
                 result>>

Init ==
  /\ stage = "idle" /\ manual = 0 /\ trusted \in SUBSET Configs /\ allowed \in BOOLEAN
  /\ cancelled = FALSE /\ nodes = {} /\ ranked = <<>> /\ left = <<>>
  /\ racer = [c \in Configs |-> "none"] /\ verified = {} /\ collected = {} /\ winner = 0
  /\ dialed = {} /\ session = 0 /\ result = NoResult

Flow == Discover \/ Rank \/ Select \/ RaceEnds \/ Connect \/ Verify \/ \E c \in Configs : Collect(c)

Core(c) == RacerStarts(c) \/ RacerVerifies(c) \/ RacerCloses(c)

Next == Run \/ Cancel \/ Others \/ Flow \/ \E c \in Configs : Core(c)

(* The flow and the racers are goroutines, and each of their calls returns *)
(* within a timeout.                                                       *)
Fairness == WF_vars(Flow) /\ \A c \in Configs : WF_vars(Core(c))

(***************************************************************************)
(* Properties                                                              *)
(***************************************************************************)
TypeOK ==
  /\ stage \in {"idle", "detecting", "testing", "selecting", "racing", "connecting", "verifying"}
  /\ nodes \subseteq Configs /\ Range(ranked) \subseteq Configs /\ winner \in Configs \cup {0}

(* Automatic selection restricted to trusted routes neither races nor      *)
(* connects a route that is not trusted.                                   *)
TrustKept == manual = 0 /\ ~allowed => Racers \cup dialed \subseteq trusted

(* The manager connects the winner only when the race's own cores are      *)
(* gone, unless the flow was cancelled, and a winner was verified.         *)
RaceSettled ==
  /\ dialed # {} /\ ~cancelled => \A c \in Configs : racer[c] \in {"none", "gone"}
  /\ winner # 0 => winner \in verified

(* A flow ends, and every core of a race is closed, also the ones a        *)
(* cancelled race did not wait for.                                        *)
Due(i) == \/ i = 1 /\ stage # "idle"
          \/ i = 2 /\ \E c \in Configs : racer[c] \notin {"none", "gone"}
Met(i) == \/ i = 1 /\ stage = "idle"
          \/ i = 2 /\ \A c \in Configs : racer[c] \in {"none", "gone"}
FlowEnds == \A i \in 1..2 : Due(i) ~> Met(i)

(* A manual selection connects exactly that candidate. *)
(* The code does otherwise: TLC refutes this property (README, section 6). *)
ManualConnects == manual # 0 /\ result.connected = manual => manual \in dialed
=============================================================================
