------------------------------ MODULE Recovery ------------------------------
(***************************************************************************)
(* Automatic recovery (engine/app/recoveryservice.go) over the fresh       *)
(* selection loop it shares with Quick Connect (engine/app/quickconnect.   *)
(* go).  A watch loop observes the manager's state; on an explicit failure *)
(* it runs a bounded number of attempts per episode and of episodes, each  *)
(* attempt being one selection loop over the candidates that no failure    *)
(* memory excludes.                                                        *)
(*                                                                         *)
(* Time is what may have passed: a back-off, a candidate's cooldown and    *)
(* the idle reset end at any moment after they began.                      *)
(***************************************************************************)
EXTENDS Integers, FiniteSets

CONSTANTS Candidates, Trusted,      \* stored candidates, the trusted routes among them
          MaxAttempts, MaxEpisodes

VARIABLES enabled,                  \* Enabled: the user did not opt out
          watching, cancelled,      \* RecoveryService.watching, its context
          loop,       \* the watch loop: "wait", "attempt", "record", "exited"
          stop,       \* "none", "joining", "returned"
          process,    \* "up"; "dead" after a fatal error of the runtime
          conn,       \* the manager's state: "disconnected", "verified", "failed"
          episode, episodes, ended,   \* the episode, the exhausted ones, lastEpisode is set
          failures, cooled,           \* the failure memories of recovery and Quick Connect
          excluded, left, outcome,   \* the selection loop
          spent, rearmed              \* attempts since the budget was renewed; a verified
                                      \* session has been observed since an exhausted episode

bookkeeping == <<episode, episodes, ended, spent, rearmed>>
selection == <<excluded, left, outcome>>
memory == <<failures, cooled>>
lifecycle == <<enabled, watching, cancelled, stop, process>>
vars == <<lifecycle, loop, conn, bookkeeping, memory, selection>>

NoEpisode == [number |-> 0, attempts |-> 0, waiting |-> FALSE]

(***************************************************************************)
(* The watch loop                                                          *)
(***************************************************************************)

(* A mutation of Exhausted: an exhausted episode is not counted. *)
ExhaustedForgotten == episodes

(* r.episodes = r.episode.number *)
Exhausted == episode.number

(* decideIn does nothing when the user opted out, or once the service's    *)
(* context is done.                                                        *)
Decides == loop = "wait" /\ enabled /\ ~cancelled /\ process = "up"

(* A healthy or idle manager ends the episode. *)
Clear ==
  /\ Decides /\ conn \in {"disconnected", "verified"}
  /\ episode # NoEpisode \/ (conn = "verified" /\ ~rearmed)
  /\ episode' = NoEpisode
  /\ rearmed' = (rearmed \/ conn = "verified")
  /\ spent' = 0
  /\ UNCHANGED <<lifecycle, loop, conn, episodes, ended, memory, selection>>

Opened == IF episode = NoEpisode THEN [NoEpisode EXCEPT !.number = episodes + 1] ELSE episode

MayOpen == episode # NoEpisode \/ episodes < MaxEpisodes

(* A mutation of Eligible: the exclusions of the caller are not applied. *)
EligibleAny(exclude) == Trusted \ cooled

(* quickConnectLoop: the shortlist, fixed when the loop begins, by         *)
(* filterQuickConnectCooldowns and the route-trust policy.                 *)
Eligible(exclude) == Trusted \ (exclude \cup cooled)

(* An attempt begins: the failure memory becomes the exclusions.  The      *)
(* failed session's candidate is among them.                               *)
Attempt ==
  /\ Decides /\ conn = "failed" /\ MayOpen
  /\ ~Opened.waiting /\ Opened.attempts < MaxAttempts
  /\ \E c \in Candidates \cup {0} :
       LET f == failures \cup ({c} \ {0}) IN
       failures' = f /\ excluded' = f /\ left' = Eligible(f)
  /\ episode' = [Opened EXCEPT !.attempts = @ + 1] /\ spent' = spent + 1
  /\ loop' = "attempt" /\ outcome' = "none"
  /\ UNCHANGED <<lifecycle, conn, episodes, ended, rearmed, cooled>>

(* The attempts of the episode are used up. *)
GiveUp ==
  /\ Decides /\ conn = "failed"
  /\ episode # NoEpisode /\ ~episode.waiting /\ episode.attempts >= MaxAttempts
  /\ episodes' = Exhausted /\ ended' = TRUE /\ episode' = NoEpisode /\ rearmed' = FALSE
  /\ UNCHANGED <<lifecycle, loop, conn, spent, memory, selection>>

(***************************************************************************)
(* quickConnectLoop                                                        *)
(***************************************************************************)

(* The loop connects the next ranked candidate.                            *)
Dial ==
  /\ loop = "attempt" /\ outcome = "none" /\ ~cancelled
  /\ \E c \in left :
       /\ left' = left \ {c}
       /\ \E ok \in BOOLEAN :
            /\ conn' = IF ok THEN "verified" ELSE "failed"
            /\ outcome' = IF ok THEN "connected" ELSE outcome
            /\ IF ok THEN UNCHANGED memory
               ELSE failures' = failures \cup {c} /\ cooled' = cooled \cup {c}
  /\ UNCHANGED <<lifecycle, loop, bookkeeping, excluded>>

(* The loop is exhausted, or its context is done. *)
LoopEnds ==
  /\ loop = "attempt"
  /\ outcome = "connected" \/ cancelled \/ left = {}
  /\ loop' = "record"
  /\ outcome' = IF outcome = "connected" THEN outcome ELSE "failed"
  /\ UNCHANGED <<lifecycle, conn, bookkeeping, memory, excluded, left>>

(* After the attempt, with r.mu locked and its unlock deferred.  When the  *)
(* context is done the mutex is unlocked there and once more by the        *)
(* deferred call, which ends the process.                                  *)
Record ==
  /\ loop = "record" /\ process = "up"
  /\ loop' = "wait" /\ outcome' = "none" /\ excluded' = {} /\ left' = {}
  /\ IF cancelled THEN process' = "dead" /\ UNCHANGED bookkeeping
     ELSE /\ UNCHANGED <<process, ended, rearmed>>
          /\ IF outcome = "connected"
             THEN episode' = NoEpisode /\ episodes' = 0 /\ spent' = 0
             ELSE episode' = [episode EXCEPT !.waiting = TRUE] /\ UNCHANGED <<episodes, spent>>
  /\ UNCHANGED <<enabled, watching, cancelled, stop, conn, memory>>

(***************************************************************************)
(* Stop                                                                    *)
(***************************************************************************)
Stop ==
  /\ stop = "none" /\ watching
  /\ watching' = FALSE /\ cancelled' = TRUE /\ stop' = "joining"
  /\ UNCHANGED <<enabled, process, loop, conn, bookkeeping, memory, selection>>

LoopExits ==
  /\ loop = "wait" /\ cancelled /\ process = "up"
  /\ loop' = "exited"
  /\ UNCHANGED <<lifecycle, conn, bookkeeping, memory, selection>>

StopJoined ==
  /\ stop = "joining" /\ loop = "exited"
  /\ stop' = "returned"
  /\ UNCHANGED <<enabled, watching, cancelled, process, loop, conn, bookkeeping, memory, selection>>

(***************************************************************************)
(* Time and the user                                                       *)
(***************************************************************************)

(* The back-off of an attempt passes. *)
Elapses ==
  /\ loop = "wait" /\ episode.waiting
  /\ episode' = [episode EXCEPT !.waiting = FALSE]
  /\ UNCHANGED <<lifecycle, loop, conn, episodes, ended, spent, rearmed, memory, selection>>

(* A candidate's cooldowns pass. *)
Decays ==
  /\ \E c \in failures \cup cooled : failures' = failures \ {c} /\ cooled' = cooled \ {c}
  /\ UNCHANGED <<lifecycle, loop, conn, bookkeeping, selection>>

(* The idle reset forgives the exhausted episodes. *)
IdleReset ==
  /\ Decides /\ ended
  /\ episodes' = 0 /\ ended' = FALSE /\ spent' = 0
  /\ UNCHANGED <<lifecycle, loop, conn, episode, rearmed, memory, selection>>

(* The setting DisableAutoRecovery changes; it is only read by decideIn. *)
OptsOut ==
  /\ loop = "wait" /\ ~cancelled /\ enabled' = ~enabled
  /\ UNCHANGED <<watching, cancelled, stop, process, loop, conn, bookkeeping, memory, selection>>

(* The session fails, or the user connects or disconnects, also while an   *)
(* attempt is running (it is not told).                                    *)
Others ==
  /\ \E s \in {"disconnected", "verified", "failed"} : conn' = s
  /\ UNCHANGED <<lifecycle, loop, bookkeeping, memory, selection>>

Init ==
  /\ enabled = TRUE /\ watching = TRUE /\ cancelled = FALSE /\ loop = "wait" /\ stop = "none" /\ process = "up"
  /\ conn = "disconnected" /\ episode = NoEpisode /\ episodes = 0 /\ ended = FALSE
  /\ failures = {} /\ cooled = {} /\ excluded = {} /\ left = {}
  /\ outcome = "none" /\ spent = 0 /\ rearmed = FALSE

Watch == Clear \/ Attempt \/ GiveUp \/ Dial \/ LoopEnds \/ Record \/ LoopExits

Next ==
  /\ process = "up"
  /\ Watch \/ Stop \/ StopJoined \/ Elapses \/ Decays \/ IdleReset \/ OptsOut \/ Others

Fairness == WF_vars(Watch) /\ WF_vars(StopJoined)

Spec == Init /\ [][Next]_vars /\ Fairness

(***************************************************************************)
(* Properties                                                              *)
(***************************************************************************)
TypeOK ==
  /\ loop \in {"wait", "attempt", "record", "exited"}
  /\ conn \in {"disconnected", "verified", "failed"} /\ process \in {"up", "dead"}
  /\ failures \cup cooled \cup excluded \cup left \subseteq Candidates

(* Without a healthy or idle session in between and before the idle reset, *)
(* recovery makes at most MaxAttempts attempts in each of MaxEpisodes      *)
(* episodes.                                                               *)
RetriesBounded == spent <= MaxAttempts * MaxEpisodes /\ episode.attempts <= MaxAttempts

(* An attempt connects no candidate that the failure memory excluded when  *)
(* it began, and none that is not trusted.                                 *)
DialsEligible ==
  loop = "attempt" => left \subseteq Trusted \ excluded

(* A failed session with budget left is attended to: an attempt begins,    *)
(* unless the state changes, the user opts out, the service stops or the   *)
(* attempts are used up.                                                   *)
Attended ==
  loop = "attempt" \/ conn # "failed" \/ ~enabled \/ cancelled \/ ~MayOpen \/ episode.waiting
Due(i) == \/ i = 1 /\ loop = "wait" /\ conn = "failed" /\ MayOpen /\ ~episode.waiting
          \/ i = 2 /\ stop = "joining"
Met(i) == \/ i = 1 /\ Attended
          \/ i = 2 /\ (stop = "returned" \/ process = "dead")
RecoveryActs == Due(1) ~> Met(1)

(* Stop cancels the lifecycle and joins it, or the process has died on the *)
(* second unlock of Record: a Stop that comes during an attempt always     *)
(* meets that one.                                                         *)
StopReturns == Due(2) ~> Met(2)

(* Recovery stays quiet only until the user connects (or the idle reset),  *)
(* as the log line of an exhausted episode says: a session that the user   *)
(* connected and that was verified leaves budget for its failure.          *)
(* The code does otherwise: TLC refutes this property (README, section 6). *)
Rearmed == rearmed => episodes < MaxEpisodes
=============================================================================
