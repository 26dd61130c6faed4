------------------------------- MODULE Verify -------------------------------
(***************************************************************************)
(* The verification of a tunnel (engine/connection/verify.go): every       *)
(* target is probed at once, the ones that failed for a transient reason   *)
(* are probed once more, and a quorum of answers decides, all under one    *)
(* deadline.                                                               *)
(***************************************************************************)
EXTENDS Integers, FiniteSets

CONSTANTS Targets, Requested        \* the targets, VerifyOptions.Quorum

VARIABLES round,      \* "first", "backoff", "retry", "done"
          probing,    \* the targets whose probe of this round is running
          last,       \* each target's last result
          stands,     \* the targets whose first result is not a transient failure
          attempts, expired, verdict

vars == <<round, probing, last, stands, attempts, expired, verdict>>

Transient == {"timeout", "reset", "proxy_handshake", "http_5xx"}
Lasting   == {"core", "refused", "tls", "http_4xx"}
Classes   == {"ok"} \cup Transient \cup Lasting

Required ==
  IF Requested > 0
  THEN IF Requested > Cardinality(Targets) THEN Cardinality(Targets) ELSE Requested
  ELSE (Cardinality(Targets) + 1) \div 2

(* A mutation of Succeeded: the targets that were probed. *)
SucceededProbed(results) == {t \in Targets : results[t] # "none"}

(* tally *)
Succeeded(results) == {t \in Targets : results[t] = "ok"}

(* A mutation of Retryable: every failure. *)
RetryableAll(results) == {t \in Targets : results[t] # "ok"}

(* retryableTargets, isTransient *)
Retryable(results) == {t \in Targets : results[t] \in Transient}

(* aggregateFailureClass: the most severe class, or a timeout when the     *)
(* deadline passed.                                                        *)
Severity == <<"core", "refused", "tls", "http_4xx", "http_5xx", "proxy_handshake",
              "reset", "timeout">>

Worst(results) ==
  LET failing == {i \in DOMAIN Severity : \E t \in Targets : results[t] = Severity[i]} IN
  IF failing = {} THEN "reset" ELSE Severity[CHOOSE i \in failing : \A j \in failing : i <= j]

(* The probe of a target ends (probeTarget, ClassifyVerifyFailure): under  *)
(* a deadline that passed only with a timeout, or without being sent.      *)
Probe(t) ==
  /\ t \in probing
  /\ \E class \in IF expired THEN {"timeout", "core"} ELSE Classes :
       /\ last' = [last EXCEPT ![t] = class]
       /\ stands' = IF round = "first" /\ class \notin Transient
                    THEN stands \cup {t} ELSE stands
  /\ attempts' = [attempts EXCEPT ![t] = @ + 1]
  /\ probing' = probing \ {t}
  /\ UNCHANGED <<round, expired, verdict>>

Decided == IF ~expired /\ Cardinality(Succeeded(last)) >= Required THEN "ok"
           ELSE IF expired THEN "timeout" ELSE Worst(last)

(* VerifyTunnel after the first round.  A quorum counts even when the      *)
(* deadline has passed by then.                                            *)
AfterFirst ==
  /\ round = "first" /\ probing = {}
  /\ IF Cardinality(Succeeded(last)) >= Required
     THEN verdict' = "ok" /\ round' = "done"
     ELSE IF Retryable(last) # {} /\ ~expired
     THEN round' = "backoff" /\ UNCHANGED verdict
     ELSE verdict' = Decided /\ round' = "done"
  /\ UNCHANGED <<probing, last, stands, attempts, expired>>

(* The wait before the retry, which the deadline cuts short. *)
Backoff ==
  /\ round = "backoff"
  /\ IF expired
     THEN verdict' = Decided /\ round' = "done" /\ UNCHANGED probing
     ELSE round' = "retry" /\ probing' = Retryable(last) /\ UNCHANGED verdict
  /\ UNCHANGED <<last, stands, attempts, expired>>

AfterRetry ==
  /\ round = "retry" /\ probing = {}
  /\ verdict' = Decided /\ round' = "done"
  /\ UNCHANGED <<probing, last, stands, attempts, expired>>

(* The deadline passes or the caller cancels. *)
Expire ==
  /\ ~expired /\ round # "done" /\ expired' = TRUE
  /\ UNCHANGED <<round, probing, last, stands, attempts, verdict>>

Init ==
  /\ round = "first" /\ probing = Targets /\ expired = FALSE /\ verdict = "none"
  /\ last = [t \in Targets |-> "none"] /\ stands = {}
  /\ attempts = [t \in Targets |-> 0]

Step == (\E t \in Targets : Probe(t)) \/ AfterFirst \/ Backoff \/ AfterRetry

Next == Step \/ Expire

Fairness == WF_vars(Step)

(***************************************************************************)
(* Properties                                                              *)
(***************************************************************************)
TypeOK ==
  /\ round \in {"first", "backoff", "retry", "done"} /\ probing \subseteq Targets
  /\ \A t \in Targets : last[t] \in Classes \cup {"none"}

(* A tunnel is verified only by answers of a quorum of different targets,  *)
(* and the class of a failure is one that some target met, or a timeout.   *)
QuorumBacked ==
  round = "done" =>
    /\ verdict = "ok" => Cardinality({t \in Targets : last[t] = "ok"}) >= Required
    /\ verdict # "ok" => verdict = "timeout" \/ \E t \in Targets : last[t] = verdict

(* A failure that is not transient stands: its target is probed once, and  *)
(* an answer of the first round is not asked for again.                    *)
LastingStands ==
  \A t \in Targets : attempts[t] <= IF t \in stands THEN 1 ELSE 2

(* Verification ends. *)
Due == round # "done"
Met == round = "done"
VerifyEnds == Due ~> Met
=============================================================================
