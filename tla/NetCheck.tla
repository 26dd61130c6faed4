------------------------------- MODULE NetCheck -------------------------------
(***************************************************************************)
(* The connectivity check (netcheck.go, stages.go), the environment        *)
(* analysis (environment.go) and the network identity (identity.go).       *)
(*                                                                         *)
(* Each starts its probes on goroutines of their own, waits for all of     *)
(* them and derives a verdict.  The check derives two at once, the         *)
(* seven-state classification and the stage ladder that explains it; the   *)
(* analysis remembers timeouts from one analysis to the next.              *)
(***************************************************************************)
EXTENDS Naturals, Sequences, FiniteSets

CONSTANTS TimeoutMemory,   \* timeouts that make SignalRepeatedTimeout
          MaxAnalyses      \* how many analyses a behaviour makes

VARIABLES task,       \* what runs: "idle", "check", "analyze", "done"
          probe,      \* answers of the running task's probes
          report,     \* the check's state and first failed stage
          timeouts,   \* EnvironmentAnalyzer.timeouts
          env,        \* the last analysis: signals, restricted, advised
          streak,     \* how many of the latest analyses in a row saw a timeout
          analyses,
          identity    \* the addresses the identity report holds

vars == <<task, probe, report, timeouts, env, streak, analyses, identity>>

CheckProbes    == {"dns", "tcp", "https1", "https2", "proxy"}
AnalyzeProbes  == {"https1", "https2", "portal", "dns"}

NoReport == [state |-> "none", failed |-> "none", captive |-> "none"]
NoEnv    == [signals |-> {}, restricted |-> FALSE, advised |-> FALSE]
NoIdentity == [direct |-> "none", tunnel |-> "none", match |-> FALSE, seen |-> "none"]

Pending == {p \in DOMAIN probe : probe[p] = "pending"}

Up(names) == \E p \in names \cap DOMAIN probe : probe[p] \in {"ok", "slow"}

(* Every HTTPS answer that came was slow: bestLatency is above the         *)
(* threshold.                                                              *)
OnlySlow == {p \in {"https1", "https2"} : probe[p] = "ok"} = {}

(***************************************************************************)
(* Checker.Run                                                             *)
(***************************************************************************)

(* probeLocalLinks runs first; the proxy probe only with a proxy address.  *)
CheckBegins ==
  /\ task = "idle"
  /\ \E withProxy, link \in BOOLEAN :
       probe' = [p \in (CheckProbes \ (IF withProxy THEN {} ELSE {"proxy"})) \cup {"link"} |->
                   IF p # "link" THEN "pending" ELSE IF link THEN "ok" ELSE "failed"]
  /\ task' = "check"
  /\ UNCHANGED <<report, timeouts, env, streak, analyses, identity>>

(* probeDNS *)
DNSAnswers == {"ok", "failed"}

(* probeTCP *)
TCPAnswers == {"ok", "failed"}

(* probeHTTPS: any code from 200 to 399 is a success. *)
HTTPSAnswers == {"ok", "slow", "failed"}

(* probeThroughProxy: the first URL that answers decides. *)
ProxyAnswers == {"ok", "failed"}

CheckAnswers(p) ==
  CASE p = "dns"   -> DNSAnswers
    [] p = "tcp"   -> TCPAnswers
    [] p = "proxy" -> ProxyAnswers
    [] OTHER       -> HTTPSAnswers

(* A probe's goroutine appends its row under the lock. *)
ProbeEnds ==
  /\ task = "check"
  /\ \E p \in Pending : \E a \in CheckAnswers(p) : probe' = [probe EXCEPT ![p] = a]
  /\ UNCHANGED <<task, report, timeouts, env, streak, analyses, identity>>

(* classify *)
Classify ==
  LET https == Up({"https1", "https2"})  tcp == Up({"tcp"})  dns == Up({"dns"})
      proxied == "proxy" \in DOMAIN probe
  IN CASE proxied /\ Up({"proxy"}) /\ ~https /\ ~tcp -> "proxy_only"
       [] proxied /\ ~Up({"proxy"}) -> IF tcp \/ https THEN "core_no_internet" ELSE "no_internet"
       [] ~Up({"link"}) /\ ~tcp     -> "no_internet"
       [] ~tcp /\ ~https            -> "no_internet"
       [] ~dns /\ ~https            -> "dns_failure"
       [] dns /\ tcp /\ ~https      -> "https_failure"
       [] ~dns                      -> "dns_failure"
       [] OnlySlow                  -> "high_latency"
       [] OTHER                     -> "ok"

StageOrder == <<"local_link", "local_ip", "dns", "tcp", "tls", "https",
                "captive_portal", "direct_internet", "tunnel_internet">>

(* buildStages: the stages that failed, from the probes, the local address *)
(* (ip), the TLS handshake (tls) and the portal probe.                     *)
FailedStages(ip, tls, captive) ==
  LET https == Up({"https1", "https2"})
  IN {s \in {"local_link"} : ~Up({"link"})} \cup {s \in {"local_ip"} : ~ip}
       \cup {s \in {"dns"} : ~Up({"dns"})} \cup {s \in {"tcp"} : ~Up({"tcp"})}
       \cup {s \in {"tls"} : ~tls} \cup {s \in {"https"} : ~https}
       \cup {s \in {"captive_portal"} : https /\ captive = "detected"}
       \cup {s \in {"direct_internet"} : ~https \/ captive = "detected"}
       \cup {s \in {"tunnel_internet"} : "proxy" \in DOMAIN probe /\ ~Up({"proxy"})}

(* FirstFailedStage walks the ladder in order. *)
FirstFailedStage(failed) ==
  LET hits == SelectSeq(StageOrder, LAMBDA s : s \in failed)
  IN IF hits = <<>> THEN "none" ELSE hits[1]

(* probeLocalAddress and its IPv6 twin: a route to some anchor. *)
LocalAddress == BOOLEAN

(* probeTLSStage *)
TLSHandshake == BOOLEAN

(* probeCaptiveStage, asked only when HTTPS works. *)
Captive == IF Up({"https1", "https2"}) THEN {"clean", "detected", "error"} ELSE {"unchecked"}

CheckEnds ==
  /\ task = "check" /\ Pending = {}
  /\ \E ip \in LocalAddress, tls \in TLSHandshake, captive \in Captive :
       report' = [state |-> Classify, captive |-> captive,
                  failed |-> FirstFailedStage(FailedStages(ip, tls, captive))]
  /\ task' = "done" /\ probe' = <<>>
  /\ UNCHANGED <<timeouts, env, streak, analyses, identity>>

(***************************************************************************)
(* EnvironmentAnalyzer.Analyze                                             *)
(***************************************************************************)
AnalyzeBegins ==
  /\ task = "idle" /\ analyses < MaxAnalyses
  /\ probe' = [p \in AnalyzeProbes |-> "pending"]
  /\ analyses' = analyses + 1
  /\ task' = "analyze" /\ env' = NoEnv
  /\ UNCHANGED <<report, timeouts, streak, identity>>

(* probeHTTPS and probeCaptivePortal: a portal probe that errs is not a    *)
(* portal.                                                                 *)
AnalyzeAnswers(p) ==
  CASE p = "portal" -> {"ok", "hijacked"}
    [] p = "dns"    -> {"ok", "failed"}
    [] OTHER        -> {"ok", "slow", "failed", "tls", "timeout"}

AnalyzeProbe ==
  /\ task = "analyze"
  /\ \E p \in Pending : \E a \in AnalyzeAnswers(p) : probe' = [probe EXCEPT ![p] = a]
  /\ UNCHANGED <<task, report, timeouts, env, streak, analyses, identity>>

TimedOut == \E p \in {"https1", "https2"} : probe[p] = "timeout"

(* A mutation of Remembered: a success does not reset. *)
RememberedForever == IF TimedOut THEN timeouts + 1 ELSE timeouts

(* The timeout memory: a timeout adds, a success without one resets, and   *)
(* an analysis with neither keeps what was there.                          *)
Remembered ==
  IF TimedOut THEN timeouts + 1
  ELSE IF Up({"https1", "https2"}) THEN 0 ELSE timeouts

(* classify, with the signals the probes raised themselves. *)
Signals(repeated, proxyEnv) ==
  LET good == {p \in {"https1", "https2"} : Up({p})}
      tls  == {p \in {"https1", "https2"} : probe[p] = "tls"}
      dns  == Up({"dns"})
  IN {s \in {"captive_portal"} : probe["portal"] = "hijacked"}
       \cup {s \in {"dns_failure"} : ~dns}
       \cup {s \in {"direct_ok"} : Cardinality(good) = 2}
       \cup {s \in {"tls_failure"} : Cardinality(tls) >= 2}
       \cup {s \in {"http_failure"} : good = {} /\ Cardinality(tls) < 2 /\ dns}
       \cup {s \in {"repeated_timeout"} : repeated}
       \cup {s \in {"unstable"} : Cardinality(good) = 2 /\ Cardinality({probe[p] : p \in good}) = 2}
       \cup {s \in {"proxy_environment"} : proxyEnv}
       \cup {s \in {"restricted_access"} : good = {} /\ (dns \/ probe["portal"] = "hijacked")}

AnalyzeEnds ==
  /\ task = "analyze" /\ Pending = {}
  /\ timeouts' = Remembered
  /\ streak' = IF TimedOut THEN streak + 1 ELSE 0
  /\ \E proxyEnv \in BOOLEAN :
       LET repeated   == Remembered >= TimeoutMemory
           restricted == ~Up({"https1", "https2"}) \/ repeated
           portal     == probe["portal"] = "hijacked"
       IN env' = [signals |-> Signals(repeated, proxyEnv), restricted |-> restricted,
                  advised |-> restricted /\ ~portal]
  /\ task' = IF analyses = MaxAnalyses THEN "done" ELSE "idle"
  /\ probe' = <<>>
  /\ UNCHANGED <<report, analyses, identity>>

(***************************************************************************)
(* RunNetworkIdentity: the lookup on the request's path, and on the        *)
(* tunneled path a second, direct one.                                     *)
(***************************************************************************)
IdentityRuns ==
  /\ task = "idle"
  /\ \E tunneled \in BOOLEAN, exit, direct \in {"none", "home", "exit"} :
       /\ (exit # "none") => (exit = IF tunneled THEN "exit" ELSE "home")
       /\ direct # "exit" /\ (~tunneled => direct = "none")
       /\ identity' = [direct |-> IF tunneled /\ direct # "none" THEN direct ELSE exit,
                       tunnel |-> IF tunneled THEN exit ELSE "none",
                       match  |-> tunneled /\ direct # "none" /\ direct = exit,
                       seen   |-> IF tunneled THEN direct ELSE exit]
  /\ task' = "done"
  /\ UNCHANGED <<probe, report, timeouts, env, streak, analyses>>

Init ==
  /\ task = "idle" /\ probe = <<>> /\ report = NoReport
  /\ timeouts = 0 /\ env = NoEnv /\ streak = 0 /\ analyses = 0 /\ identity = NoIdentity

Next ==
  \/ CheckBegins \/ ProbeEnds \/ CheckEnds
  \/ AnalyzeBegins \/ AnalyzeProbe \/ AnalyzeEnds
  \/ IdentityRuns

Spec == Init /\ [][Next]_vars /\ WF_vars(Next)

(***************************************************************************)
(* Properties                                                              *)
(***************************************************************************)
TypeOK ==
  /\ task \in {"idle", "check", "analyze", "done"}
  /\ report.failed \in {"none"} \cup {StageOrder[i] : i \in 1..Len(StageOrder)}
  /\ timeouts \in 0..MaxAnalyses /\ streak \in 0..MaxAnalyses /\ analyses \in 0..MaxAnalyses

(* The ladder explains the verdict: no failed stage means a working        *)
(* connection, and a verdict that blames DNS or HTTPS has that stage, or   *)
(* an earlier one, as its first failure.                                   *)
LadderExplains ==
  LET at(stage) == CHOOSE i \in 1..Len(StageOrder) : StageOrder[i] = stage
  IN report.state # "none" =>
       /\ report.failed = "none" => report.state \in {"ok", "high_latency"}
       /\ report.state = "dns_failure" => report.failed # "none" /\ at(report.failed) <= at("dns")
       /\ report.state = "https_failure" => report.failed # "none" /\ at(report.failed) <= at("https")
       /\ report.state = "proxy_only" => report.failed \notin {"none", "tunnel_internet"}

(* Deep discovery is never advised behind a portal, and a network that     *)
(* answers everything directly is not called restricted, whatever earlier  *)
(* analyses left in the timeout memory.                                    *)
AdviceSound ==
  /\ env.advised => "captive_portal" \notin env.signals
  /\ "direct_ok" \in env.signals => ~env.restricted

(* The signal means what its comment says: consecutive analyses timed out. *)
(* The code does otherwise: TLC refutes this property (README, section 6). *)
RepeatedConsecutive == "repeated_timeout" \in env.signals => streak >= TimeoutMemory

(* The direct address is the one seen on the direct path. *)
(* The code does otherwise: TLC refutes this property (README, section 6). *)
DirectAddressTrue == identity.direct = identity.seen
=============================================================================
