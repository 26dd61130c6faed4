------------------------------- MODULE NetTools -------------------------------
(***************************************************************************)
(* One run of a network tool (engine/netcheck): tools.go checks the        *)
(* request, tools_impl.go, tools_path.go and quicprobe.go run the tool as  *)
(* a sequence of network steps under one context, and the result's status  *)
(* is computed from what the steps answered and from the context.          *)
(*                                                                         *)
(* A step's answer is a member of a small set: "ok", an error class, or a  *)
(* negative answer of the peer.  The context ends at any moment, because   *)
(* the caller cancels or because the tool's deadline passes; the steps     *)
(* that follow see it, unless their answer was already there.              *)
(***************************************************************************)
EXTENDS Naturals, Sequences

CONSTANTS Tools,     \* the tools a caller may ask for
          MaxHops,   \* walkTTLs' maxHops, 20 in the code
          Rungs      \* the length of runPathMTU's ladder, 5 in the code

VARIABLES req,       \* the request: tool, path, dial, target, endpoint
          ctx,       \* "live", "cancelled" (by the caller), "expired"
          phase,     \* "asked", "running", "done"
          ev,        \* the answers so far, in the order they came
          walk,      \* walkTTLs' locals
          direct,    \* a step left the machine outside the tunnel
          status     \* the result's status

vars == <<req, ctx, phase, ev, walk, direct, status>>

Targets == {"none", "public", "private", "malformed"}

Requests == [tool : Tools, path : {"direct", "tunneled"}, dial : BOOLEAN,
             target : Targets, endpoint : BOOLEAN]

NoWalk == [ttl |-> 1, probe |-> 0, hop |-> FALSE, failed |-> FALSE,
           hops |-> 0, err |-> "none", end |-> "no"]

Count(answers, set) == Len(SelectSeq(answers, LAMBDA a : a \in set))

Ended == ctx # "live"

(* The error a step meets on an ended context. *)
ContextErr == IF ctx = "live" THEN {} ELSE {ctx}

(* What a socket step can come back with: its own dial or read deadline    *)
(* shows as "expired" too, since setStatusFromError reads both as a        *)
(* timeout.                                                                *)
Answers == {"ok", "refused", "expired"} \cup ContextErr

(***************************************************************************)
(* setStatusFromError                                                      *)
(***************************************************************************)
StatusFromError(err) ==
  CASE err = "rejected"  -> "invalid_target"
    [] err = "cancelled" -> "cancelled"
    [] err = "expired"   -> "timeout"
    [] OTHER             -> "failed"

(***************************************************************************)
(* The request, before any step                                            *)
(***************************************************************************)
LocalTargetTool(tool) == tool \in {"socks5", "http_connect"}

(* toolDial and boundedHTTPClient: the caller's dialer on the tunneled     *)
(* path, the safety layer's dialer otherwise.                              *)
ThroughTunnel(r) == r.path = "tunneled" /\ r.dial

(* ValidateToolTarget: nothing to check for a tool that selects its own    *)
(* destinations or without a target; the host must be well formed, and a   *)
(* private literal is for the tools that probe a local endpoint.           *)
ValidTarget(r) ==
  \/ r.tool \in {"tunnel_diagnostics", "internet", "public_ip"}
  \/ r.target \in {"none", "public"}
  \/ r.target = "private" /\ LocalTargetTool(r.tool)

(* resolveEndpointTarget: an explicit target, or a local endpoint of the   *)
(* wanted kind.                                                            *)
HasEndpoint(r) == r.target # "none" \/ r.endpoint

(* The verdict some tools reach from the request alone, "run" otherwise.   *)
Verdict(r) ==
  CASE r.tool \in {"http_connect", "socks5"} /\ ~HasEndpoint(r)     -> "not_configured"
    [] r.tool \in {"quic", "traceroute"} /\ r.path = "tunneled"     -> "unsupported"
    [] r.tool = "tunnel_diagnostics" /\ r.path # "tunneled"         -> "not_applicable"
    [] r.tool = "tunnel_diagnostics" /\ ~r.endpoint                 -> "not_configured"
    [] OTHER                                                        -> "run"

(* Run, up to the dispatch. *)
RunBegins ==
  /\ phase = "asked"
  /\ LET early == CASE req.path = "tunneled" /\ ~req.dial
                        /\ req.tool # "tunnel_diagnostics" -> "not_configured"
                    [] ~ValidTarget(req)                   -> "invalid_target"
                    [] OTHER                               -> Verdict(req)
     IN IF early = "run" THEN phase' = "running" /\ UNCHANGED status
                         ELSE phase' = "done" /\ status' = early
  /\ UNCHANGED <<req, ctx, ev, walk, direct>>

(***************************************************************************)
(* Tools that are a chain of steps: the first failure decides.             *)
(***************************************************************************)

(* The safety dialer may find that a name resolves to private addresses    *)
(* only.                                                                   *)
Dial == Answers \cup (IF ThroughTunnel(req) THEN {} ELSE {"rejected"})

TCPSteps == <<Dial>>

TLSSteps == <<Dial, Answers>>

(* The request, redirects included, then the status code. *)
HTTPSSteps == <<Dial, {"ok", "negative"}>>

HTTPConnectSteps == <<{"ok", "rejected"}, Dial, Answers, Answers, {"ok", "negative"}>>

SOCKS5Steps == <<Answers \cup {"negative"}>>

UDPSteps == <<Answers, Answers, Answers>>

(* Resolution, the local socket, the handshake: silence and a refusal of   *)
(* the peer are told apart.                                                *)
QUICSteps == <<Answers \cup {"rejected"}, {"ok", "refused"},
               {"ok", "silence", "negative"} \cup ContextErr>>

TunnelDiagnosticsSteps == <<{"ok", "negative"}>>

Steps ==
  CASE req.tool = "tcp"                -> TCPSteps
    [] req.tool = "tls"                -> TLSSteps
    [] req.tool = "https"              -> HTTPSSteps
    [] req.tool = "http_connect"       -> HTTPConnectSteps
    [] req.tool = "socks5"             -> SOCKS5Steps
    [] req.tool = "udp"                -> UDPSteps
    [] req.tool = "quic"               -> QUICSteps
    [] req.tool = "tunnel_diagnostics" -> TunnelDiagnosticsSteps
    [] OTHER                           -> <<>>

ChainTools == {"tcp", "tls", "https", "http_connect", "socks5", "udp", "quic",
               "tunnel_diagnostics"}

AllOK == Count(ev, {"ok"}) = Len(ev)

ChainMore == Len(ev) < Len(Steps) /\ AllOK

ChainStatus ==
  IF AllOK THEN "ok"
  ELSE IF ev[Len(ev)] = "silence" THEN "unreachable" ELSE StatusFromError(ev[Len(ev)])

(***************************************************************************)
(* Tools that gather several answers                                       *)
(***************************************************************************)

(* What parseDNSResponse and addressesOf make of a datagram that arrived. *)
Replies == {"answers", "empty", "rcode", "malformed"}

(* dnsExchange: UDP first, TCP when the reply is truncated or lost; a      *)
(* failed retry keeps UDP's outcome.                                       *)
Exchange(udp, tcp) ==
  IF udp \in Replies \/ (udp = "truncated" /\ tcp \notin Replies) THEN udp
  ELSE IF tcp \in Replies THEN tcp ELSE udp

(* runOneQuery: a reply with addresses of the type is a success, any other *)
(* reply a negative answer, an error keeps its class.                      *)
Query(udp, tcp) ==
  LET x == Exchange(udp, tcp)
  IN CASE x = "answers"                            -> "ok"
       [] x \in {"expired", "cancelled", "refused"} -> x
       [] OTHER                                    -> "negative"

(* runOneDoHQuery reports a failed request as unreachable, an ended        *)
(* context included.                                                       *)
DoHAnswers == {"ok", "negative", "refused"}

(* runOneResolver: a query that starts on an ended context is a cancelled  *)
(* row; one that was under way may still be answered.                      *)
DNSQueries ==
  LET errs == {"refused", "expired"} \cup ContextErr
  IN DoHAnswers
       \cup {Query(u, t) : u \in Replies \cup {"truncated"} \cup errs, t \in Replies \cup errs}
       \cup (IF Ended THEN {"cancelled"} ELSE {})

(* The rows of a diagnosis: resolvers and record types, a bound. *)
DNSRows == 3

(* RunDNSDiagnostic: every resolver runs its record types on its own       *)
(* goroutine; the rows arrive in any order and only their numbers count.   *)
DNSMore == Len(ev) < DNSRows

(* A mutation of DNSStatus: the numbers are not compared. *)
DNSStatusAny ==
  LET good == Count(ev, {"ok"})
  IN CASE good = Len(ev) -> "ok"
       [] good = 0       -> "partial"
       [] OTHER          -> "failed"

(* dnsAggregateStatus. *)
DNSStatus ==
  LET good == Count(ev, {"ok"})
  IN CASE good > 0 /\ good = Len(ev) -> "ok"
       [] good > 0                   -> "partial"
       [] Ended                      -> "cancelled"
       [] OTHER                      -> "failed"

(* runWebSocket: one explicit target or the two curated ones. *)
WebSocketMore == ~Ended /\ Len(ev) < (IF req.target = "none" THEN 2 ELSE 1)

(* wsHandshakeOnce: only status 101 is a success. *)
WebSocketAnswers == Dial \cup {"negative"}

WebSocketStatus ==
  LET good == Count(ev, {"ok"})
  IN CASE Ended /\ good = 0 -> "cancelled"
       [] Len(ev) = 0       -> "cancelled"
       [] good = Len(ev)    -> "ok"
       [] good > 0          -> "partial"
       [] OTHER             -> "failed"

(* runPathMTU climbs the ladder; the first failure after a success ends    *)
(* it, and an ended context ends the tool before the next rung.            *)
Verified == {i \in 1..Len(ev) : ev[i] = "ok"}

MTUTopped == \E i \in Verified : i < Len(ev) /\ ev[Len(ev)] # "ok"

(* mtuProbeOnce: a padded query of the rung's size is answered or not. *)
MTUAnswers == {"ok", "refused"}

MTUMore == ~Ended /\ Len(ev) < Rungs /\ ~MTUTopped

MTUStatus ==
  CASE Ended /\ Len(ev) < Rungs /\ ~MTUTopped -> "cancelled"
    [] Verified = {}                          -> "failed"
    [] OTHER                                  -> "ok"

(* runCaptivePortal asks until a target answers like a portal; a target    *)
(* that does not answer is skipped.                                        *)
CaptiveAt == IF req.target = "none" THEN 2 ELSE 1

CaptiveMore == ~Ended /\ Len(ev) < CaptiveAt /\ Count(ev, {"negative"}) = 0

(* A redirect, a body that looks like a page or any code but 200 and 204   *)
(* is a portal ("negative").                                               *)
CaptiveAnswers == Dial \cup {"negative"}

CaptiveStatus ==
  CASE Count(ev, {"negative"}) > 0    -> "failed"
    [] Ended /\ Len(ev) < CaptiveAt   -> "cancelled"
    [] OTHER                          -> "ok"

(* runPublicIP: the direct lookup, then the tunnel's when there is one;    *)
(* each tries the endpoints until one answers.                             *)
IdentityMore == Len(ev) < (IF ThroughTunnel(req) THEN 2 ELSE 1)

(* discoverExitIP: an address, or none from any endpoint. *)
IdentityAnswers == {"ok", "refused"}

IdentityStatus ==
  CASE Ended                    -> "cancelled"
    [] Count(ev, {"ok"}) = 0    -> "failed"
    [] OTHER                    -> "ok"

(* runInternet: tunnelChecker asks every URL through the tunnel and notes  *)
(* an ended context; the direct check is NetCheck's and never does.        *)
InternetMore == Len(ev) < (IF req.dial THEN 2 ELSE 1)

InternetStatus ==
  CASE req.dial /\ Ended      -> "cancelled"
    [] Count(ev, {"ok"}) > 0  -> "ok"
    [] OTHER                  -> "failed"

(***************************************************************************)
(* runTraceroute and walkTTLs: two probes per TTL                          *)
(***************************************************************************)
HopEnds(w) ==
  LET hops == w.hops + (IF w.hop THEN 1 ELSE 0)
  IN CASE ~w.hop /\ ~w.failed -> [w EXCEPT !.end = "stop", !.err = "none"]
       [] w.ttl = MaxHops     -> [w EXCEPT !.end = "stop", !.hops = hops]
       [] OTHER               -> [NoWalk EXCEPT !.ttl = w.ttl + 1, !.hops = hops, !.err = w.err]

Probed(w, a) ==
  CASE a = "unreachable" -> [w EXCEPT !.end = "stop", !.err = a]
    [] a = "reply"       -> [w EXCEPT !.end = "reached", !.err = "none", !.hops = @ + 1]
    [] OTHER ->
         LET next == [w EXCEPT !.probe = @ + 1, !.failed = a \in {"refused", "expired", "cancelled"},
                               !.err = IF a \in {"hop", "silent"} THEN "none" ELSE a,
                               !.hop = @ \/ a = "hop"]
         IN IF next.probe = 2 THEN HopEnds(next) ELSE next

TraceMore == walk.end = "no"

TraceStatus ==
  CASE Ended /\ walk.hops = 0         -> "cancelled"
    [] walk.end = "reached"           -> "ok"
    [] walk.err = "unreachable"       -> "unreachable"
    [] walk.hops > 0                  -> "unreachable"
    [] walk.err # "none"              -> StatusFromError(walk.err)
    [] OTHER                          -> "failed"

(* Resolution, the address family and the privilege to open the ICMP       *)
(* socket come first.                                                      *)
TraceBegins ==
  /\ phase = "running" /\ req.tool = "traceroute" /\ ev = <<>>
  /\ \E s \in {"ok", "failed", "unsupported", "invalid_target"} :
       IF s = "ok" THEN ev' = <<"ok">> /\ UNCHANGED <<phase, status>>
                   ELSE phase' = "done" /\ status' = s /\ UNCHANGED ev
  /\ direct' = TRUE
  /\ UNCHANGED <<req, ctx, walk>>

(* What parseICMPResponse makes of the packets a probe waits for. *)
HopAnswers == {"hop", "reply", "silent", "refused", "unreachable"}

(* The next probe sees the ended context. *)
TraceCut ==
  /\ phase = "running" /\ req.tool = "traceroute" /\ ev # <<>> /\ TraceMore /\ Ended
  /\ walk' = [walk EXCEPT !.end = "stop", !.err = ctx]
  /\ UNCHANGED <<req, ctx, phase, ev, direct, status>>

TraceHop ==
  /\ phase = "running" /\ req.tool = "traceroute" /\ ev # <<>> /\ TraceMore /\ ~Ended
  /\ \E a \in HopAnswers : walk' = Probed(walk, a)
  /\ UNCHANGED <<req, ctx, phase, ev, direct, status>>

(***************************************************************************)
(* Dispatch                                                                *)
(***************************************************************************)
More ==
  CASE req.tool = "dns"            -> DNSMore
    [] req.tool = "websocket"      -> WebSocketMore
    [] req.tool = "path_mtu"       -> MTUMore
    [] req.tool = "captive_portal" -> CaptiveMore
    [] req.tool = "public_ip"      -> IdentityMore
    [] req.tool = "internet"       -> InternetMore
    [] req.tool = "traceroute"     -> ev = <<>> \/ TraceMore
    [] OTHER                       -> ChainMore

NextAnswers ==
  CASE req.tool = "dns"            -> DNSQueries
    [] req.tool = "websocket"      -> WebSocketAnswers
    [] req.tool = "path_mtu"       -> MTUAnswers
    [] req.tool = "captive_portal" -> CaptiveAnswers
    [] req.tool = "public_ip"      -> IdentityAnswers
    [] req.tool = "internet"       -> Answers \cup {"negative"}
    [] OTHER                       -> Steps[Len(ev) + 1]

FinalStatus ==
  CASE req.tool = "dns"            -> DNSStatus
    [] req.tool = "websocket"      -> WebSocketStatus
    [] req.tool = "path_mtu"       -> MTUStatus
    [] req.tool = "captive_portal" -> CaptiveStatus
    [] req.tool = "public_ip"      -> IdentityStatus
    [] req.tool = "internet"       -> InternetStatus
    [] req.tool = "traceroute"     -> TraceStatus
    [] OTHER                       -> ChainStatus

(* UDP and the path MTU dial their resolver themselves; the public address *)
(* is first looked up directly; the others follow the request's path.      *)
LeavesDirectly ==
  \/ req.tool \in {"udp", "path_mtu", "traceroute", "quic"}
  \/ req.tool = "public_ip" /\ ev = <<>>
  \/ ~ThroughTunnel(req) /\ ~LocalTargetTool(req.tool) /\ req.tool # "tunnel_diagnostics"

Probe ==
  /\ phase = "running" /\ req.tool # "traceroute" /\ More
  /\ \E a \in NextAnswers : ev' = Append(ev, a)
  /\ direct' = (direct \/ LeavesDirectly)
  /\ UNCHANGED <<req, ctx, phase, walk, status>>

Finish ==
  /\ phase = "running" /\ ~More
  /\ phase' = "done"
  /\ status' = FinalStatus
  /\ UNCHANGED <<req, ctx, ev, walk, direct>>

ContextEnds ==
  /\ phase = "running" /\ ~Ended
  /\ \E c \in {"cancelled", "expired"} : ctx' = c
  /\ UNCHANGED <<req, phase, ev, walk, direct, status>>

Init ==
  /\ req \in {r \in Requests : r.dial => r.path = "tunneled"}
  /\ ctx = "live" /\ phase = "asked" /\ ev = <<>> /\ walk = NoWalk
  /\ direct = FALSE /\ status = "none"

Going == RunBegins \/ TraceBegins \/ TraceCut \/ TraceHop \/ Probe \/ Finish
Next == Going \/ ContextEnds

Fairness == WF_vars(Going)

Spec == Init /\ [][Next]_vars /\ Fairness

(***************************************************************************)
(* Properties                                                              *)
(***************************************************************************)
Statuses == {"none", "ok", "partial", "failed", "timeout", "cancelled", "invalid_target",
             "unsupported", "not_configured", "not_applicable", "unreachable"}

TypeOK ==
  /\ req \in Requests
  /\ ctx \in {"live", "cancelled", "expired"}
  /\ phase \in {"asked", "running", "done"}
  /\ ev \in Seq({"ok", "refused", "expired", "cancelled", "rejected", "negative", "silence"})
  /\ walk.ttl \in 1..MaxHops /\ walk.hops \in 0..MaxHops
  /\ direct \in BOOLEAN
  /\ status \in Statuses

(* A status is backed by what the run saw: success means every step of a   *)
(* chain, or at least one probe, was answered; "partial" means some were   *)
(* and some were not; a request that was refused sent nothing.  The one    *)
(* exception is the captive-portal tool, which reports success when no     *)
(* target answered at all (README, section 6).                             *)
StatusBacked ==
  phase = "done" =>
    /\ status \in {"ok", "partial"} => \/ Count(ev, {"ok"}) > 0
                                       \/ walk.end = "reached"
                                       \/ req.tool = "captive_portal"
    /\ (status = "ok" /\ req.tool \in ChainTools) => AllOK
    /\ status = "partial" => Count(ev, {"ok"}) < Len(ev)
    /\ status \in {"not_configured", "not_applicable"} => ev = <<>> /\ ~direct

(* A context that is still alive is never reported as cancelled. *)
CancelledEnded == (phase = "done" /\ status = "cancelled") => Ended

(* What the result's path says: a tool whose path is the tunnel measured   *)
(* through the tunnel (the public-address tool compares both by design).   *)
(* The code does otherwise: TLC refutes this property (README, section 6). *)
PathHonest ==
  (phase = "done" /\ status = "ok" /\ req.path = "tunneled" /\ req.tool # "public_ip") => ~direct

(* "cancelled" means the caller cancelled, "timeout" the deadline. *)
(* The code does otherwise: TLC refutes this property (README, section 6). *)
CancelledByCaller == (phase = "done" /\ status = "cancelled") => ctx = "cancelled"

(* A tool that started ends with a status. *)
Due == phase = "running"
Met == phase = "done" /\ status # "none"
ToolEnds == Due ~> Met
=============================================================================
