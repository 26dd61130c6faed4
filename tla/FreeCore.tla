------------------------------ MODULE FreeCore ------------------------------
(***************************************************************************)
(* engine/freecore: the in-process engine.  Local connections come from an *)
(* accept loop, TUN flows from the user-space stack (freecore/netstack);   *)
(* both run the same pipeline of route, session, dial and relay.  A        *)
(* WaitGroup counts every goroutine that can hold a session, and Wait      *)
(* returns when it is zero.                                                *)
(***************************************************************************)
EXTENDS Integers, Sequences, FiniteSets

CONSTANTS
  Local, Tun,       \* connections of the accept loop, flows of the stack
  MaxSessions,      \* bound of the session registry
  MaxFlows          \* bound of the stack's flow limiter

VARIABLES
  run,         \* Run: none, bound, serving, refused
  listener,    \* none, open, broken, closed
  loop,        \* the accept loop: none, accept, fail, exit
  wg,          \* serveWG
  admission,   \* tunAdmission
  releases,    \* who flipped it and owes the sentinel's Done
  draining,    \* sessionRegistry.draining
  cancelled,   \* the engine's context
  stopper,     \* the one body of stopOnce: 0, then its steps
  watcher,     \* the goroutine on the engine's context: 0, then its steps
  failure,     \* stopErr, and whether the listener really failed
  stopped,     \* the channel Wait reads
  conn,        \* where each connection or flow is
  sessions,    \* the session registry
  armed,       \* connections with a deadline on either side
  stack,       \* the user-space stack: slots of its limiter, its context
  early        \* whether Stop came before Run served

vars == <<run, listener, loop, wg, admission, releases, draining, cancelled, stopper,
          watcher, failure, stopped, conn, sessions, armed, stack, early>>
life == <<run, listener, loop, stopper, watcher, failure, stopped, early>>
gates == <<admission, releases, draining, cancelled>>

Conns == Local \cup Tun

Init ==
  /\ run = "none" /\ listener = "none" /\ loop = "none" /\ wg = 0
  /\ admission = FALSE /\ releases = "nobody" /\ draining = FALSE /\ cancelled = FALSE
  /\ stopper = 0 /\ watcher = 0 /\ stopped = FALSE
  /\ failure = [recorded |-> FALSE, real |-> FALSE]
  /\ conn = [c \in Conns |-> "none"] /\ sessions = {} /\ armed = {}
  /\ stack = [slots |-> 0, done |-> FALSE] /\ early = FALSE

-----------------------------------------------------------------------------
\* Run: the listeners first, then the context, the admission sentinel, the accept loop and
\* the two goroutines that watch the context and the WaitGroup.
RunBinds ==
  /\ run = "none"
  /\ \/ run' = "bound" /\ listener' = "open"
     \/ run' = "refused" /\ UNCHANGED listener
  /\ UNCHANGED <<loop, wg, gates, stopper, watcher, failure, stopped, conn, sessions, armed, stack, early>>

RunServes ==
  /\ run = "bound" /\ run' = "serving" /\ loop' = "accept" /\ watcher' = 1
  /\ admission' = TRUE /\ wg' = wg + 2
  /\ UNCHANGED <<listener, releases, draining, cancelled, stopper, failure, stopped, conn, sessions, armed, stack, early>>

\* The goroutine of Run that waits for the WaitGroup.
MarkStopped ==
  /\ run = "serving" /\ wg = 0 /\ ~stopped /\ stopped' = TRUE
  /\ UNCHANGED <<run, listener, loop, wg, gates, stopper, watcher, failure, conn, sessions, armed, stack, early>>

\* The parent's context ends.
ParentCancels ==
  /\ run = "serving" /\ ~cancelled /\ cancelled' = TRUE
  /\ UNCHANGED <<life, wg, admission, releases, draining, conn, sessions, armed, stack>>

\* The steps of a shutdown, taken by Stop and by the watcher of the context.
\* closeTUNAdmission: the flag under the mutex, then the sentinel's Done by whoever flipped it.
Step(step, me) ==
  /\ draining' = (draining \/ step = "drain")
  /\ admission' = (admission /\ step # "admission")
  /\ releases' = CASE step = "admission" /\ admission -> me
                   [] step = "sentinel" /\ releases = me -> "nobody"
                   [] OTHER -> releases
  /\ wg' = IF step = "sentinel" /\ releases = me THEN wg - 1 ELSE wg
  /\ cancelled' = (cancelled \/ (step = "cancel" /\ run = "serving"))
  /\ listener' = IF step = "listeners" /\ listener # "none" THEN "closed" ELSE listener

\* The goroutine on the context, a copy of Stop that comes from the parent.
WatchOrder == <<"admission", "sentinel", "drain", "listeners">>

Watch ==
  /\ watcher \in 1..Len(WatchOrder) /\ cancelled
  /\ Step(WatchOrder[watcher], "watcher") /\ watcher' = watcher + 1
  /\ UNCHANGED <<run, loop, stopper, failure, stopped, conn, sessions, armed, stack, early>>

-----------------------------------------------------------------------------
\* Mutant of StopOrder: the listeners close before the gate is down.
StopOrderReversed == <<"listeners", "admission", "sentinel", "cancel", "drain">>
StopOrder == <<"drain", "admission", "sentinel", "cancel", "listeners">>

\* Stop, once.  The wait for the grace period that may follow is bounded and changes nothing.
StopBegins ==
  /\ stopper = 0 /\ stopper' = 1 /\ early' = (run # "serving")
  /\ UNCHANGED <<run, listener, loop, wg, gates, watcher, failure, stopped, conn, sessions, armed, stack>>

StopSteps ==
  /\ stopper \in 1..Len(StopOrder)
  /\ Step(StopOrder[stopper], "stop") /\ stopper' = stopper + 1
  /\ UNCHANGED <<run, loop, watcher, failure, stopped, conn, sessions, armed, stack, early>>

\* The listener dies while the engine serves.
ListenerFails ==
  /\ listener = "open" /\ run = "serving" /\ listener' = "broken"
  /\ failure' = [failure EXCEPT !.real = TRUE]
  /\ UNCHANGED <<run, loop, wg, gates, stopper, watcher, stopped, conn, sessions, armed, stack, early>>

\* An accept error: clean when the listener is closed and the gate is down, otherwise the
\* engine's failure; then Stop, which runs or waits for the one body of stopOnce.
AcceptFails ==
  /\ loop = "accept" /\ listener \in {"closed", "broken"}
  /\ IF listener = "closed" /\ draining
       THEN loop' = "exit" /\ wg' = wg - 1 /\ UNCHANGED <<failure, stopper>>
       ELSE /\ failure' = [failure EXCEPT !.recorded = TRUE]
            /\ loop' = "fail" /\ stopper' = IF stopper = 0 THEN 1 ELSE stopper
            /\ UNCHANGED wg
  /\ UNCHANGED <<run, listener, gates, watcher, stopped, conn, sessions, armed, stack, early>>

LoopExits ==
  /\ loop = "fail" /\ stopper > Len(StopOrder) /\ loop' = "exit" /\ wg' = wg - 1
  /\ UNCHANGED <<run, listener, gates, stopper, watcher, failure, stopped, conn, sessions, armed, stack, early>>

-----------------------------------------------------------------------------
Goes(c, where) == conn' = [conn EXCEPT ![c] = where]

\* A local connection: counted before its goroutine starts.
Accept(c) ==
  /\ loop = "accept" /\ listener = "open" /\ conn[c] = "none"
  /\ Goes(c, "handshake") /\ wg' = wg + 1 /\ armed' = armed \cup {c}
  /\ UNCHANGED <<life, gates, sessions, stack>>

\* serveMixed: the first byte tells the protocol, under a deadline that ends with it.
Sniff(c) ==
  /\ conn[c] = "handshake" /\ armed' = armed \ {c}
  /\ \E to \in {"socks5", "http", "leave"} : Goes(c, to)
  /\ UNCHANGED <<life, wg, gates, sessions, stack>>

\* SOCKS5: greeting and request under a deadline that nothing clears; anything but CONNECT ends.
Socks5Serves(c) ==
  /\ conn[c] = "socks5" /\ armed' = armed \cup {c}
  /\ \E to \in {"flow", "leave"} : Goes(c, to)
  /\ UNCHANGED <<life, wg, gates, sessions, stack>>

\* HTTP: CONNECT and the absolute form clear the deadline once the head is read.
HTTPServes(c) ==
  /\ conn[c] = "http" /\ \E to \in {"flow", "leave"} : Goes(c, to)
  /\ UNCHANGED <<life, wg, gates, sessions, armed, stack>>

\* handleTCPRequest: a slot of the limiter, or a refusal.
Syn(c) ==
  /\ run = "serving" /\ ~stack.done /\ conn[c] = "none"
  /\ IF stack.slots < MaxFlows
       THEN Goes(c, "syn") /\ stack' = [stack EXCEPT !.slots = @ + 1]
       ELSE Goes(c, "gone") /\ UNCHANGED stack
  /\ UNCHANGED <<life, wg, gates, sessions, armed>>

\* Mutant of Admitted: a flow is counted whatever the admission flag says.
AdmittedAlways == TRUE
Admitted == admission

\* HandleTUNFlow: counted only while the sentinel keeps the WaitGroup above zero.
Admit(c) ==
  /\ conn[c] = "syn"
  /\ IF Admitted THEN Goes(c, "flow") /\ wg' = wg + 1 ELSE Goes(c, "release") /\ UNCHANGED wg
  /\ UNCHANGED <<life, gates, sessions, armed, stack>>

\* Mutant of BelowLimit: the bound lets one session more in.
BelowLimitPlusOne == Cardinality(sessions) <= MaxSessions
BelowLimit == Cardinality(sessions) < MaxSessions

\* routeFlow and the start of pipeOutbound: a blocked target, the drain gate or the limit end
\* the flow; otherwise a session begins.
Route(c) ==
  /\ conn[c] = "flow"
  /\ IF ~draining /\ BelowLimit
       THEN \/ Goes(c, "dial") /\ sessions' = sessions \cup {c}
            \/ Goes(c, "leave") /\ UNCHANGED sessions
       ELSE Goes(c, "leave") /\ UNCHANGED sessions
  /\ UNCHANGED <<life, wg, gates, armed, stack>>

\* The context the session derives from: the engine's, or the stack's for a TUN flow.
Ended(c) == IF c \in Tun THEN stack.done ELSE cancelled

\* The deferred end of the session.
SessionEnds(c) == Goes(c, "leave") /\ sessions' = sessions \ {c} /\ armed' = armed \ {c}

\* What a dial ends with: the relay, with or without a deadline left on the connection, or
\* the end of the session.
Dials(c, left) ==
  /\ conn[c] = "dial"
  /\ \/ ~Ended(c) /\ Goes(c, "relay") /\ armed' = armed \cup left /\ UNCHANGED sessions
     \/ SessionEnds(c)
  /\ UNCHANGED <<life, wg, gates, stack>>

\* The three outbounds: direct; SOCKS5, whose client leaves the dial deadline on the connection
\* it returns; HTTP CONNECT, which clears its own.
DirectDial(c) == Dials(c, {})
Socks5Dial(c) == Dials(c, {c})
HTTPDial(c) == Dials(c, {})

\* relay: an end of either side, or of the context, closes both; so does a deadline that is
\* still set, which makes the copies fail.
RelayEnds(c) ==
  /\ conn[c] = "relay" /\ SessionEnds(c)
  /\ UNCHANGED <<life, wg, gates, stack>>

\* The goroutine's Done.
Leave(c) ==
  /\ conn[c] = "leave" /\ wg' = wg - 1
  /\ Goes(c, IF c \in Tun THEN "release" ELSE "gone") /\ armed' = armed \ {c}
  /\ UNCHANGED <<life, gates, sessions, stack>>

\* The stack's goroutine closes the flow and gives the slot back.
Release(c) ==
  /\ conn[c] = "release" /\ Goes(c, "gone") /\ stack' = [stack EXCEPT !.slots = @ - 1]
  /\ UNCHANGED <<life, wg, gates, sessions, armed>>

\* Stack.Close: its context ends, which closes what the handlers have open.
StackCloses ==
  /\ run = "serving" /\ ~stack.done /\ stack' = [stack EXCEPT !.done = TRUE]
  /\ UNCHANGED <<life, wg, gates, conn, sessions, armed>>

-----------------------------------------------------------------------------
Handler(c) ==
  \/ Sniff(c) \/ Socks5Serves(c) \/ HTTPServes(c) \/ Admit(c) \/ Route(c)
  \/ DirectDial(c) \/ Socks5Dial(c) \/ HTTPDial(c) \/ Leave(c) \/ Release(c)

Next ==
  \/ RunBinds \/ RunServes \/ MarkStopped \/ ParentCancels \/ Watch \/ StopBegins \/ StopSteps
  \/ ListenerFails \/ AcceptFails \/ LoopExits \/ StackCloses
  \/ \E c \in Local : Accept(c)
  \/ \E c \in Tun : Syn(c)
  \/ \E c \in Conns : Handler(c) \/ RelayEnds(c)

\* The goroutines: Run and what it leaves behind, the accept loop, and one per connection.
Running == RunServes \/ MarkStopped
AcceptLoop == AcceptFails \/ LoopExits
Serve(c) == Handler(c) \/ (Ended(c) /\ RelayEnds(c))

Goroutines == Running \/ Watch \/ StopSteps \/ AcceptLoop \/ \E c \in Conns : Serve(c)

\* Goroutines run; handshakes and dials are bounded by their deadlines; a relay is only sure to
\* end when its context has ended.
Fairness ==
  /\ WF_vars(Running) /\ WF_vars(Watch) /\ WF_vars(StopSteps) /\ WF_vars(AcceptLoop)
  /\ \A c \in Conns : WF_vars(Serve(c))

Spec == Init /\ [][Next]_vars /\ Fairness

-----------------------------------------------------------------------------
Alive(c) == conn[c] \in {"handshake", "socks5", "http", "flow", "dial", "relay", "leave"}

TypeOK ==
  /\ run \in {"none", "bound", "serving", "refused"} /\ wg \in Nat
  /\ listener \in {"none", "open", "broken", "closed"} /\ loop \in {"none", "accept", "fail", "exit"}
  /\ {admission, draining, cancelled, stopped} \subseteq BOOLEAN
  /\ stopper \in 0..6 /\ watcher \in 0..5 /\ releases \in {"nobody", "stop", "watcher"}
  /\ sessions \subseteq Conns /\ armed \subseteq Conns
  /\ stack.slots \in 0..MaxFlows /\ stack.done \in BOOLEAN

\* Wait returns only when nothing can hold a session: no handler lives, the registry is empty,
\* the accept loop is over and no TUN flow can be admitted any more.
WaitDrained ==
  stopped => sessions = {} /\ ~admission /\ loop = "exit" /\ \A c \in Conns : ~Alive(c)

\* The registry never holds more than its bound, holds exactly the flows between begin and end,
\* and every slot of the limiter belongs to a flow whose goroutine will give it back.
SessionsBounded ==
  /\ Cardinality(sessions) <= MaxSessions
  /\ sessions = {c \in Conns : conn[c] \in {"dial", "relay"}}
  /\ stack.slots = Cardinality({c \in Tun : conn[c] \notin {"none", "gone"}})

\* A shutdown that was asked for is never reported as a failure of the engine.
CleanStop == failure.recorded => failure.real

\* A tunnel that is up does not end by a deadline of the handshakes before it.
\* The code does otherwise: TLC refutes this property (README, section 6).
TunnelKept == \A c \in Conns : conn[c] = "relay" => c \notin armed

\* After Stop, or the end of the parent's context, the engine drains once the stack closes too;
\* only a Stop that came while Run was still binding is not sure to be heard.
Due == run = "serving" /\ ((stopper > 0 /\ ~early) \/ cancelled) /\ stack.done
Met == stopped
Drains == Due ~> Met

\* Stop may come at any time, during Run as well: the engine still stops.
\* The code does otherwise: TLC refutes this property (README, section 6).
StopWorks == (stopper > 0) ~> (stopped \/ run # "serving")
=============================================================================
