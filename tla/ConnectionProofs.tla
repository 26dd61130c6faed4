-------------------------- MODULE ConnectionProofs --------------------------
(***************************************************************************)
(* For any number of callers, monitors, cores and epochs: a live verified  *)
(* session shows no success of another session.                            *)
(*                                                                         *)
(* Three places write verifiedAt and one sets the verified state, in       *)
(* different regions of m.mu.  What carries the property across them is    *)
(* that a call between its successful probe and the verified state, whose  *)
(* session is still current, sees the evidence of that session or none,    *)
(* and that no call is ahead of the epoch.                                 *)
(***************************************************************************)
EXTENDS Connection, TLAPS

\* Where a call goes after a Close: never to "verified".
Thens == {"idle", "failed", "drop", "reject", "disconnected"}
Pcs == Thens \cup
  {"select", "prepare", "validate", "launch", "publish", "wait", "ready", "verify", "verifying",
   "verified", "failed_ready", "fail", "close", "closing", "stop_monitor", "join", "shutdown",
   "reconnect", "probe"}
Ops == {"none", "connect", "disconnect", "reconnect", "shutdown", "verify"}
CallRec ==
  [pc : Pcs, op : Ops, gen : Nat, ctx : Nat, left : Nat, i : Instances \cup {0},
   then : Thens, sound : BOOLEAN, cancelled : BOOLEAN, retried : BOOLEAN,
   join : Monitors \cup {0}]

CallMap == [Callers -> CallRec]

Typed ==
  /\ generation \in Nat /\ session \in Nat /\ verified \in Nat
  /\ instance \in Instances \cup {0} /\ monitor \in Monitors \cup {0}
  /\ call \in CallMap

SessionInv ==
  /\ Typed
  /\ \A c \in Callers : call[c].gen <= generation
  /\ \A c \in Callers : At(c, "verified") /\ Current(c) => verified \in {0, generation}
  /\ EvidenceOfThisSession

\* What a step of caller c leaves: the other calls, and a call at p that works for epoch g.
Becomes(c, p, g) ==
  /\ call' \in CallMap /\ call'[c].pc = p /\ call'[c].gen = g
  /\ \A d \in Callers \ {c} : call'[d] = call[d]

-----------------------------------------------------------------------------
(* Records of calls: a field given a value of its type leaves a call.      *)

\* A call whose field pc is set.
LEMMA SetPc ==
  ASSUME NEW r \in CallRec, NEW v \in Pcs
  PROVE  /\ [r EXCEPT !.pc = v] \in CallRec
         /\ [r EXCEPT !.pc = v].pc = v /\ [r EXCEPT !.pc = v].gen = r.gen
  BY DEF CallRec

\* A call whose field op is set.
LEMMA SetOp ==
  ASSUME NEW r \in CallRec, NEW v \in Ops
  PROVE  /\ [r EXCEPT !.op = v] \in CallRec
         /\ [r EXCEPT !.op = v].pc = r.pc /\ [r EXCEPT !.op = v].gen = r.gen
  BY DEF CallRec

\* A call whose field gen is set.
LEMMA SetGen ==
  ASSUME NEW r \in CallRec, NEW v \in Nat
  PROVE  /\ [r EXCEPT !.gen = v] \in CallRec
         /\ [r EXCEPT !.gen = v].pc = r.pc /\ [r EXCEPT !.gen = v].gen = v
  BY DEF CallRec

\* A call whose field ctx is set.
LEMMA SetCtx ==
  ASSUME NEW r \in CallRec, NEW v \in Nat
  PROVE  /\ [r EXCEPT !.ctx = v] \in CallRec
         /\ [r EXCEPT !.ctx = v].pc = r.pc /\ [r EXCEPT !.ctx = v].gen = r.gen
  BY DEF CallRec

\* A call whose field left is set.
LEMMA SetLeft ==
  ASSUME NEW r \in CallRec, NEW v \in Nat
  PROVE  /\ [r EXCEPT !.left = v] \in CallRec
         /\ [r EXCEPT !.left = v].pc = r.pc /\ [r EXCEPT !.left = v].gen = r.gen
  BY DEF CallRec

\* A call whose field i is set.
LEMMA SetI ==
  ASSUME NEW r \in CallRec, NEW v \in Instances \cup {0}
  PROVE  /\ [r EXCEPT !.i = v] \in CallRec
         /\ [r EXCEPT !.i = v].pc = r.pc /\ [r EXCEPT !.i = v].gen = r.gen
  BY DEF CallRec

\* A call whose field then is set.
LEMMA SetThen ==
  ASSUME NEW r \in CallRec, NEW v \in Thens
  PROVE  /\ [r EXCEPT !.then = v] \in CallRec
         /\ [r EXCEPT !.then = v].pc = r.pc /\ [r EXCEPT !.then = v].gen = r.gen
  BY DEF CallRec

\* A call whose field sound is set.
LEMMA SetSound ==
  ASSUME NEW r \in CallRec, NEW v \in BOOLEAN
  PROVE  /\ [r EXCEPT !.sound = v] \in CallRec
         /\ [r EXCEPT !.sound = v].pc = r.pc /\ [r EXCEPT !.sound = v].gen = r.gen
  BY DEF CallRec

\* A call whose field cancelled is set.
LEMMA SetCancelled ==
  ASSUME NEW r \in CallRec, NEW v \in BOOLEAN
  PROVE  /\ [r EXCEPT !.cancelled = v] \in CallRec
         /\ [r EXCEPT !.cancelled = v].pc = r.pc /\ [r EXCEPT !.cancelled = v].gen = r.gen
  BY DEF CallRec

\* A call whose field retried is set.
LEMMA SetRetried ==
  ASSUME NEW r \in CallRec, NEW v \in BOOLEAN
  PROVE  /\ [r EXCEPT !.retried = v] \in CallRec
         /\ [r EXCEPT !.retried = v].pc = r.pc /\ [r EXCEPT !.retried = v].gen = r.gen
  BY DEF CallRec

\* A call whose field join is set.
LEMMA SetJoin ==
  ASSUME NEW r \in CallRec, NEW v \in Monitors \cup {0}
  PROVE  /\ [r EXCEPT !.join = v] \in CallRec
         /\ [r EXCEPT !.join = v].pc = r.pc /\ [r EXCEPT !.join = v].gen = r.gen
  BY DEF CallRec

\* The record of a goroutine that is not calling.
LEMMA IdleCall == Idle \in CallRec /\ Idle.pc = "idle" /\ Idle.gen = 0
  BY DEF Idle, CallRec, Thens, Pcs, Ops

\* A step gives caller c another record.
LEMMA UpdateCall ==
  ASSUME call \in CallMap, NEW c \in Callers, NEW r \in CallRec,
         call' = [call EXCEPT ![c] = r]
  PROVE  Becomes(c, r.pc, r.gen)
  BY DEF CallMap, Becomes

\* Goto.
LEMMA GotoCall ==
  ASSUME call \in CallMap, NEW c \in Callers,
         NEW p \in Pcs,
         call' = [call EXCEPT ![c].pc = p]
  PROVE  Becomes(c, p, call[c].gen)
<1> DEFINE r1 == [call[c] EXCEPT !.pc = p]
<1>1. call[c] \in CallRec
  BY DEF CallMap
<1>2. call' = [call EXCEPT ![c] = r1]
  OBVIOUS
<1> HIDE DEF r1
<1>3. r1 \in CallRec /\ r1.pc = p /\ r1.gen = call[c].gen
  BY <1>1, SetPc DEF r1
<1>4. QED
  BY <1>2, <1>3, UpdateCall

\* CloseThen, and TakeInstance when it found no core.
LEMMA CloseThenCall ==
  ASSUME call \in CallMap, NEW c \in Callers,
         NEW p \in Pcs, NEW t \in Thens,
         call' = [call EXCEPT ![c].pc = p, ![c].then = t]
  PROVE  Becomes(c, p, call[c].gen)
<1> DEFINE r1 == [call[c] EXCEPT !.pc = p]
           r2 == [r1 EXCEPT !.then = t]
<1>1. call[c] \in CallRec
  BY DEF CallMap
<1>2. call' = [call EXCEPT ![c] = r2]
  OBVIOUS
<1> HIDE DEF r1, r2
<1>3. r1 \in CallRec /\ r1.pc = p /\ r1.gen = call[c].gen
  BY <1>1, SetPc DEF r1
<1>4. r2 \in CallRec /\ r2.pc = p /\ r2.gen = call[c].gen
  BY <1>3, SetThen DEF r2
<1>5. QED
  BY <1>2, <1>4, UpdateCall

\* Continue.
LEMMA ContinueCall ==
  ASSUME call \in CallMap, NEW c \in Callers,
         NEW p \in Pcs, NEW t \in Thens, NEW s \in BOOLEAN,
         call' = [call EXCEPT ![c].pc = p, ![c].then = t, ![c].sound = s]
  PROVE  Becomes(c, p, call[c].gen)
<1> DEFINE r1 == [call[c] EXCEPT !.pc = p]
           r2 == [r1 EXCEPT !.then = t]
           r3 == [r2 EXCEPT !.sound = s]
<1>1. call[c] \in CallRec
  BY DEF CallMap
<1>2. call' = [call EXCEPT ![c] = r3]
  OBVIOUS
<1> HIDE DEF r1, r2, r3
<1>3. r1 \in CallRec /\ r1.pc = p /\ r1.gen = call[c].gen
  BY <1>1, SetPc DEF r1
<1>4. r2 \in CallRec /\ r2.pc = p /\ r2.gen = call[c].gen
  BY <1>3, SetThen DEF r2
<1>5. r3 \in CallRec /\ r3.pc = p /\ r3.gen = call[c].gen
  BY <1>4, SetSound DEF r3
<1>6. QED
  BY <1>2, <1>5, UpdateCall

\* Preparing.
LEMMA PreparingCall ==
  ASSUME call \in CallMap, NEW c \in Callers,
         NEW p \in Pcs, NEW n \in Nat,
         call' = [call EXCEPT ![c].pc = p, ![c].left = n]
  PROVE  Becomes(c, p, call[c].gen)
<1> DEFINE r1 == [call[c] EXCEPT !.pc = p]
           r2 == [r1 EXCEPT !.left = n]
<1>1. call[c] \in CallRec
  BY DEF CallMap
<1>2. call' = [call EXCEPT ![c] = r2]
  OBVIOUS
<1> HIDE DEF r1, r2
<1>3. r1 \in CallRec /\ r1.pc = p /\ r1.gen = call[c].gen
  BY <1>1, SetPc DEF r1
<1>4. r2 \in CallRec /\ r2.pc = p /\ r2.gen = call[c].gen
  BY <1>3, SetLeft DEF r2
<1>5. QED
  BY <1>2, <1>4, UpdateCall

\* StartingCore.
LEMMA StartingCall ==
  ASSUME call \in CallMap, NEW c \in Callers,
         NEW p \in Pcs, NEW x \in Nat,
         call' = [call EXCEPT ![c].pc = p, ![c].ctx = x]
  PROVE  Becomes(c, p, call[c].gen)
<1> DEFINE r1 == [call[c] EXCEPT !.pc = p]
           r2 == [r1 EXCEPT !.ctx = x]
<1>1. call[c] \in CallRec
  BY DEF CallMap
<1>2. call' = [call EXCEPT ![c] = r2]
  OBVIOUS
<1> HIDE DEF r1, r2
<1>3. r1 \in CallRec /\ r1.pc = p /\ r1.gen = call[c].gen
  BY <1>1, SetPc DEF r1
<1>4. r2 \in CallRec /\ r2.pc = p /\ r2.gen = call[c].gen
  BY <1>3, SetCtx DEF r2
<1>5. QED
  BY <1>2, <1>4, UpdateCall

\* LaunchCore.
LEMMA LaunchCall ==
  ASSUME call \in CallMap, NEW c \in Callers,
         NEW p \in Pcs, NEW j \in Instances \cup {0},
         call' = [call EXCEPT ![c].pc = p, ![c].i = j]
  PROVE  Becomes(c, p, call[c].gen)
<1> DEFINE r1 == [call[c] EXCEPT !.pc = p]
           r2 == [r1 EXCEPT !.i = j]
<1>1. call[c] \in CallRec
  BY DEF CallMap
<1>2. call' = [call EXCEPT ![c] = r2]
  OBVIOUS
<1> HIDE DEF r1, r2
<1>3. r1 \in CallRec /\ r1.pc = p /\ r1.gen = call[c].gen
  BY <1>1, SetPc DEF r1
<1>4. r2 \in CallRec /\ r2.pc = p /\ r2.gen = call[c].gen
  BY <1>3, SetI DEF r2
<1>5. QED
  BY <1>2, <1>4, UpdateCall

\* WaitReady, when the context of the call has ended.
LEMMA WaitCall ==
  ASSUME call \in CallMap, NEW c \in Callers,
         NEW p \in Pcs, NEW t \in Thens, NEW b \in BOOLEAN,
         call' = [call EXCEPT ![c].pc = p, ![c].then = t, ![c].cancelled = b]
  PROVE  Becomes(c, p, call[c].gen)
<1> DEFINE r1 == [call[c] EXCEPT !.pc = p]
           r2 == [r1 EXCEPT !.then = t]
           r3 == [r2 EXCEPT !.cancelled = b]
<1>1. call[c] \in CallRec
  BY DEF CallMap
<1>2. call' = [call EXCEPT ![c] = r3]
  OBVIOUS
<1> HIDE DEF r1, r2, r3
<1>3. r1 \in CallRec /\ r1.pc = p /\ r1.gen = call[c].gen
  BY <1>1, SetPc DEF r1
<1>4. r2 \in CallRec /\ r2.pc = p /\ r2.gen = call[c].gen
  BY <1>3, SetThen DEF r2
<1>5. r3 \in CallRec /\ r3.pc = p /\ r3.gen = call[c].gen
  BY <1>4, SetCancelled DEF r3
<1>6. QED
  BY <1>2, <1>5, UpdateCall

\* BeginVerify.
LEMMA VerifyCall ==
  ASSUME call \in CallMap, NEW c \in Callers,
         NEW p \in Pcs, NEW s \in BOOLEAN,
         call' = [call EXCEPT ![c].pc = p, ![c].sound = s]
  PROVE  Becomes(c, p, call[c].gen)
<1> DEFINE r1 == [call[c] EXCEPT !.pc = p]
           r2 == [r1 EXCEPT !.sound = s]
<1>1. call[c] \in CallRec
  BY DEF CallMap
<1>2. call' = [call EXCEPT ![c] = r2]
  OBVIOUS
<1> HIDE DEF r1, r2
<1>3. r1 \in CallRec /\ r1.pc = p /\ r1.gen = call[c].gen
  BY <1>1, SetPc DEF r1
<1>4. r2 \in CallRec /\ r2.pc = p /\ r2.gen = call[c].gen
  BY <1>3, SetSound DEF r2
<1>5. QED
  BY <1>2, <1>4, UpdateCall

\* StopMonitor.
LEMMA JoinCall ==
  ASSUME call \in CallMap, NEW c \in Callers,
         NEW p \in Pcs, NEW m \in Monitors \cup {0},
         call' = [call EXCEPT ![c].pc = p, ![c].join = m]
  PROVE  Becomes(c, p, call[c].gen)
<1> DEFINE r1 == [call[c] EXCEPT !.pc = p]
           r2 == [r1 EXCEPT !.join = m]
<1>1. call[c] \in CallRec
  BY DEF CallMap
<1>2. call' = [call EXCEPT ![c] = r2]
  OBVIOUS
<1> HIDE DEF r1, r2
<1>3. r1 \in CallRec /\ r1.pc = p /\ r1.gen = call[c].gen
  BY <1>1, SetPc DEF r1
<1>4. r2 \in CallRec /\ r2.pc = p /\ r2.gen = call[c].gen
  BY <1>3, SetJoin DEF r2
<1>5. QED
  BY <1>2, <1>4, UpdateCall

\* EndSession.
LEMMA EndCall ==
  ASSUME call \in CallMap, NEW c \in Callers,
         NEW p \in Pcs, NEW o \in Ops,
         call' = [call EXCEPT ![c].pc = p, ![c].op = o]
  PROVE  Becomes(c, p, call[c].gen)
<1> DEFINE r1 == [call[c] EXCEPT !.pc = p]
           r2 == [r1 EXCEPT !.op = o]
<1>1. call[c] \in CallRec
  BY DEF CallMap
<1>2. call' = [call EXCEPT ![c] = r2]
  OBVIOUS
<1> HIDE DEF r1, r2
<1>3. r1 \in CallRec /\ r1.pc = p /\ r1.gen = call[c].gen
  BY <1>1, SetPc DEF r1
<1>4. r2 \in CallRec /\ r2.pc = p /\ r2.gen = call[c].gen
  BY <1>3, SetOp DEF r2
<1>5. QED
  BY <1>2, <1>4, UpdateCall

\* TakeInstance.
LEMMA TakeCall ==
  ASSUME call \in CallMap, NEW c \in Callers,
         NEW p \in Pcs, NEW t \in Thens, NEW j \in Instances \cup {0}, NEW m \in Monitors \cup {0},
         call' = [call EXCEPT ![c].pc = p, ![c].then = t, ![c].i = j, ![c].join = m]
  PROVE  Becomes(c, p, call[c].gen)
<1> DEFINE r1 == [call[c] EXCEPT !.pc = p]
           r2 == [r1 EXCEPT !.then = t]
           r3 == [r2 EXCEPT !.i = j]
           r4 == [r3 EXCEPT !.join = m]
<1>1. call[c] \in CallRec
  BY DEF CallMap
<1>2. call' = [call EXCEPT ![c] = r4]
  OBVIOUS
<1> HIDE DEF r1, r2, r3, r4
<1>3. r1 \in CallRec /\ r1.pc = p /\ r1.gen = call[c].gen
  BY <1>1, SetPc DEF r1
<1>4. r2 \in CallRec /\ r2.pc = p /\ r2.gen = call[c].gen
  BY <1>3, SetThen DEF r2
<1>5. r3 \in CallRec /\ r3.pc = p /\ r3.gen = call[c].gen
  BY <1>4, SetI DEF r3
<1>6. r4 \in CallRec /\ r4.pc = p /\ r4.gen = call[c].gen
  BY <1>5, SetJoin DEF r4
<1>7. QED
  BY <1>2, <1>6, UpdateCall

\* BeginConnect, and AttemptFailed when the call fails.
LEMMA BeginCall ==
  ASSUME call \in CallMap, NEW c \in Callers,
         NEW p \in Pcs, NEW o \in Ops, NEW g \in Nat,
         call' = [call EXCEPT ![c] = [Idle EXCEPT !.pc = p, !.op = o, !.gen = g]]
  PROVE  Becomes(c, p, g)
<1> DEFINE r1 == [Idle EXCEPT !.pc = p]
           r2 == [r1 EXCEPT !.op = o]
           r3 == [r2 EXCEPT !.gen = g]
<1>1. Idle \in CallRec /\ Idle.gen = 0
  BY IdleCall
<1>2. call' = [call EXCEPT ![c] = r3]
  OBVIOUS
<1> HIDE DEF r1, r2, r3
<1>3. r1 \in CallRec /\ r1.pc = p /\ r1.gen = 0
  BY <1>1, SetPc DEF r1
<1>4. r2 \in CallRec /\ r2.pc = p /\ r2.gen = 0
  BY <1>3, SetOp DEF r2
<1>5. r3 \in CallRec /\ r3.pc = p /\ r3.gen = g
  BY <1>4, SetGen DEF r3
<1>6. QED
  BY <1>2, <1>5, UpdateCall

\* VerifyConnected.
LEMMA ProbeCall ==
  ASSUME call \in CallMap, NEW c \in Callers,
         NEW p \in Pcs, NEW o \in Ops, NEW g \in Nat, NEW s \in BOOLEAN,
         call' = [call EXCEPT ![c] = [Idle EXCEPT !.pc = p, !.op = o, !.gen = g, !.sound = s]]
  PROVE  Becomes(c, p, g)
<1> DEFINE r1 == [Idle EXCEPT !.pc = p]
           r2 == [r1 EXCEPT !.op = o]
           r3 == [r2 EXCEPT !.gen = g]
           r4 == [r3 EXCEPT !.sound = s]
<1>1. Idle \in CallRec /\ Idle.gen = 0
  BY IdleCall
<1>2. call' = [call EXCEPT ![c] = r4]
  OBVIOUS
<1> HIDE DEF r1, r2, r3, r4
<1>3. r1 \in CallRec /\ r1.pc = p /\ r1.gen = 0
  BY <1>1, SetPc DEF r1
<1>4. r2 \in CallRec /\ r2.pc = p /\ r2.gen = 0
  BY <1>3, SetOp DEF r2
<1>5. r3 \in CallRec /\ r3.pc = p /\ r3.gen = g
  BY <1>4, SetGen DEF r3
<1>6. r4 \in CallRec /\ r4.pc = p /\ r4.gen = g
  BY <1>5, SetSound DEF r4
<1>7. QED
  BY <1>2, <1>6, UpdateCall

\* Return.
LEMMA ReturnCall ==
  ASSUME call \in CallMap, NEW c \in Callers, Return(c)
  PROVE  Becomes(c, "idle", 0)
  BY IdleCall, UpdateCall DEF Return

-----------------------------------------------------------------------------
(* Steps of a call.                                                        *)

\* The state after the step is verified and its session live only if they were before.
NotVerifiedAnew ==
  state' = "connected_verified" /\ session' # 0 => state = "connected_verified" /\ session # 0
Pointers == session' \in Nat /\ instance' \in Instances \cup {0} /\ monitor' \in Monitors \cup {0}

\* A step within the epoch that leaves the evidence alone.
LEMMA PlainStep ==
  ASSUME SessionInv, NEW c \in Callers, NEW p \in Pcs \ {"verified"}, NEW g \in Nat,
         Becomes(c, p, g), g <= generation,
         Pointers, NotVerifiedAnew, UNCHANGED <<generation, verified>>
  PROVE  SessionInv'
<1>1. Typed'
  BY DEF SessionInv, Typed, Becomes, Pointers
<1>2. ASSUME NEW d \in Callers PROVE call'[d].gen <= generation'
  BY DEF SessionInv, Becomes
<1>3. ASSUME NEW d \in Callers, call'[d].pc = "verified", call'[d].gen = generation'
      PROVE  verified' \in {0, generation'}
  BY <1>3 DEF SessionInv, Becomes, At, Current
<1>4. EvidenceOfThisSession'
  BY DEF SessionInv, EvidenceOfThisSession, NotVerifiedAnew
<1>5. QED
  BY <1>1, <1>2, <1>3, <1>4 DEF SessionInv, At, Current

\* A step that begins an epoch leaves a state that is not verified, or no session.
LEMMA EpochStep ==
  ASSUME SessionInv, NEW c \in Callers, NEW p \in Pcs \ {"verified"}, NEW g \in Nat,
         Becomes(c, p, g), g <= generation + 1, generation' = generation + 1,
         Pointers, state' # "connected_verified" \/ session' = 0, UNCHANGED verified
  PROVE  SessionInv'
<1>1. generation \in Nat /\ Typed'
  BY DEF SessionInv, Typed, Becomes, Pointers
<1>2. \A d \in Callers : call[d] \in CallRec /\ call[d].gen \in Nat /\ call[d].gen <= generation
  BY DEF SessionInv, Typed, CallMap, CallRec
<1>3. ASSUME NEW d \in Callers
      PROVE  /\ call'[d].gen <= generation'
             /\ call'[d].pc = "verified" => call'[d].gen # generation'
  BY <1>1, <1>2 DEF Becomes
<1>4. EvidenceOfThisSession'
  BY DEF EvidenceOfThisSession
<1>5. QED
  BY <1>1, <1>3, <1>4 DEF SessionInv, At, Current

\* A step that writes evidence writes that of the current epoch, or none.
LEMMA EvidenceStep ==
  ASSUME SessionInv, NEW c \in Callers, NEW p \in Pcs, NEW g \in Nat,
         Becomes(c, p, g), g <= generation,
         Pointers, verified' \in {0, generation}, UNCHANGED generation
  PROVE  SessionInv'
<1>1. Typed'
  BY DEF SessionInv, Typed, Becomes, Pointers
<1>2. ASSUME NEW d \in Callers PROVE call'[d].gen <= generation'
  BY DEF SessionInv, Becomes
<1>3. EvidenceOfThisSession'
  BY DEF EvidenceOfThisSession
<1>4. QED
  BY <1>1, <1>2, <1>3 DEF SessionInv, At, Current

\* What SessionInv says of a caller and of the pointers.
LEMMA CallFacts ==
  ASSUME SessionInv, NEW c \in Callers
  PROVE  /\ call \in CallMap /\ call[c] \in CallRec
         /\ call[c].gen \in Nat /\ call[c].gen <= generation /\ 0 <= generation
         /\ call[c].then \in Thens /\ call[c].sound \in BOOLEAN /\ call[c].left \in Nat
         /\ call[c].i \in Instances \cup {0}
         /\ generation \in Nat /\ session \in Nat /\ verified \in Nat
         /\ instance \in Instances \cup {0} /\ monitor \in Monitors \cup {0}
<1>1. call[c] \in CallRec
  BY DEF SessionInv, Typed, CallMap
<1>2. QED
  BY <1>1 DEF SessionInv, Typed, CallRec

\* The program counters the steps go to.
LEMMA PcsOfSteps ==
  /\ Thens \subseteq Pcs \ {"verified"}
  /\ {"select", "prepare", "validate", "launch", "publish", "wait", "ready", "verify",
      "verifying", "failed_ready", "fail", "close", "closing", "stop_monitor", "join",
      "shutdown", "reconnect", "probe", "failed", "idle"} \subseteq Pcs \ {"verified"}
  /\ {"failed", "drop", "reject", "disconnected", "idle"} \subseteq Thens
  /\ {"none", "connect", "disconnect", "reconnect", "shutdown", "verify"} \subseteq Ops
  BY DEF Thens, Pcs, Ops

\* A step that goes to p, or begins a Close, with nothing but state, instance and session
\* changed besides.
LEMMA GotoStep ==
  ASSUME SessionInv, NEW c \in Callers,
         \/ \E p \in Pcs \ {"verified"} : Goto(c, p)
         \/ \E t \in Thens : CloseThen(c, t)
         \/ Return(c)
         \/ \E p \in Thens : call' = [call EXCEPT ![c].pc = p, ![c].then = "idle", ![c].sound = FALSE],
         Pointers, NotVerifiedAnew, UNCHANGED <<generation, verified>>
  PROVE  SessionInv'
<1>1. call \in CallMap /\ call[c].gen \in Nat /\ call[c].gen <= generation /\ 0 <= generation
  BY CallFacts
<1>2. ASSUME NEW p \in Pcs \ {"verified"}, Goto(c, p) PROVE SessionInv'
  <2>1. Becomes(c, p, call[c].gen)
    BY <1>1, <1>2, GotoCall DEF Goto
  <2>2. QED
    BY <1>1, <2>1, PlainStep
<1>3. ASSUME NEW t \in Thens, CloseThen(c, t) PROVE SessionInv'
  <2>1. "close" \in Pcs \ {"verified"}
    BY PcsOfSteps
  <2>2. Becomes(c, "close", call[c].gen)
    BY <1>1, <1>3, <2>1, CloseThenCall DEF CloseThen
  <2>3. QED
    BY <1>1, <2>1, <2>2, PlainStep
<1>4. ASSUME Return(c) PROVE SessionInv'
  <2>1. "idle" \in Pcs \ {"verified"} /\ Becomes(c, "idle", 0)
    BY <1>1, <1>4, ReturnCall, PcsOfSteps
  <2>2. QED
    BY <1>1, <2>1, PlainStep
<1>5. ASSUME NEW p \in Thens,
             call' = [call EXCEPT ![c].pc = p, ![c].then = "idle", ![c].sound = FALSE]
      PROVE  SessionInv'
  <2>1. p \in Pcs \ {"verified"} /\ "idle" \in Thens /\ FALSE \in BOOLEAN
    BY PcsOfSteps
  <2>2. Becomes(c, p, call[c].gen)
    BY <1>1, <1>5, <2>1, ContinueCall
  <2>3. QED
    BY <1>1, <2>1, <2>2, PlainStep
<1>6. QED
  BY <1>2, <1>3, <1>4, <1>5

USE DEF keepSession, keepEvidence, keepMonitors

\* An attempt asks for its session.
LEMMA PreparingKeeps ==
  ASSUME SessionInv, NEW c \in Callers, NEW n \in Nat, Preparing(c, n),
         UNCHANGED instance, keepSession, keepEvidence, keepMonitors
  PROVE  SessionInv'
<1>1. Pointers /\ NotVerifiedAnew /\ UNCHANGED <<generation, verified>>
  BY CallFacts DEF Pointers, NotVerifiedAnew, Preparing
<1>2. PICK p \in {"validate", "failed"} : call' = [call EXCEPT ![c].pc = p, ![c].left = n]
  BY DEF Preparing
<1>3. p \in Pcs \ {"verified"}
  BY PcsOfSteps
<1>4. Becomes(c, p, call[c].gen)
  BY <1>2, <1>3, CallFacts, PreparingCall
<1>5. QED
  BY <1>1, <1>3, <1>4, CallFacts, PlainStep

\* Connect up to the launch of a core.
LEMMA AttemptKeeps ==
  ASSUME SessionInv, NEW c \in Callers,
         \/ SelectBackend(c) \/ NextAttempt(c) \/ StartingCore(c) \/ LaunchFails(c)
         \/ LaunchCore(c) \/ PublishInstance(c)
  PROVE  SessionInv'
<1> USE DEF Pointers, NotVerifiedAnew
<1>1. CASE SelectBackend(c)
  <2>1. PICK n \in 0 .. MaxCandidates :
          IF n > 0 THEN Preparing(c, n) ELSE UNCHANGED state /\ Goto(c, "fail")
    BY <1>1 DEF SelectBackend
  <2>2. n \in Nat /\ "fail" \in Pcs \ {"verified"}
    BY ConnectionAssumption, PcsOfSteps
  <2>3. CASE n > 0
    BY <1>1, <2>1, <2>2, <2>3, PreparingKeeps DEF SelectBackend
  <2>4. CASE ~(n > 0)
    <3>1. UNCHANGED <<generation, verified>> /\ Pointers /\ NotVerifiedAnew
      BY <1>1, <2>1, <2>2, <2>4, CallFacts DEF SelectBackend
    <3>2. \/ \E p \in Pcs \ {"verified"} : Goto(c, p)
          \/ \E t \in Thens : CloseThen(c, t)
      BY <1>1, <2>1, <2>2, <2>4, PcsOfSteps DEF SelectBackend
    <3>3. QED
      BY <3>1, <3>2, GotoStep
  <2>5. QED
    BY <2>3, <2>4
<1>2. CASE NextAttempt(c)
  BY <1>2, PreparingKeeps, CallFacts DEF NextAttempt
<1>3. CASE StartingCore(c)
  <2>1. CASE UNCHANGED state /\ Goto(c, "failed")
    <3>1. UNCHANGED <<generation, verified>> /\ Pointers /\ NotVerifiedAnew
      BY <1>3, <2>1, CallFacts DEF StartingCore
    <3>2. \/ \E p \in Pcs \ {"verified"} : Goto(c, p)
          \/ \E t \in Thens : CloseThen(c, t)
      BY <1>3, <2>1, PcsOfSteps DEF StartingCore
    <3>3. QED
      BY <3>1, <3>2, GotoStep
  <2>2. CASE /\ state' = "starting_core"
             /\ call' = [call EXCEPT ![c].pc = "launch", ![c].ctx = session]
    <3>1. "launch" \in Pcs \ {"verified"}
      BY PcsOfSteps
    <3>2. Becomes(c, "launch", call[c].gen)
      BY <2>2, <3>1, CallFacts, StartingCall
    <3>3. QED
      BY <1>3, <2>2, <3>1, <3>2, CallFacts, PlainStep DEF StartingCore
  <2>3. QED
    BY <1>3, <2>1, <2>2 DEF StartingCore
<1>4. CASE LaunchFails(c)
  <2>1. UNCHANGED <<generation, verified>> /\ Pointers /\ NotVerifiedAnew
    BY <1>4, CallFacts DEF LaunchFails
  <2>2. \/ \E p \in Pcs \ {"verified"} : Goto(c, p)
        \/ \E t \in Thens : CloseThen(c, t)
    BY <1>4, PcsOfSteps DEF LaunchFails
  <2>3. QED
    BY <2>1, <2>2, GotoStep
<1>5. CASE LaunchCore(c)
  <2>1. PICK i \in Instances : call' = [call EXCEPT ![c].pc = "publish", ![c].i = i]
    BY <1>5 DEF LaunchCore, Unused
  <2>2. "publish" \in Pcs \ {"verified"}
    BY PcsOfSteps
  <2>3. Becomes(c, "publish", call[c].gen)
    BY <2>1, <2>2, CallFacts, LaunchCall
  <2>4. QED
    BY <1>5, <2>2, <2>3, CallFacts, PlainStep DEF LaunchCore
<1>6. CASE PublishInstance(c)
  <2>1. UNCHANGED <<generation, verified>> /\ Pointers /\ NotVerifiedAnew
    BY <1>6, CallFacts DEF PublishInstance
  <2>2. \/ \E p \in Pcs \ {"verified"} : Goto(c, p)
        \/ \E t \in Thens : CloseThen(c, t)
    BY <1>6, PcsOfSteps DEF PublishInstance
  <2>3. QED
    BY <2>1, <2>2, GotoStep
<1>7. QED
  BY <1>1, <1>2, <1>3, <1>4, <1>5, <1>6

\* From the readiness of the core to the verdict on the route.
LEMMA VerificationKeeps ==
  ASSUME SessionInv, NEW c \in Callers,
         \/ WaitReady(c) \/ DropInstance(c) \/ CoreReady(c) \/ BeginVerify(c) \/ EndVerify(c)
         \/ RejectRoute(c) \/ ConnectedVerified(c)
  PROVE  SessionInv'
<1> USE DEF Pointers, NotVerifiedAnew
<1>1. CASE WaitReady(c)
  <2>1. CASE Goto(c, "ready") \/ CloseThen(c, "drop")
    <3>1. UNCHANGED <<generation, verified>> /\ Pointers /\ NotVerifiedAnew
      BY <1>1, <2>1, CallFacts DEF WaitReady
    <3>2. \/ \E p \in Pcs \ {"verified"} : Goto(c, p)
          \/ \E t \in Thens : CloseThen(c, t)
      BY <1>1, <2>1, PcsOfSteps DEF WaitReady
    <3>3. QED
      BY <3>1, <3>2, GotoStep
  <2>2. CASE call' = [call EXCEPT ![c].pc = "close", ![c].then = "drop", ![c].cancelled = TRUE]
    <3>1. "close" \in Pcs \ {"verified"} /\ "drop" \in Thens /\ TRUE \in BOOLEAN
      BY PcsOfSteps
    <3>2. Becomes(c, "close", call[c].gen)
      BY <2>2, <3>1, CallFacts, WaitCall
    <3>3. QED
      BY <1>1, <3>1, <3>2, CallFacts, PlainStep DEF WaitReady
  <2>3. QED
    BY <1>1, <2>1, <2>2 DEF WaitReady
<1>2. CASE DropInstance(c)
  <2>1. UNCHANGED <<generation, verified>> /\ Pointers /\ NotVerifiedAnew
    BY <1>2, CallFacts DEF DropInstance
  <2>2. \/ \E p \in Pcs \ {"verified"} : Goto(c, p)
        \/ \E t \in Thens : CloseThen(c, t)
    BY <1>2, PcsOfSteps DEF DropInstance
  <2>3. QED
    BY <2>1, <2>2, GotoStep
<1>3. CASE CoreReady(c)
  <2>1. UNCHANGED <<generation, verified>> /\ Pointers /\ NotVerifiedAnew
    BY <1>3, CallFacts DEF CoreReady
  <2>2. \/ \E p \in Pcs \ {"verified"} : Goto(c, p)
        \/ \E t \in Thens : CloseThen(c, t)
    BY <1>3, PcsOfSteps DEF CoreReady
  <2>3. QED
    BY <2>1, <2>2, GotoStep
<1>4. CASE BeginVerify(c)
  <2>1. "verifying" \in Pcs \ {"verified"} /\ Alive(call[c].i) \in BOOLEAN
    BY PcsOfSteps DEF Alive
  <2>2. Becomes(c, "verifying", call[c].gen)
    BY <1>4, <2>1, CallFacts, VerifyCall DEF BeginVerify
  <2>3. QED
    BY <1>4, <2>1, <2>2, CallFacts, PlainStep DEF BeginVerify
<1>5. CASE EndVerify(c)
  <2>1. PICK ok \in {FALSE, call[c].sound} :
          IF ~VerdictCounts(c) THEN CloseThen(c, "failed") /\ keepEvidence
          ELSE /\ verified' = Evidence(ok, call[c].gen)
               /\ IF ok THEN Goto(c, "verified") ELSE CloseRejected(c)
    BY <1>5 DEF EndVerify
  <2>2. CASE ~VerdictCounts(c)
    <3>1. UNCHANGED <<generation, verified>> /\ Pointers /\ NotVerifiedAnew
      BY <1>5, <2>1, <2>2, CallFacts DEF EndVerify
    <3>2. \/ \E p \in Pcs \ {"verified"} : Goto(c, p)
          \/ \E t \in Thens : CloseThen(c, t)
      BY <1>5, <2>1, <2>2, PcsOfSteps DEF EndVerify
    <3>3. QED
      BY <3>1, <3>2, GotoStep
  <2>3. CASE VerdictCounts(c) /\ ~ok
    <3>1. UNCHANGED <<generation, verified>> /\ Pointers /\ NotVerifiedAnew
      BY <1>5, <2>1, <2>3, CallFacts DEF EndVerify, Evidence, CloseRejected
    <3>2. \/ \E p \in Pcs \ {"verified"} : Goto(c, p)
          \/ \E t \in Thens : CloseThen(c, t)
      BY <1>5, <2>1, <2>3, PcsOfSteps DEF EndVerify, Evidence, CloseRejected
    <3>3. QED
      BY <3>1, <3>2, GotoStep
  <2>4. CASE VerdictCounts(c) /\ ok
    <3>1. verified' = generation /\ Goto(c, "verified")
      BY <2>1, <2>4 DEF VerdictCounts, Current, Evidence
    <3>2. "verified" \in Pcs
      BY DEF Pcs
    <3>3. Becomes(c, "verified", call[c].gen)
      BY <3>1, <3>2, CallFacts, GotoCall DEF Goto
    <3>4. QED
      BY <1>5, <3>1, <3>2, <3>3, CallFacts, EvidenceStep DEF EndVerify
  <2>5. QED
    BY <2>2, <2>3, <2>4
<1>6. CASE RejectRoute(c)
  <2>1. UNCHANGED <<generation, verified>> /\ Pointers /\ NotVerifiedAnew
    BY <1>6, CallFacts DEF RejectRoute
  <2>2. \/ \E p \in Pcs \ {"verified"} : Goto(c, p)
        \/ \E t \in Thens : CloseThen(c, t)
    BY <1>6, PcsOfSteps DEF RejectRoute
  <2>3. QED
    BY <2>1, <2>2, GotoStep
<1>7. CASE ConnectedVerified(c)
  <2>1. CASE ~Current(c)
    <3>1. UNCHANGED <<generation, verified>> /\ Pointers /\ NotVerifiedAnew
      BY <1>7, <2>1, CallFacts DEF ConnectedVerified
    <3>2. \/ \E p \in Pcs \ {"verified"} : Goto(c, p)
          \/ \E t \in Thens : CloseThen(c, t)
      BY <1>7, <2>1, PcsOfSteps DEF ConnectedVerified
    <3>3. QED
      BY <3>1, <3>2, GotoStep
  <2>2. CASE Current(c)
    <3>1. verified \in {0, generation}
      BY <1>7, <2>2 DEF ConnectedVerified, SessionInv
    <3>2. "stop_monitor" \in Pcs /\ Goto(c, "stop_monitor")
      BY <1>7, <2>2, PcsOfSteps DEF ConnectedVerified
    <3>3. Becomes(c, "stop_monitor", call[c].gen)
      BY <3>2, CallFacts, GotoCall DEF Goto
    <3>4. QED
      BY <1>7, <3>1, <3>2, <3>3, CallFacts, EvidenceStep DEF ConnectedVerified
  <2>3. QED
    BY <2>1, <2>2
<1>8. QED
  BY <1>1, <1>2, <1>3, <1>4, <1>5, <1>6, <1>7

\* After an attempt.
LEMMA AfterAttemptKeeps ==
  ASSUME SessionInv, NEW c \in Callers, AttemptFailed(c) \/ FailAt(c)
  PROVE  SessionInv'
<1> USE DEF Pointers, NotVerifiedAnew
<1>1. CASE AttemptFailed(c)
  <2> DEFINE g == call[c].gen
             next == [Idle EXCEPT !.pc = "prepare", !.op = "connect", !.gen = g]
  <2>1. "prepare" \in Pcs \ {"verified"} /\ "fail" \in Pcs \ {"verified"} /\ "connect" \in Ops
    BY PcsOfSteps
  <2>2. PICK r : /\ call' = [call EXCEPT ![c] = r]
                 /\ \/ r = [next EXCEPT !.pc = "fail"]
                    \/ r = [next EXCEPT !.left = call[c].left, !.retried = TRUE]
                    \/ call[c].left > 1 /\ r = [next EXCEPT !.left = call[c].left - 1]
    BY <1>1 DEF AttemptFailed
  <2>3. next \in CallRec /\ next.pc = "prepare" /\ next.gen = g
    <3> DEFINE r1 == [Idle EXCEPT !.pc = "prepare"]
               r2 == [r1 EXCEPT !.op = "connect"]
               r3 == [r2 EXCEPT !.gen = g]
    <3>1. next = r3
      OBVIOUS
    <3> HIDE DEF r1, r2, r3
    <3>2. r1 \in CallRec /\ r1.pc = "prepare"
      BY <2>1, IdleCall, SetPc DEF r1
    <3>3. r2 \in CallRec /\ r2.pc = "prepare"
      BY <2>1, <3>2, SetOp DEF r2
    <3>4. r3 \in CallRec /\ r3.pc = "prepare" /\ r3.gen = g
      BY <3>3, CallFacts, SetGen DEF r3
    <3>5. QED
      BY <3>1, <3>4
  <2> HIDE DEF next
  <2>4. r \in CallRec /\ r.gen = g /\ r.pc \in {"prepare", "fail"}
    <3>1. CASE r = [next EXCEPT !.pc = "fail"]
      BY <2>1, <2>3, <3>1, SetPc
    <3>2. CASE r = [next EXCEPT !.left = call[c].left, !.retried = TRUE]
      <4> DEFINE q == [next EXCEPT !.left = call[c].left]
      <4>1. r = [q EXCEPT !.retried = TRUE]
        BY <3>2
      <4>2. q \in CallRec /\ q.pc = "prepare" /\ q.gen = g
        BY <2>3, CallFacts, SetLeft
      <4> HIDE DEF q
      <4>3. TRUE \in BOOLEAN
        OBVIOUS
      <4>4. QED
        BY <4>1, <4>2, <4>3, SetRetried
    <3>3. CASE call[c].left > 1 /\ r = [next EXCEPT !.left = call[c].left - 1]
      <4>1. call[c].left - 1 \in Nat
        BY <3>3, CallFacts
      <4>2. QED
        BY <2>3, <3>3, <4>1, SetLeft
    <3>4. QED
      BY <2>2, <3>1, <3>2, <3>3
  <2>5. Becomes(c, r.pc, g) /\ r.pc \in Pcs \ {"verified"}
    BY <2>1, <2>2, <2>4, CallFacts, UpdateCall
  <2>6. QED
    BY <1>1, <2>5, CallFacts, PlainStep DEF AttemptFailed
<1>2. CASE FailAt(c)
  <2>1. Return(c) /\ UNCHANGED <<generation, verified>>
    BY <1>2 DEF FailAt
  <2>2. Pointers /\ NotVerifiedAnew
    BY <1>2, CallFacts DEF FailAt
  <2>3. QED
    BY <2>1, <2>2, GotoStep
<1>3. QED
  BY <1>1, <1>2

\* Instance.Close, the monitor, and the end of a session.
LEMMA TeardownKeeps ==
  ASSUME SessionInv, NEW c \in Callers,
         \/ CloseCore(c) \/ CloseReturns(c) \/ StopMonitor(c) \/ InstallMonitor(c)
         \/ TakeInstance(c) \/ Disconnected(c) \/ ApplyVerification(c)
  PROVE  SessionInv'
<1> USE DEF Pointers, NotVerifiedAnew
<1>1. CASE CloseCore(c)
  <2>1. UNCHANGED <<generation, verified>> /\ Pointers /\ NotVerifiedAnew
    BY <1>1, CallFacts DEF CloseCore
  <2>2. CASE Continue(c)
    BY <2>1, <2>2, CallFacts, GotoStep DEF Continue
  <2>3. CASE Goto(c, "closing")
    BY <2>1, <2>3, PcsOfSteps, GotoStep
  <2>4. QED
    BY <1>1, <2>2, <2>3 DEF CloseCore
<1>2. CASE CloseReturns(c)
  <2>1. UNCHANGED <<generation, verified>> /\ Pointers /\ NotVerifiedAnew
    BY <1>2, CallFacts DEF CloseReturns
  <2>2. Continue(c)
    BY <1>2 DEF CloseReturns
  <2>3. QED
    BY <2>1, <2>2, CallFacts, GotoStep DEF Continue
<1>3. CASE StopMonitor(c)
  <2>1. UNCHANGED <<generation, verified>> /\ Pointers /\ NotVerifiedAnew
    BY <1>3, CallFacts DEF StopMonitor
  <2>2. "join" \in Pcs \ {"verified"}
    BY PcsOfSteps
  <2>3. Becomes(c, "join", call[c].gen)
    BY <1>3, <2>2, CallFacts, JoinCall DEF StopMonitor
  <2>4. QED
    BY <2>1, <2>2, <2>3, CallFacts, PlainStep
<1>4. CASE InstallMonitor(c)
  <2>1. UNCHANGED <<generation, verified>> /\ Pointers /\ NotVerifiedAnew
    BY <1>4, CallFacts DEF InstallMonitor
  <2>2. Return(c)
    BY <1>4 DEF InstallMonitor
  <2>3. QED
    BY <2>1, <2>2, GotoStep
<1>5. CASE TakeInstance(c)
  <2>1. PICK p \in {"disconnected", "close"} :
          call' = [call EXCEPT ![c].pc = p, ![c].then = "disconnected", ![c].i = instance,
                               ![c].join = 0]
    BY <1>5 DEF TakeInstance
  <2>2. p \in Pcs /\ "disconnected" \in Thens /\ 0 \in Monitors \cup {0}
    BY PcsOfSteps
  <2>3. Becomes(c, p, call[c].gen)
    BY <2>1, <2>2, CallFacts, TakeCall
  <2>4. Pointers /\ verified' \in {0, generation} /\ UNCHANGED generation
    BY <1>5, CallFacts DEF TakeInstance
  <2>5. QED
    BY <2>2, <2>3, <2>4, CallFacts, EvidenceStep
<1>6. CASE Disconnected(c)
  <2>1. UNCHANGED <<generation, verified>> /\ Pointers /\ NotVerifiedAnew
    BY <1>6, CallFacts DEF Disconnected
  <2>2. Goto(c, "reconnect") \/ Return(c)
    BY <1>6 DEF Disconnected
  <2>3. QED
    BY <2>1, <2>2, PcsOfSteps, GotoStep
<1>7. CASE ApplyVerification(c)
  <2>1. Pointers /\ NotVerifiedAnew /\ UNCHANGED generation /\ Return(c)
    BY <1>7, CallFacts DEF ApplyVerification
  <2>2. UNCHANGED verified \/ verified' = generation
    BY <1>7 DEF ApplyVerification, Evidence, Current
  <2>3. CASE UNCHANGED verified
    BY <2>1, <2>3, GotoStep
  <2>4. CASE verified' = generation
    <3>1. "idle" \in Pcs /\ Becomes(c, "idle", 0)
      BY <2>1, CallFacts, PcsOfSteps, ReturnCall
    <3>2. QED
      BY <2>1, <2>4, <3>1, CallFacts, EvidenceStep
  <2>5. QED
    BY <2>2, <2>3, <2>4
<1>8. QED
  BY <1>1, <1>2, <1>3, <1>4, <1>5, <1>6, <1>7

\* A new epoch with a session, and one without.
LEMMA BoundaryKeeps ==
  ASSUME SessionInv, NEW c \in Callers,
         BeginConnect(c) \/ \E o \in Ops : EndSession(c, o)
  PROVE  SessionInv'
<1>1. CASE BeginConnect(c)
  <2>1. "select" \in Pcs \ {"verified"} /\ "connect" \in Ops /\ generation + 1 \in Nat
    BY PcsOfSteps, CallFacts
  <2>2. Becomes(c, "select", generation + 1)
    BY <1>1, <2>1, CallFacts, BeginCall DEF BeginConnect
  <2>3. generation' = generation + 1 /\ state' # "connected_verified" /\ UNCHANGED verified
        /\ Pointers
    BY <1>1, CallFacts DEF BeginConnect, Pointers
  <2>4. QED
    BY <2>1, <2>2, <2>3, EpochStep
<1>2. ASSUME NEW o \in Ops, EndSession(c, o) PROVE SessionInv'
  <2>1. "stop_monitor" \in Pcs \ {"verified"} /\ call[c].gen <= generation + 1
    BY PcsOfSteps, CallFacts
  <2>2. Becomes(c, "stop_monitor", call[c].gen)
    BY <1>2, <2>1, CallFacts, EndCall DEF EndSession
  <2>3. generation' = generation + 1 /\ session' = 0 /\ UNCHANGED verified /\ Pointers
    BY <1>2, CallFacts DEF EndSession, Pointers
  <2>4. QED
    BY <2>1, <2>2, <2>3, CallFacts, EpochStep
<1>3. QED
  BY <1>1, <1>2

\* The calls themselves, and the ones that begin another.
LEMMA CallsKeep ==
  ASSUME SessionInv, NEW c \in Callers,
         \/ Connect(c) \/ CallDisconnect(c) \/ CallReconnect(c) \/ CallShutdown(c)
         \/ VerifyConnected(c) \/ ShutdownDisconnects(c) \/ Reconnect(c)
  PROVE  SessionInv'
<1>1. CASE Connect(c)
  BY <1>1, BoundaryKeeps DEF Connect
<1>2. CASE CallDisconnect(c) \/ CallReconnect(c) \/ ShutdownDisconnects(c)
  <2>1. \E o \in Ops : EndSession(c, o)
    BY <1>2, PcsOfSteps DEF CallDisconnect, CallReconnect, ShutdownDisconnects
  <2>2. QED
    BY <2>1, BoundaryKeeps
<1>3. CASE CallShutdown(c)
  <2>1. Goto(c, "shutdown") /\ UNCHANGED <<generation, verified>> /\ Pointers /\ NotVerifiedAnew
    BY <1>3, CallFacts DEF CallShutdown, Pointers, NotVerifiedAnew
  <2>2. QED
    BY <2>1, PcsOfSteps, GotoStep
<1>4. CASE VerifyConnected(c)
  <2>1. "probe" \in Pcs \ {"verified"} /\ "verify" \in Ops /\ Alive(instance) \in BOOLEAN
    BY PcsOfSteps DEF Alive
  <2>2. Becomes(c, "probe", generation)
    BY <1>4, <2>1, CallFacts, ProbeCall DEF VerifyConnected
  <2>3. UNCHANGED <<generation, verified>> /\ Pointers /\ NotVerifiedAnew
    BY <1>4, CallFacts DEF VerifyConnected, Pointers, NotVerifiedAnew
  <2>4. QED
    BY <2>1, <2>2, <2>3, CallFacts, PlainStep
<1>5. CASE Reconnect(c)
  <2>1. CASE Connectable
    BY <1>5, <2>1, BoundaryKeeps DEF Reconnect
  <2>2. CASE ~Connectable
    <3>1. Return(c) /\ UNCHANGED <<generation, verified>> /\ Pointers /\ NotVerifiedAnew
      BY <1>5, <2>2, CallFacts DEF Reconnect, Pointers, NotVerifiedAnew
    <3>2. QED
      BY <3>1, GotoStep
  <2>3. QED
    BY <2>1, <2>2
<1>6. QED
  BY <1>1, <1>2, <1>3, <1>4, <1>5

-----------------------------------------------------------------------------
(* The monitor and the cores.                                              *)

\* A step that changes no call: it keeps the epoch and the evidence, or writes evidence of
\* the current epoch, or begins an epoch without a session.
LEMMA OtherStep ==
  ASSUME SessionInv, UNCHANGED call, Pointers, NotVerifiedAnew,
         \/ UNCHANGED <<generation, verified>>
         \/ UNCHANGED generation /\ verified' = generation
         \/ generation' = generation + 1 /\ session' = 0 /\ UNCHANGED verified
  PROVE  SessionInv'
<1>1. generation \in Nat /\ Typed'
  BY DEF SessionInv, Typed, Pointers
<1>2. ASSUME NEW d \in Callers
      PROVE  /\ call'[d].gen <= generation'
             /\ call'[d].pc = "verified" /\ call'[d].gen = generation'
                => verified' \in {0, generation'}
  BY <1>1, CallFacts DEF SessionInv, At, Current
<1>3. EvidenceOfThisSession'
  BY DEF SessionInv, EvidenceOfThisSession, NotVerifiedAnew
<1>4. QED
  BY <1>1, <1>2, <1>3 DEF SessionInv, At, Current

\* The pointers are typed.
LEMMA PointerFacts ==
  ASSUME SessionInv
  PROVE  /\ generation \in Nat /\ session \in Nat
         /\ instance \in Instances \cup {0} /\ monitor \in Monitors \cup {0}
  BY DEF SessionInv, Typed

\* The process watcher.
LEMMA WatcherKeeps ==
  ASSUME SessionInv, NEW m \in Monitors, WatcherStep(m)
  PROVE  SessionInv'
<1>1. UNCHANGED call
  BY DEF WatcherStep, WatcherWakes, HandleCoreCrash, WatcherCloses
<1>2. Pointers /\ NotVerifiedAnew
  BY PointerFacts DEF WatcherStep, WatcherWakes, HandleCoreCrash, WatcherCloses, Pointers,
                      NotVerifiedAnew
<1>3. \/ UNCHANGED <<generation, verified>>
      \/ generation' = generation + 1 /\ session' = 0 /\ UNCHANGED verified
  BY DEF WatcherStep, WatcherWakes, HandleCoreCrash, WatcherCloses
<1>4. QED
  BY <1>1, <1>2, <1>3, OtherStep

\* The ticker and its stability recheck.
LEMMA TickKeeps ==
  ASSUME SessionInv, NEW m \in Monitors, TickStep(m)
  PROVE  SessionInv'
<1>1. CASE EndRecheck(m)
  <2>1. UNCHANGED call /\ Pointers /\ NotVerifiedAnew
    BY <1>1, PointerFacts DEF EndRecheck, Pointers, NotVerifiedAnew
  <2>2. \/ UNCHANGED <<generation, verified>>
        \/ UNCHANGED generation /\ verified' = generation
        \/ generation' = generation + 1 /\ session' = 0 /\ UNCHANGED verified
    BY <1>1 DEF EndRecheck, Evidence
  <2>3. QED
    BY <2>1, <2>2, OtherStep
<1>2. CASE MonitorEnds(m) \/ MonitorDone(m) \/ BeginRecheck(m) \/ MonitorCloses(m) \/ MonitorFails(m)
  <2>1. UNCHANGED call /\ UNCHANGED <<generation, verified>> /\ Pointers /\ NotVerifiedAnew
    BY <1>2, PointerFacts DEF MonitorEnds, MonitorDone, BeginRecheck, MonitorCloses, MonitorFails,
                              Pointers, NotVerifiedAnew
  <2>2. QED
    BY <2>1, OtherStep
<1>3. QED
  BY <1>1, <1>2 DEF TickStep

-----------------------------------------------------------------------------
\* Results of a probe that arrive after a boundary are discarded: a live verified session
\* shows its own success or none, for any number of callers, monitors, cores and epochs.
THEOREM EvidenceAlwaysOfThisSession == Spec => []EvidenceOfThisSession
<1>1. Init => SessionInv
  <2> SUFFICES ASSUME Init PROVE SessionInv
    OBVIOUS
  <2>1. call = [c \in Callers |-> Idle] /\ call \in CallMap
    BY IdleCall DEF Init, CallMap
  <2>2. \A c \in Callers : call[c].gen = 0 /\ call[c].pc = "idle"
    BY <2>1, IdleCall
  <2>3. QED
    BY <2>1, <2>2 DEF Init, SessionInv, Typed, EvidenceOfThisSession, At
<1>2. SessionInv /\ [Next]_vars => SessionInv'
  <2> SUFFICES ASSUME SessionInv, [Next]_vars PROVE SessionInv'
    OBVIOUS
  <2>1. ASSUME NEW c \in Callers, CallerStep(c) PROVE SessionInv'
    BY <2>1, AttemptKeeps, VerificationKeeps, AfterAttemptKeeps, TeardownKeeps, CallsKeep, Zenon
       DEF CallerStep
  <2>2. ASSUME NEW c \in Callers,
               Connect(c) \/ CallDisconnect(c) \/ CallReconnect(c) \/ CallShutdown(c)
               \/ VerifyConnected(c)
        PROVE  SessionInv'
    BY <2>2, CallsKeep
  <2>3. ASSUME UNCHANGED mvars PROVE SessionInv'
    BY <2>3 DEF mvars, SessionInv, Typed, EvidenceOfThisSession, At, Current
  <2>4. CASE Next
    BY <2>1, <2>2, <2>3, <2>4, WatcherKeeps, TickKeeps DEF Next, SupervisorStep, Killed, Exits
  <2>5. CASE UNCHANGED vars
    BY <2>3, <2>5 DEF vars
  <2>6. QED
    BY <2>4, <2>5
<1>3. SessionInv => EvidenceOfThisSession
  BY DEF SessionInv
<1>4. QED
  BY <1>1, <1>2, <1>3, PTL DEF Spec
=============================================================================
