------------------------------ MODULE Services ------------------------------
(***************************************************************************)
(* The parts of FreeIran that work in the background and must come to an   *)
(* end: publishers, schedulers, transfers, the guided start, recovery,     *)
(* boot and shutdown.  The specification is their sum, as in Platform:     *)
(* "part" says which of them the behaviour is one of, and x1, x2, ... hold *)
(* that part's state.                                                      *)
(*                                                                         *)
(* Each part has its own fairness.  Only one part moves in a behaviour, so *)
(* the fair actions of all of them share a few slots: slot i is the i-th   *)
(* fair action of whatever part runs, and weak fairness of every slot is   *)
(* exactly the conjunction "Fairness" of that part's module.               *)
(***************************************************************************)
EXTENDS Integers, Sequences

VARIABLES part, x1, x2, x3, x4, x5, x6, x7, x8, x9, x10, x11, x12, x13, x14, x15, x16, x17

xs == <<x1, x2, x3, x4, x5, x6, x7, x8, x9, x10, x11, x12, x13, x14, x15, x16, x17>>
vars == <<part, xs>>

AllTools == {"internet", "dns", "tcp", "tls", "https", "http_connect", "socks5", "websocket",
             "udp", "quic", "traceroute", "path_mtu", "captive_portal", "public_ip",
             "tunnel_diagnostics"}

(* The ordered publisher of application states. *)
Publisher == INSTANCE StatePub WITH
  Stages <- {"a", "b"}, ReplaceableStages <- {"a"}, MaxQueue <- 2, MaxPublish <- 4,
  queue <- x1, last <- x2, stopped <- x3, signal <- x4, loop <- x5, item <- x6,
  seen <- x7, joined <- x8

(* Calls shared between concurrent callers. *)
Flight == INSTANCE SingleFlight WITH
  Callers <- {1, 2, 3}, Keys <- {1, 2}, MaxCalls <- 3, registered <- x1,
  call <- x2, waits <- x3

(* The scheduler of ingestion cycles. *)
Cycles == INSTANCE Scheduler WITH
  MaxStarts <- 2, running <- x1, cancelled <- x2, wake <- x3, busy <- x4, loop <- x5,
  first <- x6, stop <- x7, starts <- x8

(* The FreeCore engine: listener, sessions, TUN flows, shutdown. *)
Engine == INSTANCE FreeCore WITH
  Local <- {"l1"}, Tun <- {"t1"}, MaxSessions <- 1, MaxFlows <- 1,
  run <- x1, listener <- x2, loop <- x3, wg <- x4,
  admission <- x5, releases <- x6, draining <- x7, cancelled <- x8, stopper <- x9,
  watcher <- x10, failure <- x11, stopped <- x12, conn <- x13, sessions <- x14,
  armed <- x15, stack <- x16, early <- x17

(* One run of a network tool. *)
Tool == INSTANCE NetTools WITH
  Tools <- AllTools, MaxHops <- 2, Rungs <- 3, req <- x1, ctx <- x2, phase <- x3,
  ev <- x4, walk <- x5, direct <- x6, status <- x7

(* A download with ranges, retries and resumption. *)
Transfer == INSTANCE Download WITH
  Size <- 2, Expected <- 2, MaxRetries <- 1, MaxRestarts <- 1, Parallel <- TRUE,
  MaxCalls <- 2, mode <- x1, part <- x2, dest <- x3, slice <- x4, off <- x5,
  total <- x6, retries <- x7, restarts <- x8, worker <- x9, reader <- x10,
  held <- x11, result <- x12, calls <- x13

(* The public source connectors. *)
Connector == INSTANCE PublicSources WITH
  Urls <- {1, 2, 3}, Host <- <<1, 1, 2>>, MaxDepth <- 2, MaxURLsPerSource <- 2,
  MaxURLsPerRun <- 2, Budget <- 4, MaxQueries <- 1, MaxRepos <- 1, MaxTrees <- 1,
  MaxReleases <- 1, MaxRuns <- 2, phase <- x1, queries <- x2, trees <- x3,
  releases <- x4, repos <- x5, next <- x6, pending <- x7, seen <- x8,
  fetched <- x9, cooled <- x10, item <- x11, requests <- x12, cooling <- x13,
  sent <- x14, entries <- x15, ledger <- x16, runs <- x17

(* Verification of a tunnel by a quorum of targets. *)
Verifier == INSTANCE Verify WITH
  Targets <- {1, 2, 3}, Requested <- 0, round <- x1, probing <- x2, last <- x3,
  stands <- x4, attempts <- x5, expired <- x6, verdict <- x7

(* The guided start: detect, test, race, connect, verify. *)
Flow == INSTANCE StartFlow WITH
  Configs <- {1, 2}, MaxRacers <- 2, stage <- x1, manual <- x2, trusted <- x3,
  allowed <- x4, cancelled <- x5, nodes <- x6, ranked <- x7, racer <- x8,
  verified <- x9, collected <- x10, winner <- x11, left <- x12, dialed <- x13,
  session <- x14, result <- x15

(* Automatic recovery of a failed session. *)
Watcher == INSTANCE Recovery WITH
  Candidates <- {1, 2}, Trusted <- {1, 2}, MaxAttempts <- 2, MaxEpisodes <- 2,
  watching <- x1, cancelled <- x2, loop <- x3, stop <- x4, process <- x5,
  conn <- x6, episode <- x7, episodes <- x8, ended <- x9, failures <- x10,
  cooled <- x11, excluded <- x12, left <- x13, outcome <- x14, spent <- x15,
  rearmed <- x16, enabled <- x17

(* Boot, ingestion cycle and shutdown of the application. *)
Boot == INSTANCE Lifecycle WITH
  MaxCycles <- 2, main <- x1, held <- x2, phases <- x3,
  status <- x4, cycle <- x5, ingesting <- x6, cycles <- x7, worker <- x8,
  seen <- x9, queue <- x10, watch <- x11, tunnel <- x12, session <- x13,
  call <- x14, cancelled <- x15, shut <- x16, late <- x17

(* The ingest pipeline and its memory of document hashes. *)
Pipeline == INSTANCE Ingest WITH
  Sources <- {1, 2}, Managed <- {1}, Changing <- {1}, MaxVersion <- 2,
  Workers <- 1, QueueSize <- 1, BatchSize <- 2, MaxRuns <- 2, upstream <- x1,
  enabled <- x2, hashes <- x3, file <- x4, stored <- x5, run <- x6, base <- x7,
  stage <- x8, got <- x9, fresh <- x10, left <- x11, seen <- x12, batch <- x13,
  cancelled <- x14, lost <- x15, runs <- x16

(* The operations of the store, its back-pressure and its Close. *)
Drain == INSTANCE StoreOps WITH
  Callers <- {1, 2}, MaxFrozen <- 1, TableRecords <- 1, MaxCalls <- 3,
  MaxFaults <- 1, closed <- x1, gate <- x2, closer <- x3, caller <- x4,
  active <- x5, frozen <- x6, flushing <- x7, wake <- x8, retry <- x9,
  err <- x10, worker <- x11, calls <- x12, faults <- x13, forced <- x14

(* The snapshot of the group counts. *)
Counts == INSTANCE GroupCounts WITH
  Configs <- {1}, Callers <- {1, 2}, MaxChanges <- 2, record <- x1,
  favorites <- x2, rev <- x3, snap <- x4, dropping <- x5, caller <- x6, changes <- x7

-----------------------------------------------------------------------------
(* Of the variables from the n-th on: they are 0 at first, and stay so. *)
Zero17 == x17 = 0
From17 == <<x17>>
Zero16 == x16 = 0 /\ Zero17
From16 == <<x16, From17>>
Zero15 == x15 = 0 /\ Zero16
From15 == <<x15, From16>>
Zero14 == x14 = 0 /\ Zero15
From14 == <<x14, From15>>
Zero13 == x13 = 0 /\ Zero14
From13 == <<x13, From14>>
Zero12 == x12 = 0 /\ Zero13
From12 == <<x12, From13>>
Zero11 == x11 = 0 /\ Zero12
From11 == <<x11, From12>>
Zero10 == x10 = 0 /\ Zero11
From10 == <<x10, From11>>
Zero9 == x9 = 0 /\ Zero10
From9 == <<x9, From10>>
Zero8 == x8 = 0 /\ Zero9
From8 == <<x8, From9>>
Zero7 == x7 = 0 /\ Zero8
From7 == <<x7, From8>>
Zero6 == x6 = 0 /\ Zero7
From6 == <<x6, From7>>
Zero5 == x5 = 0 /\ Zero6
From5 == <<x5, From6>>
Zero4 == x4 = 0 /\ Zero5
From4 == <<x4, From5>>

Init ==
  \/ part = "Publisher" /\ Publisher!Init /\ Zero9
  \/ part = "Flight" /\ Flight!Init /\ Zero4
  \/ part = "Cycles" /\ Cycles!Init /\ Zero9
  \/ part = "Engine" /\ Engine!Init
  \/ part = "Tool" /\ Tool!Init /\ Zero8
  \/ part = "Transfer" /\ Transfer!Init /\ Zero14
  \/ part = "Connector" /\ Connector!Init
  \/ part = "Verifier" /\ Verifier!Init /\ Zero8
  \/ part = "Flow" /\ Flow!Init /\ Zero16
  \/ part = "Watcher" /\ Watcher!Init
  \/ part = "Boot" /\ Boot!Init
  \/ part = "Pipeline" /\ Pipeline!Init /\ Zero17
  \/ part = "Counts" /\ Counts!Init /\ Zero8
  \/ part = "Drain" /\ Drain!Init /\ Zero15

Next ==
  \/ part = "Publisher" /\ Publisher!Next /\ UNCHANGED <<part, From9>>
  \/ part = "Flight" /\ Flight!Next /\ UNCHANGED <<part, From4>>
  \/ part = "Cycles" /\ Cycles!Next /\ UNCHANGED <<part, From9>>
  \/ part = "Engine" /\ Engine!Next /\ UNCHANGED part
  \/ part = "Tool" /\ Tool!Next /\ UNCHANGED <<part, From8>>
  \/ part = "Transfer" /\ Transfer!Next /\ UNCHANGED <<part, From14>>
  \/ part = "Connector" /\ Connector!Next /\ UNCHANGED part
  \/ part = "Verifier" /\ Verifier!Next /\ UNCHANGED <<part, From8>>
  \/ part = "Flow" /\ Flow!Next /\ UNCHANGED <<part, From16>>
  \/ part = "Watcher" /\ Watcher!Next /\ UNCHANGED part
  \/ part = "Boot" /\ Boot!Next /\ UNCHANGED part
  \/ part = "Pipeline" /\ Pipeline!Next /\ UNCHANGED <<part, From17>>
  \/ part = "Counts" /\ Counts!Next /\ UNCHANGED <<part, From8>>
  \/ part = "Drain" /\ Drain!Next /\ UNCHANGED <<part, From15>>

(* The fair actions of a part, in the slots.  A Publisher, an Engine and a *)
(* Drain take finitely many steps: fairness of each of their goroutines is *)
(* the same as fairness of all of them together.                           *)
Slot1 ==
  \/ part = "Publisher" /\ Publisher!Goroutines /\ UNCHANGED <<part, From9>>
  \/ part = "Flight" /\ Flight!Runs(1) /\ UNCHANGED <<part, From4>>
  \/ part = "Cycles" /\ Cycles!Loop /\ UNCHANGED <<part, From9>>
  \/ part = "Tool" /\ Tool!Going /\ UNCHANGED <<part, From8>>
  \/ part = "Transfer" /\ Transfer!Step /\ UNCHANGED <<part, From14>>
  \/ part = "Connector" /\ Connector!Step /\ UNCHANGED part
  \/ part = "Verifier" /\ Verifier!Step /\ UNCHANGED <<part, From8>>
  \/ part = "Flow" /\ Flow!Flow /\ UNCHANGED <<part, From16>>
  \/ part = "Watcher" /\ Watcher!Watch /\ UNCHANGED part
  \/ part = "Pipeline" /\ Pipeline!Work /\ UNCHANGED <<part, From17>>
  \/ part = "Counts" /\ Counts!Expire /\ UNCHANGED <<part, From8>>
  \/ part = "Drain" /\ Drain!Goroutines /\ UNCHANGED <<part, From15>>
  \/ part = "Engine" /\ Engine!Goroutines /\ UNCHANGED part
  \/ part = "Boot" /\ Boot!MainGoes /\ UNCHANGED part

Slot2 ==
  \/ part = "Flight" /\ Flight!Runs(2) /\ UNCHANGED <<part, From4>>
  \/ part = "Cycles" /\ Cycles!First /\ UNCHANGED <<part, From9>>
  \/ part = "Flow" /\ Flow!Core(1) /\ UNCHANGED <<part, From16>>
  \/ part = "Watcher" /\ Watcher!StopJoined /\ UNCHANGED part
  \/ part = "Counts" /\ Counts!Drop /\ UNCHANGED <<part, From8>>
  \/ part = "Boot" /\ Boot!Verifying /\ UNCHANGED part

Slot3 ==
  \/ part = "Flight" /\ Flight!Runs(3) /\ UNCHANGED <<part, From4>>
  \/ part = "Cycles" /\ Cycles!StopReturns /\ UNCHANGED <<part, From9>>
  \/ part = "Flow" /\ Flow!Core(2) /\ UNCHANGED <<part, From16>>
  \/ part = "Counts" /\ Counts!Returns(1) /\ UNCHANGED <<part, From8>>
  \/ part = "Boot" /\ Boot!Warming /\ UNCHANGED part

Slot4 ==
  \/ part = "Flight" /\ Flight!Returns(1) /\ UNCHANGED <<part, From4>>
  \/ part = "Counts" /\ Counts!Returns(2) /\ UNCHANGED <<part, From8>>
  \/ part = "Boot" /\ Boot!CycleGoes /\ UNCHANGED part

Slot5 ==
  \/ part = "Flight" /\ Flight!Returns(2) /\ UNCHANGED <<part, From4>>
  \/ part = "Boot" /\ Boot!Enable /\ UNCHANGED part

Slot6 ==
  \/ part = "Flight" /\ Flight!Returns(3) /\ UNCHANGED <<part, From4>>
  \/ part = "Boot" /\ Boot!ShutdownStep /\ UNCHANGED part

Fairness ==
  /\ WF_vars(Slot1) /\ WF_vars(Slot2) /\ WF_vars(Slot3)
  /\ WF_vars(Slot4) /\ WF_vars(Slot5) /\ WF_vars(Slot6)

Spec == Init /\ [][Next]_vars /\ Fairness

-----------------------------------------------------------------------------
(* The types of every part. *)
TypeOK ==
  /\ part = "Publisher" => Publisher!TypeOK
  /\ part = "Flight"    => Flight!TypeOK
  /\ part = "Cycles"    => Cycles!TypeOK
  /\ part = "Engine"    => Engine!TypeOK
  /\ part = "Tool"      => Tool!TypeOK
  /\ part = "Transfer"  => Transfer!TypeOK
  /\ part = "Connector" => Connector!TypeOK
  /\ part = "Verifier"  => Verifier!TypeOK
  /\ part = "Flow"      => Flow!TypeOK
  /\ part = "Watcher"   => Watcher!TypeOK
  /\ part = "Boot"      => Boot!TypeOK
  /\ part = "Pipeline"  => Pipeline!TypeOK
  /\ part = "Counts"    => Counts!TypeOK
  /\ part = "Drain"     => Drain!TypeOK

(* Concurrent steps keep their order.  A Stop that returned delivered the  *)
(* newest state, and states go out in order; one execution of a key runs,  *)
(* registered; cycles do not overlap, and a stopped scheduler is drained,  *)
(* a delayed first cycle excepted; the engine is only "stopped" when no    *)
(* handler, flow or registration is left, and a clean stop is not a        *)
(* failure; the manager connects after the race's cores are gone; a failed *)
(* boot holds nothing but the publisher's goroutine, and the store closes  *)
(* last, without an operation running or a table left.                     *)
Orderly ==
  /\ part = "Publisher" => Publisher!StopDeliversNewest /\ Publisher!NewestQueued
  /\ part = "Flight"    => Flight!OneExecution /\ Flight!RegisteredRuns
  /\ part = "Cycles"    => Cycles!OneCycle /\ Cycles!StopDrained
  /\ part = "Engine"    => Engine!WaitDrained /\ Engine!CleanStop
  /\ part = "Flow"      => Flow!RaceSettled
  /\ part = "Boot"      => Boot!BootUnwinds /\ Boot!StopsInOrder
  /\ part = "Drain"     => Drain!CloseQuiet

(* What is reported, kept or tried is backed by what happened, within the  *)
(* limits.  A tool's status by its probes; a finished download by the      *)
(* asset's bytes, a resumed one by a prefix; "verified" by a quorum; a     *)
(* remembered hash by stored records; served counts by the data; a racer,  *)
(* a dial or a retry by trust and the failure memory; sessions, flows,     *)
(* queued URLs, pending tables and attempts by their budgets.              *)
Backed ==
  /\ part = "Engine"    => Engine!SessionsBounded
  /\ part = "Tool"      => Tool!StatusBacked /\ Tool!CancelledEnded
  /\ part = "Transfer"  => Transfer!Exact /\ Transfer!Resumable
  /\ part = "Connector" => Connector!QueueBounded
  /\ part = "Verifier"  => Verifier!QuorumBacked /\ Verifier!LastingStands
  /\ part = "Flow"      => Flow!TrustKept
  /\ part = "Watcher"   => Watcher!RetriesBounded /\ Watcher!DialsEligible
  /\ part = "Pipeline"  => Pipeline!Ingested
  /\ part = "Counts"    => Counts!SnapshotSound
  /\ part = "Drain"     => Drain!PendingBounded

(* What begins and what it comes to, up to two obligations for a part (the *)
(* callers of a shared call and of the group counts are alike, so one of   *)
(* them is followed): an undelivered state is delivered; a caller returns; *)
(* a Stop of the scheduler returns, and a started one runs a cycle; a      *)
(* stopped engine drains; a tool, a download, a run of connectors, a       *)
(* verification, an ingest run and a guided start end, and every core of a *)
(* race is closed; recovery attends to a failed session and can be         *)
(* stopped; a boot ends, and so does a shutdown that meets no sing-box     *)
(* session; a call for the group counts returns and counts that have       *)
(* become wrong are replaced; a call of the store returns, and so does its *)
(* Close unless a Compact waits for the gate it holds (README, section 6). *)
Pending(i) ==
  \/ part = "Publisher" /\ i = 1 /\ Publisher!Due
  \/ part = "Flight"    /\ i = 1 /\ Flight!Due(1)
  \/ part = "Cycles"    /\ Cycles!Due(i)
  \/ part = "Engine"    /\ i = 1 /\ Engine!Due
  \/ part = "Tool"      /\ i = 1 /\ Tool!Due
  \/ part = "Transfer"  /\ i = 1 /\ Transfer!Due
  \/ part = "Connector" /\ i = 1 /\ Connector!Due
  \/ part = "Verifier"  /\ i = 1 /\ Verifier!Due
  \/ part = "Flow"      /\ Flow!Due(i)
  \/ part = "Watcher"   /\ Watcher!Due(i)
  \/ part = "Boot"      /\ Boot!Due(i)
  \/ part = "Pipeline"  /\ i = 1 /\ Pipeline!Due
  \/ part = "Counts"    /\ Counts!Due(i - 1)
  \/ part = "Drain"     /\ i = 1 /\ Drain!Due

Served(i) ==
  \/ part = "Publisher" /\ i = 1 /\ Publisher!Met
  \/ part = "Flight"    /\ i = 1 /\ Flight!Met(1)
  \/ part = "Cycles"    /\ Cycles!Met(i)
  \/ part = "Engine"    /\ i = 1 /\ Engine!Met
  \/ part = "Tool"      /\ i = 1 /\ Tool!Met
  \/ part = "Transfer"  /\ i = 1 /\ Transfer!Met
  \/ part = "Connector" /\ i = 1 /\ Connector!Met
  \/ part = "Verifier"  /\ i = 1 /\ Verifier!Met
  \/ part = "Flow"      /\ Flow!Met(i)
  \/ part = "Watcher"   /\ Watcher!Met(i)
  \/ part = "Boot"      /\ Boot!Met(i)
  \/ part = "Pipeline"  /\ i = 1 /\ Pipeline!Met
  \/ part = "Counts"    /\ Counts!Met(i - 1)
  \/ part = "Drain"     /\ i = 1 /\ Drain!Met

Progress == \A i \in 1..2 : Pending(i) ~> Served(i)
=============================================================================
