------------------------------ MODULE Platform ------------------------------
(***************************************************************************)
(* The parts of FreeIran that keep files, device state and caches in       *)
(* order.  They share no state with one another, so the specification is   *)
(* their sum: "part" says which of them the behaviour is one of, and the   *)
(* variables x1, x2, ... hold that part's state (those it does not need    *)
(* stay 0).  A property of the sum says of each part what that part's      *)
(* module states and explains.                                             *)
(***************************************************************************)
EXTENDS Integers, Sequences

VARIABLES part, x1, x2, x3, x4, x5, x6, x7, x8, x9, x10, x11, x12, x13, x14, x15

xs == <<x1, x2, x3, x4, x5, x6, x7, x8, x9, x10, x11, x12, x13, x14, x15>>
vars == <<part, xs>>

(* The upper limits of the booster: two or three steps each. *)
HighestLevels ==
  [t \in {"workers", "ingestion", "parser", "batch", "cache", "chunk", "depth"} |->
     IF t \in {"workers", "depth"} THEN 3 ELSE 2]

(* The system proxy and its ownership marker. *)
Proxy == INSTANCE ProxyOwner WITH
  platform <- x1, marker <- x2, saved <- x3,
  enabled <- x4, call <- x5, previous <- x6, recovery <- x7, mixed <- x8

(* The TUN dataplanes. *)
Tunnel == INSTANCE Tun WITH
  Entries <- 2, call <- x1, enabled <- x2, active <- x3, running <- x4,
  adapter <- x5, applied <- x6, undo <- x7, marker <- x8, status <- x9, mu <- x10

(* The core manager. *)
Cores == INSTANCE CoreManager WITH
  MaxInstalls <- 2, MaxPath <- 3, MaxFaults <- 1, file <- x1, mf <- x2, disk <- x3,
  op <- x4, staged <- x5, check <- x6, enrich <- x7, placed <- x8,
  faults <- x9

(* Connectivity checks and the environment analysis. *)
Analysis == INSTANCE NetCheck WITH
  TimeoutMemory <- 2, MaxAnalyses <- 3, task <- x1, probe <- x2, report <- x3,
  timeouts <- x4, env <- x5, streak <- x6, analyses <- x7, identity <- x8

(* The HTTP client with its document cache. *)
Http == INSTANCE Fetch WITH
  MaxRetries <- 1, MaxRedirects <- 2, MaxVersions <- 2, MaxFetches <- 2,
  MaxRetryAfterWait <- 2, BackoffBase <- 1, BackoffMax <- 2, pc <- x1,
  guarded <- x2, attempt <- x3, hops <- x4, failure <- x5, retried <- x6,
  waited <- x7, dialed <- x8, origin <- x9, atStart <- x10, etag <- x11,
  mem <- x12, file <- x13, got <- x14, fetches <- x15

(* Archive extraction. *)
Unpack == INSTANCE Archive WITH
  MaxFiles <- 2, MaxFileBytes <- 2, MaxTotalBytes <- 3, Entries <- 3, format <- x1,
  left <- x2, total <- x3, count <- x4, disk <- x5, wrote <- x6, outcome <- x7

(* The workspace migration at boot. *)
Move == INSTANCE Migration WITH
  MaxBoots <- 3, legacy <- x1, file <- x2, boot <- x3,
  at <- x4, copied <- x5, status <- x6, boots <- x7

(* The levelled candidate discovery. *)
Search == INSTANCE Discovery WITH
  Cycles <- {1, 2}, Sources <- {1}, Nodes <- {1, 2}, Refs <- {1},
  TargetCandidates <- 1, MaxProbes <- 1, MinSourceCandidates <- 2, MaxStreak <- 1,
  level <- x1, levels <- x2, pool <- x3, dedup <- x4, pendingRefs <- x5,
  found <- x6, searched <- x7, backoff <- x8, refused <- x9, health <- x10

(* The upgrade of the legacy log and the JSON import. *)
Format == INSTANCE Upgrade WITH
  Keys <- {1, 2}, BatchSize <- 2, MaxEntries <- 2, MaxBoots <- 2, MaxWrites <- 1,
  boot <- x1, log <- x2, origin <- x3, mem <- x4, disk <- x5,
  acked <- x6, json <- x7, entries <- x8, step <- x9, pos <- x10, batch <- x11,
  result <- x12, boots <- x13, writes <- x14, refused <- x15

(* Chunk files, their writers and VerifyAll. *)
ChunkDir == INSTANCE ChunkFiles WITH
  Writers <- {"flush", "compact"}, Chunks <- {1, 2}, Records <- 2, MaxDeaths <- 1,
  MaxDamage <- 1, writer <- x1, temp <- x2, orphans <- x3, file <- x4, map <- x5,
  retired <- x6, walk <- x7, deaths <- x8, damage <- x9

(* The tray, its menu and the setting behind it. *)
Menu == INSTANCE Tray WITH
  Callers <- {"c1"}, MaxSaves <- 2, MaxChanges <- 2, setting <- x1, disk <- x2,
  save <- x3, saves <- x4, mode <- x5, changes <- x6, sync <- x7, ui <- x8,
  tray <- x9, app <- x10

(* Memory pressure, booster and cleanup. *)
Memory == INSTANCE Pressure WITH
  Usages <- {30, 50, 65, 80, 90}, Highest <- HighestLevels, Override <- 0,
  usage <- x1, state <- x2, listener <- x3, target <- x4, level <- x5,
  settings <- x6, cooldown <- x7, queue <- x8, old <- x9, pass <- x10, recent <- x11

(* Connection profiles and the settings they share. *)
Prefs == INSTANCE Profiles WITH
  Callers <- {1, 2}, Names <- {"a", "b"}, MaxId <- 2, Limit <- 2, MaxOps <- 4,
  profiles <- x1, active <- x2, default <- x3, next <- x4,
  future <- x5, file <- x6, settings <- x7, disk <- x8, save <- x9, call <- x10,
  owner <- x11, config <- x12, ops <- x13, raced <- x14

(* User groups, proxy chains and the manual order. *)
Groups == INSTANCE Collections WITH
  Configs <- {1, 2, 3}, Names <- {"a", "b"}, MaxId <- 2, MinHops <- 2,
  MaxHops <- 3, MaxOps <- 3, store <- x1, groups <- x2,
  next <- x3, future <- x4, file <- x5, order <- x6, orderFile <- x7, move <- x8,
  ops <- x9

(* The two result caches. *)
Results == INSTANCE Caches WITH
  Keys <- {1, 2, 3}, Generations <- {1, 2}, Weights <- {1, 2}, MaxEntries <- 2,
  MaxBytes <- 3, gen <- x1, generation <- x2, layer <- x3, limit <- x4,
  bytes <- x5, got <- x6

-----------------------------------------------------------------------------
(* Of the variables from the n-th on: they are 0 at first, and stay so. *)
Zero15 == x15 = 0
From15 == <<x15>>
Zero13 == x13 = 0 /\ x14 = 0 /\ Zero15
From13 == <<x13, x14, From15>>
Zero12 == x12 = 0 /\ Zero13
From12 == <<x12, From13>>
Zero11 == x11 = 0 /\ Zero12
From11 == <<x11, From12>>
Zero10 == x10 = 0 /\ Zero11
From10 == <<x10, From11>>
Zero9 == x9 = 0 /\ Zero10
From9 == <<x9, From10>>
Zero8 == x8 = 0 /\ Zero9
From8 == <<x8, From9>>
Zero7 == x7 = 0 /\ Zero8
From7 == <<x7, From8>>

Init ==
  \/ part = "Proxy" /\ Proxy!Init /\ Zero9
  \/ part = "Tunnel" /\ Tunnel!Init /\ Zero11
  \/ part = "Cores" /\ Cores!Init /\ Zero10
  \/ part = "Analysis" /\ Analysis!Init /\ Zero9
  \/ part = "Http" /\ Http!Init
  \/ part = "Unpack" /\ Unpack!Init /\ Zero8
  \/ part = "Move" /\ Move!Init /\ Zero8
  \/ part = "Search" /\ Search!Init /\ Zero11
  \/ part = "Format" /\ Format!Init
  \/ part = "ChunkDir" /\ ChunkDir!Init /\ Zero10
  \/ part = "Menu" /\ Menu!Init /\ Zero11
  \/ part = "Memory" /\ Memory!Init /\ Zero12
  \/ part = "Prefs" /\ Prefs!Init /\ Zero15
  \/ part = "Groups" /\ Groups!Init /\ Zero10
  \/ part = "Results" /\ Results!Init /\ Zero7

Next ==
  \/ part = "Proxy" /\ Proxy!Next /\ UNCHANGED <<part, From9>>
  \/ part = "Tunnel" /\ Tunnel!Next /\ UNCHANGED <<part, From11>>
  \/ part = "Cores" /\ Cores!Next /\ UNCHANGED <<part, From10>>
  \/ part = "Analysis" /\ Analysis!Next /\ UNCHANGED <<part, From9>>
  \/ part = "Http" /\ Http!Next /\ UNCHANGED part
  \/ part = "Unpack" /\ Unpack!Next /\ UNCHANGED <<part, From8>>
  \/ part = "Move" /\ Move!Next /\ UNCHANGED <<part, From8>>
  \/ part = "Search" /\ Search!Next /\ UNCHANGED <<part, From11>>
  \/ part = "Format" /\ Format!Next /\ UNCHANGED part
  \/ part = "ChunkDir" /\ ChunkDir!Next /\ UNCHANGED <<part, From10>>
  \/ part = "Menu" /\ Menu!Next /\ UNCHANGED <<part, From11>>
  \/ part = "Memory" /\ Memory!Next /\ UNCHANGED <<part, From12>>
  \/ part = "Prefs" /\ Prefs!Next /\ UNCHANGED <<part, From15>>
  \/ part = "Groups" /\ Groups!Next /\ UNCHANGED <<part, From10>>
  \/ part = "Results" /\ Results!Next /\ UNCHANGED <<part, From7>>

Spec == Init /\ [][Next]_vars

-----------------------------------------------------------------------------
(* The types of every part. *)
TypeOK ==
  /\ part = "Proxy"    => Proxy!TypeOK
  /\ part = "Tunnel"   => Tunnel!TypeOK
  /\ part = "Cores"    => Cores!TypeOK
  /\ part = "Analysis" => Analysis!TypeOK
  /\ part = "Http"     => Http!TypeOK
  /\ part = "Unpack"   => Unpack!TypeOK
  /\ part = "Move"     => Move!TypeOK
  /\ part = "Search"   => Search!TypeOK
  /\ part = "Format"   => Format!TypeOK
  /\ part = "Menu"     => Menu!TypeOK
  /\ part = "Memory"   => Memory!TypeOK
  /\ part = "Prefs"    => Prefs!TypeOK
  /\ part = "Groups"   => Groups!TypeOK
  /\ part = "Results"  => Results!TypeOK

(* What a crash, a failed step or an older program must not cost the user. *)
(* Our proxy setting is on the platform only with a marker that can undo   *)
(* it; a published sing-box session has a marker; an activated core binary *)
(* is always there, and only a verified archive is put in its place;       *)
(* "migrated" means every legacy file is whole in the workspace; a legacy  *)
(* record is in the store or still in its file, and what was acknowledged  *)
(* is served; a chunk under its name is whole; the sidecars of a newer     *)
(* program are not written over; the saved tray setting is the one in use. *)
Durable ==
  /\ part = "Proxy"    => Proxy!ProxyRecoverable
  /\ part = "Tunnel"   => Tunnel!ActiveMarked
  /\ part = "Cores"    => Cores!BinaryKept /\ Cores!OnlyVerifiedPlaced
  /\ part = "Move"     => Move!MigratedWhole
  /\ part = "Format"   => Format!LegacyKept /\ Format!NewerKept
  /\ part = "ChunkDir" => ChunkDir!ChunksWhole
  /\ part = "Menu"     => Menu!TrayFollows
  /\ part = "Prefs"    => Prefs!FutureKept
  /\ part = "Groups"   => Groups!FutureKept

(* What different steps and actors leave behind agrees.  A tunnel that is  *)
(* off left nothing behind; a fetched document is not older than the fetch *)
(* and a guarded client dialed no private address; no file is extracted    *)
(* outside its destination; the ladder explains the verdict and the advice *)
(* fits the signals; a pool holds a node once; profiles, their markers and *)
(* the settings agree however calls interleave; chains keep valid hops;    *)
(* neither cache returns a value of another generation; the store's level  *)
(* and the queue's gate follow the pressure.                               *)
Consistent ==
  /\ part = "Tunnel"   => Tunnel!TunOffClean
  /\ part = "Http"     => Http!FreshDocument /\ Http!GuardedDials
  /\ part = "Unpack"   => Unpack!Contained
  /\ part = "Analysis" => Analysis!LadderExplains /\ Analysis!AdviceSound
  /\ part = "Search"   => Search!PoolDistinct
  /\ part = "Prefs"    => Prefs!ProfilesSound /\ Prefs!Coherent /\ Prefs!SettingsAgree
  /\ part = "Groups"   => Groups!ChainsSound
  /\ part = "Results"  => Results!HitsCurrent
  /\ part = "Memory"   => Memory!Banded /\ Memory!GateMatches

(* Limits hold through every history: the wait a server may ask for, the   *)
(* bytes of an extraction, the entries and bytes of the caches, the        *)
(* tunables of the booster.                                                *)
WithinBounds ==
  /\ part = "Http"     => Http!WaitBounded
  /\ part = "Unpack"   => Unpack!BudgetKept
  /\ part = "Results"  => Results!Bounded
  /\ part = "Memory"   => Memory!WithinLimits

(* What a step may never do: a failed install change a working core, a     *)
(* late enrichment revive a core found broken, a cycle widen a pool that   *)
(* meets its target, a sample inside the band change the pressure level, a *)
(* move of one configuration reorder two others.                           *)
NeverUndone ==
  [][/\ part = "Cores"  => Cores!FailedInstallHarmlessStep /\ Cores!EnrichmentHarmlessStep
     /\ part = "Search" => Search!TargetStopsStep
     /\ part = "Memory" => Memory!NoFlappingStep
     /\ part = "Groups" => Groups!OnlyOneMovesStep]_vars
=============================================================================
