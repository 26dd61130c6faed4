------------------------------ MODULE Discovery ------------------------------
(***************************************************************************)
(* The discovery engine (engine/discovery discovery.go, search.go and      *)
(* health.go): one cycle gathers nodes level by level (known, configured   *)
(* sources, search, references found in contents, recovery, deep), every   *)
(* level adding only what no earlier one found, and stops widening when    *)
(* the pool is large enough.  Cycles share one engine: the searcher's      *)
(* cache and back-off, the sources' health and the references found last.  *)
(* DiscoverNow and the start flow may run a cycle at the same time.        *)
(*                                                                         *)
(* A body is the set of fingerprints it parses into; a reference is a URL. *)
(***************************************************************************)
EXTENDS Integers, Sequences, FiniteSets, SequencesExt

CONSTANTS Cycles, Sources, Nodes, Refs,
          TargetCandidates, MaxProbes, MinSourceCandidates, MaxStreak

VARIABLES level,      \* the level each cycle runs next
          levels,     \* the LevelSet of each cycle
          pool, dedup,      \* the nodes each cycle has found, and their fingerprints
          pendingRefs,      \* Engine.pendingContentRefs
          found,      \* the references of each cycle's own contents
          searched,   \* the searcher's cache: "none" or the repositories found
          backoff, refused, \* backed off; the API has refused for its rate
          health            \* the consecutive failures of each source

vars == <<level, levels, pool, dedup, pendingRefs, found, searched, backoff, refused, health>>

(* The level sets of the application, and "all" with ForceAll, which only  *)
(* the tests ask for.                                                      *)
Levels == {"standard", "full", "deep", "all"}

Has(c, what) == \/ levels[c] \in {"deep", "all"}
                \/ levels[c] = "full" /\ what \in {"search", "content"}

TargetMet(c) == Len(pool[c]) >= TargetCandidates

(* A mutation of Gathered: the fingerprints of a body are not remembered. *)
GatheredForgets(c, bodies) ==
  [dedup |-> dedup[c],
   pool |-> pool[c] \o FoldSeq(LAMBDA b, s : s \o SetToSeq(b \ dedup[c]), <<>>, bodies)]

(* What bodies, read one after the other, add to a cycle's pool. *)
Gathered(c, bodies) ==
  LET after[i \in 0..Len(bodies)] ==
        IF i = 0 THEN [dedup |-> dedup[c], pool |-> pool[c]]
        ELSE [dedup |-> after[i-1].dedup \cup bodies[i],
              pool |-> after[i-1].pool \o SetToSeq(bodies[i] \ after[i-1].dedup)]
  IN after[Len(bodies)]

Adds(c, bodies) ==
  LET g == Gathered(c, bodies) IN
  pool' = [pool EXCEPT ![c] = g.pool] /\ dedup' = [dedup EXCEPT ![c] = g.dedup]

Bodies == SUBSET Nodes

(* Levels 1: the known configurations that are valid. *)
Cached(c) ==
  /\ level[c] = "cached"
  /\ level' = [level EXCEPT ![c] = "sources"]
  /\ \E known \in Bodies : Adds(c, <<known>>)
  /\ UNCHANGED <<levels, pendingRefs, found, searched, backoff, refused, health>>

(* RecordFetch: the streak of failures a source is ranked by. *)
Recorded(h, ok) == IF ok THEN 0 ELSE IF h < MaxStreak THEN h + 1 ELSE h

(* Rank: the sources in back-off last, none left out. *)
Rank == SetToSortSeq(Sources, LAMBDA a, b : \/ health[a] < health[b]
                                            \/ health[a] = health[b] /\ a < b)

(* fetchSourcesLevel: every source is fetched, the bodies that parse join  *)
(* the pool, and the references found replace the engine's.                *)
FetchSources(c) ==
  /\ level[c] = "sources"
  /\ level' = [level EXCEPT ![c] = "search"]
  /\ \E ok \in SUBSET Sources : \E body \in [ok -> Bodies] : \E refs \in SUBSET Refs :
       /\ health' = [s \in Sources |-> Recorded(health[s], s \in ok)]
       /\ Adds(c, [i \in 1..Cardinality(Sources) |->
                     IF Rank[i] \in ok THEN body[Rank[i]] ELSE {}])
       /\ LET own == IF \E s \in ok : body[s] # {} THEN refs ELSE {} IN
          pendingRefs' = own /\ found' = [found EXCEPT ![c] = own]
  /\ UNCHANGED <<levels, searched, backoff, refused>>

(* searchOne: a cached answer, or one request.  The client returns an      *)
(* error for 403 and 429, so that the branch for them is never reached.    *)
SearchOne ==
  IF searched # "none"
  THEN UNCHANGED <<searched, backoff, refused>>
  ELSE \E answer \in {"ok", "limit", "error"} :
         /\ searched' = IF answer = "ok" THEN "repos" ELSE searched
         /\ refused' = (refused \/ answer = "limit")
         /\ UNCHANGED backoff

(* searchLevel: nothing while backed off or when every query fails; the    *)
(* probed files that yield enough join the pool.                           *)
SearchLevel(c, deep) ==
  IF backoff THEN UNCHANGED <<pool, dedup, searched, backoff, refused>>
  ELSE /\ SearchOne
       /\ IF searched' = "none" THEN UNCHANGED <<pool, dedup>>
          ELSE \E probed \in [1..MaxProbes -> Bodies] :
                 /\ \A i \in 1..MaxProbes :
                      probed[i] = {} \/ deep \/ Cardinality(probed[i]) >= MinSourceCandidates
                 /\ Adds(c, probed)

(* A mutation of Widens: the target is not asked for. *)
WidensAlways(c, what) == Has(c, what)

(* A level that widens the pool runs only while the target is not met, or  *)
(* with ForceAll.                                                          *)
Widens(c, what) == Has(c, what) /\ (levels[c] = "all" \/ ~TargetMet(c))

Search(c) ==
  /\ level[c] = "search"
  /\ level' = [level EXCEPT ![c] = "content"]
  /\ IF Widens(c, "search") THEN SearchLevel(c, FALSE)
     ELSE UNCHANGED <<pool, dedup, searched, backoff, refused>>
  /\ UNCHANGED <<levels, pendingRefs, found, health>>

(* contentLevel: the first MaxProbes of the engine's references. *)
Content(c) ==
  /\ level[c] = "content"
  /\ level' = [level EXCEPT ![c] = "recovery"]
  /\ IF Widens(c, "content") /\ pendingRefs # {}
     THEN \E body \in Bodies : Adds(c, <<body>>)
     ELSE UNCHANGED <<pool, dedup>>
  /\ UNCHANGED <<levels, pendingRefs, found, searched, backoff, refused, health>>

Thin(c) == Len(pool[c]) < TargetCandidates \div 2

Recovery(c) ==
  /\ level[c] = "recovery"
  /\ level' = [level EXCEPT ![c] = "deep"]
  /\ IF Has(c, "recovery") /\ Thin(c) THEN SearchLevel(c, TRUE)
     ELSE UNCHANGED <<pool, dedup, searched, backoff, refused>>
  /\ UNCHANGED <<levels, pendingRefs, found, health>>

(* The deep level ends the cycle. *)
Deep(c) ==
  /\ level[c] = "deep"
  /\ level' = [level EXCEPT ![c] = "done"]
  /\ IF Has(c, "deep") THEN SearchLevel(c, TRUE)
     ELSE UNCHANGED <<pool, dedup, searched, backoff, refused>>
  /\ UNCHANGED <<levels, pendingRefs, found, health>>

(* The cache of the searcher expires. *)
Expires ==
  /\ searched # "none" /\ searched' = "none"
  /\ UNCHANGED <<level, levels, pool, dedup, pendingRefs, found, backoff, refused, health>>

Init ==
  /\ level = [c \in Cycles |-> "cached"] /\ levels \in [Cycles -> Levels]
  /\ pool = [c \in Cycles |-> <<>>] /\ dedup = [c \in Cycles |-> {}]
  /\ pendingRefs = {} /\ found = [c \in Cycles |-> {}] /\ searched = "none"
  /\ backoff = FALSE /\ refused = FALSE
  /\ health = [s \in Sources |-> 0]

Cycle(c) == Cached(c) \/ FetchSources(c) \/ Search(c) \/ Content(c) \/ Recovery(c) \/ Deep(c)

Next == Expires \/ \E c \in Cycles : Cycle(c)

Spec == Init /\ [][Next]_vars

(***************************************************************************)
(* Properties                                                              *)
(***************************************************************************)
TypeOK ==
  /\ \A c \in Cycles : Range(pool[c]) \subseteq Nodes /\ dedup[c] \subseteq Nodes
  /\ searched \in {"none", "repos"} /\ backoff \in BOOLEAN

(* A cycle's pool holds every node once, whatever the levels find again,   *)
(* and whatever another cycle does on the same engine.                     *)
PoolDistinct ==
  \A c \in Cycles : IsInjective(pool[c]) /\ Range(pool[c]) = dedup[c]

(* A cycle that is neither deep nor forced does not widen a pool that      *)
(* meets the target.                                                       *)
TargetStopsStep ==
  \A c \in Cycles :
    levels[c] \notin {"deep", "all"} /\ TargetMet(c) /\ level[c] \notin {"cached", "sources"}
    => pool'[c] = pool[c]
TargetStops == [][TargetStopsStep]_vars

(* The content level follows the references of its own cycle's contents.   *)
(* The code does otherwise: TLC refutes this property (README, section 6). *)
RefsOfCycle == \A c \in Cycles : level[c] = "content" => pendingRefs = found[c]

(* A 403 or 429 from the API backs the whole searcher off. *)
(* The code does otherwise: TLC refutes this property (README, section 6). *)
SearchBacksOff == refused => backoff
=============================================================================
