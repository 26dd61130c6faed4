---------------------------- MODULE PublicSources ----------------------------
(***************************************************************************)
(* Public source discovery (engine/discovery github.go, connector.go,      *)
(* provenance.go, ratelimit.go and engine/app/discoverysources.go): the    *)
(* GitHub strategies feed a bounded queue of candidate URLs, the generic   *)
(* connector fetches them one by one, what a body refers to is queued      *)
(* again one level deeper, and the outcome replaces the staging ledger.    *)
(* Every request is accounted by a rate limiter that lives as long as the  *)
(* application.                                                            *)
(*                                                                         *)
(* A URL is a number (the queue sorts by URL) and lives on a host; the     *)
(* responses are every one the code tells apart.                           *)
(***************************************************************************)
EXTENDS Integers, Sequences, FiniteSets, SequencesExt

CONSTANTS Urls, Host,               \* the URLs, a set of numbers, and their hosts
          MaxDepth, MaxURLsPerSource, MaxURLsPerRun, Budget,
          MaxQueries, MaxRepos, MaxTrees, MaxReleases,
          MaxRuns

VARIABLES phase,      \* "idle", "repos", "code", "trees", "releases", "take", "fetch", "persist"
          queries, trees, releases,   \* what is left of the run's budgets
          repos, next,                \* the repositories found, the one inspected next
          pending, seen, fetched, cooled,   \* CandidateQueue
          item,                       \* the candidate being fetched
          requests, cooling,          \* the limiter's state for each provider
          sent,                       \* the requests sent in this run
          entries, ledger,            \* the run's entries, the staging ledger
          runs

queue == <<pending, seen, fetched, cooled, item>>
limiter == <<requests, cooling, sent>>
github == <<queries, trees, releases, repos, next>>
vars == <<phase, github, queue, limiter, entries, ledger, runs>>

Providers == {"github", "http"}

NoItem == [url |-> 0, depth |-> 0]

(***************************************************************************)
(* RateLimiter                                                             *)
(***************************************************************************)

(* Acquire refuses during a cooldown and when the budget is spent. *)
Acquires(p) == ~cooling[p] /\ requests[p] < Budget

(* Observe: a status the client reports as 403 starts a cooldown.  A 429   *)
(* reaches it as a failed attempt without a status (StatusCodeOf), except  *)
(* where the generic connector recognises ErrRateLimited ("429long", the   *)
(* server asked for a wait too long to honour).                            *)
Observe(p, answer) ==
  /\ requests' = [requests EXCEPT ![p] = @ + 1]
  /\ sent' = [sent EXCEPT ![p] = @ + 1]
  /\ cooling' = [cooling EXCEPT ![p] =
                   \/ @
                   \/ answer = "403"
                   \/ p = "http" /\ answer = "429long"]

(* A request of the provider: not sent, or answered. *)
Outcomes == {"unsent", "ok", "403", "429", "429long", "network"}

Request(p, outcome) ==
  IF outcome = "unsent" THEN ~Acquires(p) /\ UNCHANGED limiter
  ELSE Acquires(p) /\ Observe(p, outcome)

(***************************************************************************)
(* CandidateQueue                                                          *)
(***************************************************************************)

(* A mutation of Admits: the pending ones are not counted. *)
AdmitsFetched(s) == Cardinality(fetched) < MaxURLsPerRun

Admits(s) == Cardinality(fetched) + Len(s.pending) < MaxURLsPerRun

(* Add: in URL order, at most MaxDepth deep, never a URL seen before, up   *)
(* to the run's budget.                                                    *)
Add(urls, depth) ==
  LET sorted == SetToSortSeq(urls, <)
      after[i \in 0..Len(sorted)] ==
        IF i = 0 THEN [pending |-> pending, seen |-> seen]
        ELSE LET s == after[i - 1]  u == sorted[i] IN
             IF depth <= MaxDepth /\ Admits(s) /\ u \notin s.seen
             THEN [pending |-> Append(s.pending, [url |-> u, depth |-> depth]),
                   seen |-> s.seen \cup {u}]
             ELSE s
  IN after[Len(sorted)]

Enqueue(urls, depth) ==
  LET s == Add(urls, depth) IN pending' = s.pending /\ seen' = s.seen

(* Take: the first candidate of a host that is not cooled down, or the     *)
(* first one.                                                              *)
TakeIndex ==
  LET free == {i \in 1..Len(pending) : Host[pending[i].url] \notin cooled} IN
  IF free # {} THEN CHOOSE i \in free : \A j \in free : i <= j ELSE 1

(***************************************************************************)
(* GitHubConnector.Run                                                     *)
(***************************************************************************)

(* Run of publicSourceDiscovery: a second call returns an error while one  *)
(* is running; the queue is new, the limiter is not.                       *)
Begin ==
  /\ phase = "idle" /\ runs < MaxRuns
  /\ runs' = runs + 1 /\ phase' = "repos"
  /\ queries' = MaxQueries /\ trees' = MaxTrees /\ releases' = MaxReleases
  /\ repos' = 0 /\ next' = 1
  /\ pending' = <<>> /\ seen' = {} /\ fetched' = {} /\ cooled' = {} /\ item' = NoItem
  /\ sent' = [p \in Providers |-> 0] /\ entries' = {}
  /\ UNCHANGED <<requests, cooling, ledger>>

(* Strategy A, SearchRepositories: a refusal of the limiter ends it, a     *)
(* failed query does not.                                                  *)
SearchRepositories ==
  /\ phase = "repos"
  /\ IF queries = 0 \/ repos >= MaxRepos
     THEN phase' = "code" /\ queries' = MaxQueries /\ UNCHANGED <<repos, limiter>>
     ELSE \E o \in Outcomes :
            /\ Request("github", o)
            /\ IF o = "unsent" THEN phase' = "code" /\ queries' = MaxQueries
               ELSE queries' = queries - 1 /\ UNCHANGED phase
            /\ \E n \in IF o = "ok" THEN 0..MaxRepos ELSE {0} :
                 repos' = IF repos + n > MaxRepos THEN MaxRepos ELSE repos + n
  /\ UNCHANGED <<trees, releases, next, queue, entries, ledger, runs>>

(* Strategy B, SearchCode: a hit names a known repository, one whose       *)
(* branch is missing (both dropped), or one more, past MaxRepos too.       *)
SearchCode ==
  /\ phase = "code"
  /\ IF queries = 0
     THEN phase' = "trees" /\ UNCHANGED <<queries, repos, limiter>>
     ELSE \E o \in Outcomes :
            /\ Request("github", o)
            /\ IF o = "unsent" THEN phase' = "trees" /\ UNCHANGED queries
               ELSE queries' = queries - 1 /\ UNCHANGED phase
            /\ \E hits \in IF o = "ok" THEN 0..1 ELSE {0} : repos' = repos + hits
  /\ UNCHANGED <<trees, releases, next, queue, entries, ledger, runs>>

(* Strategy C, InspectTree: the candidate paths of each repository (at     *)
(* most eight, by their score) enter the queue at depth 1.                 *)
InspectTree ==
  /\ phase = "trees"
  /\ IF trees = 0 \/ next > repos
     THEN phase' = "releases" /\ next' = 1 /\ UNCHANGED <<trees, pending, seen, limiter>>
     ELSE /\ next' = next + 1 /\ UNCHANGED phase
          /\ \E o \in Outcomes :
               /\ Request("github", o)
               /\ IF o # "ok" THEN UNCHANGED <<trees, pending, seen>>
                  ELSE trees' = trees - 1 /\ \E found \in SUBSET Urls : Enqueue(found, 1)
  /\ UNCHANGED <<queries, releases, repos, fetched, cooled, item, entries, ledger, runs>>

(* Strategy F, ReleaseAssets.  (Strategy G, gists, runs over seeds that     *)
(* the application does not give.)                                         *)
ReleaseAssets ==
  /\ phase = "releases"
  /\ IF releases = 0 \/ next > repos
     THEN phase' = "take" /\ next' = 1 /\ UNCHANGED <<releases, pending, seen, limiter>>
     ELSE /\ next' = next + 1 /\ UNCHANGED phase
          /\ \E o \in Outcomes :
               /\ Request("github", o)
               /\ IF o # "ok" THEN UNCHANGED <<releases, pending, seen>>
                  ELSE releases' = releases - 1 /\ \E u \in Urls : Enqueue({u}, 1)
  /\ UNCHANGED <<queries, trees, repos, fetched, cooled, item, entries, ledger, runs>>

(***************************************************************************)
(* The fetch loop                                                          *)
(***************************************************************************)
Take ==
  /\ phase = "take"
  /\ IF pending = <<>> \/ Cardinality(fetched) >= MaxURLsPerRun
     THEN phase' = "persist" /\ UNCHANGED queue
     ELSE LET i == TakeIndex  c == pending[i] IN
          /\ item' = c /\ phase' = "fetch"
          /\ pending' = RemoveAt(pending, i)
          /\ fetched' = fetched \cup {c.url}
          /\ cooled' = cooled \cup {Host[c.url]}
          /\ UNCHANGED seen
  /\ UNCHANGED <<github, limiter, entries, ledger, runs>>

(* ExtractReferencedCandidates: nothing from a candidate at MaxDepth, at   *)
(* most MaxURLsPerSource of the others.                                    *)
Refers == {r \in SUBSET Urls : Cardinality(r) <= MaxURLsPerSource
                               /\ (item.depth >= MaxDepth => r = {})}

(* Fetch: a body that is text and parses is an entry, and what it refers   *)
(* to is queued.                                                           *)
Fetch ==
  /\ phase = "fetch"
  /\ phase' = "take" /\ item' = NoItem
  /\ \E o \in Outcomes, parsed \in BOOLEAN :
       /\ Request("http", o)
       /\ IF o # "ok" \/ ~parsed THEN UNCHANGED <<pending, seen, entries>>
          ELSE /\ entries' = entries \cup {item.url}
               /\ \E refs \in Refers : Enqueue(refs, item.depth + 1)
  /\ UNCHANGED <<github, fetched, cooled, ledger, runs>>

(* A cancelled context ends the strategies and the loop; what was found is *)
(* persisted.                                                              *)
Cancel ==
  /\ phase \notin {"idle", "fetch", "persist"}
  /\ phase' = "persist"
  /\ UNCHANGED <<github, queue, limiter, entries, ledger, runs>>

(* The time budget ends the strategies, not the fetch loop. *)
Deadline ==
  /\ phase \in {"repos", "trees", "releases"}
  /\ phase' = "take"
  /\ UNCHANGED <<github, queue, limiter, entries, ledger, runs>>

(* persistStaged replaces the ledger. *)
Persist ==
  /\ phase = "persist"
  /\ \E saved \in BOOLEAN : ledger' = IF saved THEN entries ELSE ledger
  /\ phase' = "idle" /\ entries' = {}
  /\ pending' = <<>> /\ seen' = {} /\ fetched' = {} /\ cooled' = {} /\ UNCHANGED item
  /\ UNCHANGED <<github, limiter, runs>>

(* Time passes: a provider's cooldown and the hosts' end. *)
Cools ==
  /\ \E p \in Providers : cooling[p] /\ cooling' = [cooling EXCEPT ![p] = FALSE]
  /\ cooled' = {}
  /\ UNCHANGED <<phase, github, pending, seen, fetched, item, requests, sent, entries, ledger, runs>>

Init ==
  /\ phase = "idle" /\ queries = 0 /\ trees = 0 /\ releases = 0 /\ repos = 0 /\ next = 1
  /\ pending = <<>> /\ seen = {} /\ fetched = {} /\ cooled = {} /\ item = NoItem
  /\ requests = [p \in Providers |-> 0] /\ cooling = [p \in Providers |-> FALSE]
  /\ sent = [p \in Providers |-> 0]
  /\ entries = {} /\ ledger = {} /\ runs = 0

Step == SearchRepositories \/ SearchCode \/ InspectTree \/ ReleaseAssets \/ Take \/ Fetch \/ Persist

Next == Begin \/ Cancel \/ Deadline \/ Cools \/ Step

(* The run's goroutine keeps going. *)
Fairness == WF_vars(Step)

Spec == Init /\ [][Next]_vars /\ Fairness

(***************************************************************************)
(* Properties                                                              *)
(***************************************************************************)
TypeOK ==
  /\ phase \in {"idle", "repos", "code", "trees", "releases", "take", "fetch", "persist"}
  /\ seen \subseteq Urls /\ fetched \subseteq Urls /\ entries \subseteq Urls
  /\ ledger \subseteq Urls /\ repos \in Nat

(* What is queued and what was fetched together stay within the run's      *)
(* budget, nothing is queued twice or after it was fetched, and nothing    *)
(* lies deeper than the limit, however bodies refer to each other.         *)
QueueBounded ==
  /\ Cardinality(fetched) + Len(pending) <= MaxURLsPerRun
  /\ \A i \in 1..Len(pending) :
       /\ pending[i].url \in seen \ fetched /\ pending[i].depth <= MaxDepth
       /\ \A j \in 1..Len(pending) : i # j => pending[i].url # pending[j].url

(* A run ends. *)
Due == phase # "idle"
Met == phase = "idle"
PublicRunEnds == Due ~> Met

(* The budget is one of requests for each run: a run is refused requests   *)
(* for it only after it made that many itself.                             *)
(* The code does otherwise: TLC refutes this property (README, section 6). *)
BudgetPerRun ==
  phase # "idle" => \A p \in Providers : requests[p] >= Budget => sent[p] >= Budget
=============================================================================
