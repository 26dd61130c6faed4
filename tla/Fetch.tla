-------------------------------- MODULE Fetch --------------------------------
(***************************************************************************)
(* A control-plane GET (internal/httpx policy.go, ssrf.go) and the release *)
(* document it fetches through the persisted metadata cache (cache.go,     *)
(* coremgr/release.go): bounded attempts with backoff, the checks a        *)
(* guarded client makes before a request, on every redirect and on every   *)
(* dialled address, and the conditional request with the cached ETag.      *)
(*                                                                         *)
(* The origin's document is its version, and its ETag too.  One fetch per  *)
(* URL runs at a time (module SingleFlight).                               *)
(***************************************************************************)
EXTENDS Integers

CONSTANTS MaxRetries, MaxRedirects, MaxVersions, MaxFetches,
          MaxRetryAfterWait, BackoffBase, BackoffMax

VARIABLES pc,        \* "idle", "send", "connected", "wait"
          guarded,   \* the client is NewSSRFClient's
          attempt, hops,
          failure,   \* the last attempt's error, with its Retry-After
          retried,   \* the errors that were retried
          waited,    \* the longest wait between attempts
          dialed,    \* the addresses connected to
          origin, atStart,
          etag,      \* If-None-Match
          mem, file, \* the cache entry in memory and on disk, 0 for none
          got,       \* the document returned, 0 for an error
          fetches

vars == <<pc, guarded, attempt, hops, failure, retried, waited, dialed, origin, atStart, etag,
          mem, file, got, fetches>>

NoFailure == [kind |-> "none", after |-> 0]

Done(v) == pc' = "idle" /\ got' = v

(* fetchReleaseDocumentOnce reads the ETag, and Get's preGet validates the *)
(* URL of a guarded client.                                                *)
Start ==
  /\ pc = "idle" /\ fetches < MaxFetches
  /\ fetches' = fetches + 1 /\ atStart' = origin /\ etag' = mem
  /\ attempt' = 0 /\ hops' = 0 /\ failure' = NoFailure
  /\ retried' = {} /\ waited' = 0 /\ dialed' = {}
  /\ \E g \in BOOLEAN, valid \in BOOLEAN :
       /\ guarded' = g
       /\ IF g /\ ~valid THEN Done(0) ELSE pc' = "send" /\ got' = 0
  /\ UNCHANGED <<origin, mem, file>>

(* retryableErr: a retryable status, and every error of the transport but  *)
(* a cancelled context, since each is a *url.Error and so a net.Error.     *)
Transient(kind) == kind \notin {"cancelled", "status", "tooLarge"}

(* A mutation of TriesLeft: one attempt too many. *)
TriesLeftPlusOne == attempt <= MaxRetries

TriesLeft == attempt < MaxRetries

(* A mutation of Fails: the cached document stands in for the error. *)
FailsStale(f) == Done(mem) /\ failure' = f /\ UNCHANGED retried

(* The attempt failed: one more, or the call's error. *)
Fails(f) ==
  IF Transient(f.kind) /\ TriesLeft
  THEN /\ pc' = "wait" /\ failure' = f /\ retried' = retried \cup {f.kind} /\ UNCHANGED got
  ELSE Done(0) /\ failure' = f /\ UNCHANGED retried

(* ssrfDialControl on the address the name resolved to. *)
Dial ==
  /\ pc = "send"
  /\ \E address \in {"public", "private"}, up \in BOOLEAN :
       IF guarded /\ address = "private" THEN Fails([kind |-> "restricted", after |-> 0]) /\ UNCHANGED dialed
       ELSE IF ~up THEN Fails([kind |-> "network", after |-> 0]) /\ UNCHANGED dialed
       ELSE /\ pc' = "connected" /\ dialed' = dialed \cup {address}
            /\ UNCHANGED <<failure, retried, got>>
  /\ UNCHANGED <<guarded, attempt, hops, waited, origin, atStart, etag, mem, file, fetches>>

(* A redirect: CheckRedirect counts the hops and validates the target. *)
Redirect ==
  /\ pc = "connected"
  /\ \E valid \in BOOLEAN :
       IF hops + 1 >= MaxRedirects \/ (guarded /\ ~valid)
       THEN Fails([kind |-> "redirect", after |-> 0]) /\ UNCHANGED hops
       ELSE pc' = "send" /\ hops' = hops + 1 /\ UNCHANGED <<failure, retried, got>>
  /\ UNCHANGED <<guarded, attempt, waited, dialed, origin, atStart, etag, mem, file, fetches>>

(* getOnce's errors after the connection. *)
AttemptFails ==
  /\ pc = "connected"
  /\ \E f \in [kind : {"network", "status", "tooLarge", "cancelled"}, after : {0}]
              \cup [kind : {"busy"}, after : 0..(MaxRetryAfterWait + 1)] : Fails(f)
  /\ UNCHANGED <<guarded, attempt, hops, waited, dialed, origin, atStart, etag, mem, file, fetches>>

(* 200: the body is stored with its ETag, in memory first and then on disk *)
(* through a temporary file, whose failure is dropped.                     *)
Answer200 ==
  /\ pc = "connected"
  /\ \E tagged \in BOOLEAN, written \in BOOLEAN :
       /\ mem' = IF tagged THEN origin ELSE mem
       /\ file' = IF tagged /\ written THEN origin ELSE file
  /\ Done(origin)
  /\ UNCHANGED <<guarded, attempt, hops, failure, retried, waited, dialed, origin, atStart, etag,
                 fetches>>

(* 304: the cached body, or an error without one. *)
Answer304 ==
  /\ pc = "connected" /\ etag # 0 /\ etag = origin
  /\ Done(mem)
  /\ UNCHANGED <<guarded, attempt, hops, failure, retried, waited, dialed, origin, atStart, etag,
                 mem, file, fetches>>

(* retryDelay: Retry-After when it is within the budget, an error when it  *)
(* is not, and a doubling backoff otherwise (with its jitter, at most a    *)
(* fifth more).                                                            *)
Backoff == LET d == BackoffBase * 2^(IF attempt > 2 THEN 2 ELSE attempt)
           IN IF d > BackoffMax THEN BackoffMax ELSE d

Wait ==
  /\ pc = "wait"
  /\ LET d == IF failure.after > 0 THEN failure.after ELSE Backoff IN
     \E cancelled \in BOOLEAN :
       IF failure.after > MaxRetryAfterWait \/ cancelled
       THEN Done(0) /\ UNCHANGED <<attempt, waited, hops>>
       ELSE /\ pc' = "send" /\ attempt' = attempt + 1 /\ hops' = 0
            /\ waited' = IF d > waited THEN d ELSE waited
            /\ UNCHANGED got
  /\ UNCHANGED <<guarded, failure, retried, dialed, origin, atStart, etag, mem, file, fetches>>

Publish ==
  /\ origin < MaxVersions /\ origin' = origin + 1
  /\ UNCHANGED <<pc, guarded, attempt, hops, failure, retried, waited, dialed, atStart, etag,
                 mem, file, got, fetches>>

(* The process restarts: NewMetaCache loads what is on disk, and drops an  *)
(* entry that does not decode.                                             *)
Restart ==
  /\ pc' = "idle" /\ got' = 0
  /\ \E decodes \in BOOLEAN : mem' = IF decodes THEN file ELSE 0
  /\ file' = mem'
  /\ UNCHANGED <<guarded, attempt, hops, failure, retried, waited, dialed, origin, atStart, etag,
                 fetches>>

Init ==
  /\ pc = "idle" /\ guarded = FALSE /\ attempt = 0 /\ hops = 0 /\ failure = NoFailure
  /\ retried = {} /\ waited = 0 /\ dialed = {} /\ origin = 1 /\ atStart = 1
  /\ etag = 0 /\ mem = 0 /\ file = 0 /\ got = 0 /\ fetches = 0

Next == Start \/ Dial \/ Redirect \/ AttemptFails \/ Answer200 \/ Answer304 \/ Wait
        \/ Publish \/ Restart

Spec == Init /\ [][Next]_vars

(***************************************************************************)
(* Properties                                                              *)
(***************************************************************************)
TypeOK ==
  /\ pc \in {"idle", "send", "connected", "wait"}
  /\ attempt \in 0..MaxRetries /\ hops \in 0..MaxRedirects
  /\ mem \in 0..MaxVersions /\ file \in 0..MaxVersions /\ got \in 0..MaxVersions

(* The document a fetch returns is not older than what the origin          *)
(* published before the fetch began: a failed request is an error and      *)
(* never yesterday's document, whatever is cached and across restarts.     *)
FreshDocument == got # 0 => got >= atStart

(* No wait is longer than the budget, whatever the server asks for. *)
WaitBounded == waited <= MaxRetryAfterWait

(* A guarded client connects to public addresses only, after redirects and *)
(* on retries too.                                                         *)
GuardedDials == guarded /\ pc # "idle" => "private" \notin dialed

(* Only transient network errors and busy statuses are retried. *)
(* The code does otherwise: TLC refutes this property (README, section 6). *)
RetriesTransient == retried \subseteq {"network", "busy"}
=============================================================================
