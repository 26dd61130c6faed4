------------------------------- MODULE Caches -------------------------------
(***************************************************************************)
(* The two bounded caches of the engine: core/gencache.go, which keeps     *)
(* generated configurations of one generation of a backend, and the        *)
(* layers of cache/cache.go, least recently used first out, where every    *)
(* entry carries the generation it was made in.                            *)
(*                                                                         *)
(* A value is the generation of the data it was computed from.  A caller   *)
(* computes it before it calls Put, so the generation may have moved.      *)
(***************************************************************************)
EXTENDS Integers, Sequences, SequencesExt, FiniteSets

CONSTANTS
  Keys, Generations,
  Weights,     \* weights of values
  MaxEntries, MaxBytes

VARIABLES
  gen, generation,  \* GenCache: key -> value or NoValue, and the generation they belong to
  layer,            \* Layer: entries, most recently used first
  limit, bytes,     \* opts.MaxEntries, the sum of weights it keeps
  got               \* what the last Get returned and the generation it asked for

vars == <<gen, generation, layer, limit, bytes, got>>

NoValue == 0
Miss == [asked |-> NoValue, value |-> NoValue]
Expirable == {"fresh", "expired"}

Init ==
  /\ gen = [k \in Keys |-> NoValue] /\ generation = NoValue
  /\ layer = << >> /\ limit = MaxEntries /\ bytes = 0 /\ got = Miss

Held == {k \in Keys : gen[k] # NoValue}
Emptied == [k \in Keys |-> NoValue]
layerKept == UNCHANGED <<layer, limit, bytes>>

-----------------------------------------------------------------------------
(* GenCache.                                                               *)

\* Mutant of OfGeneration: the generation is not compared.
OfAnyGeneration(g) == gen
OfGeneration(g) == IF g = generation THEN gen ELSE Emptied

\* Get: another generation empties the cache; an entry whose time has run out is deleted.
GenGet(k, g) ==
  LET have == OfGeneration(g) IN
  /\ \E age \in Expirable :
       IF have[k] = NoValue \/ age = "expired"
       THEN gen' = [have EXCEPT ![k] = NoValue] /\ got' = Miss
       ELSE gen' = have /\ got' = [asked |-> g, value |-> have[k]]
  /\ generation' = g /\ layerKept

\* Put: arbitrary entries go while the cache is full.
GenPut(k, g) ==
  LET have == OfGeneration(g)
      full == {x \in Keys : have[x] # NoValue}
      over == Cardinality(full) - MaxEntries + 1
  IN /\ \E out \in SUBSET full :
          /\ Cardinality(out) = IF over > 0 THEN over ELSE 0
          /\ gen' = [x \in Keys |-> IF x = k THEN g ELSE IF x \in out THEN NoValue ELSE have[x]]
     /\ generation' = g /\ got' = Miss /\ layerKept

GenClear == gen' = Emptied /\ got' = Miss /\ UNCHANGED generation /\ layerKept

-----------------------------------------------------------------------------
(* Layer.                                                                  *)

genKept == UNCHANGED <<gen, generation>>
At(k) == {i \in DOMAIN layer : layer[i].key = k}
Without(k) == SelectSeq(layer, LAMBDA e : e.key # k)
WeightAt(k) == IF At(k) = {} THEN 0 ELSE layer[CHOOSE i \in At(k) : TRUE].weight
Sum(es) == FoldSeq(LAMBDA e, n : e.weight + n, 0, es)

\* evictOverflow: from the back while there are too many entries, or too many bytes and more
\* than one entry.  The result is the longest prefix that fits.
Fits(es, b, max) == (max > 0 => Len(es) <= max) /\ (b <= MaxBytes \/ Len(es) <= 1)
Evicted(es, b, max) ==
  LET after(n) == b - (Sum(es) - Sum(SubSeq(es, 1, n)))
      n == CHOOSE n \in 0 .. Len(es) :
             /\ Fits(SubSeq(es, 1, n), after(n), max)
             /\ \A m \in n + 1 .. Len(es) : ~Fits(SubSeq(es, 1, m), after(m), max)
  IN [es |-> SubSeq(es, 1, n), bytes |-> after(n)]

\* Get: an expired entry or one of another generation is removed; a hit moves to the front.
LayerGet(k, g) ==
  /\ IF At(k) = {} THEN layer' = layer /\ bytes' = bytes /\ got' = Miss
     ELSE LET e == layer[CHOOSE i \in At(k) : TRUE] IN
          \E age \in Expirable :
            IF age = "expired" \/ e.version # g
            THEN layer' = Without(k) /\ bytes' = bytes - e.weight /\ got' = Miss
            ELSE /\ layer' = <<e>> \o Without(k) /\ bytes' = bytes
                 /\ got' = [asked |-> g, value |-> e.version]
  /\ UNCHANGED limit /\ genKept

\* Mutant of Replaced: the weight of the value that is replaced stays counted.
ReplacedKept(k) == 0
Replaced(k) == WeightAt(k)

\* Put: replaces in place and moves to the front, or adds; then evicts.
LayerPut(k, g, w) ==
  /\ IF limit = 0 THEN UNCHANGED <<layer, bytes>>
     ELSE LET e == [key |-> k, version |-> g, weight |-> w]
              left == Evicted(<<e>> \o Without(k), bytes - Replaced(k) + w, limit)
          IN layer' = left.es /\ bytes' = left.bytes
  /\ got' = Miss /\ UNCHANGED limit /\ genKept

LayerInvalidate(k) ==
  /\ At(k) # {} /\ layer' = Without(k) /\ bytes' = bytes - WeightAt(k)
  /\ got' = Miss /\ UNCHANGED limit /\ genKept

LayerClear == layer' = << >> /\ bytes' = 0 /\ got' = Miss /\ UNCHANGED limit /\ genKept

SetMaxEntries(n) ==
  /\ limit' = n
  /\ layer' = Evicted(layer, bytes, n).es /\ bytes' = Evicted(layer, bytes, n).bytes
  /\ got' = Miss /\ genKept

-----------------------------------------------------------------------------
Next ==
  \/ \E k \in Keys, g \in Generations : GenGet(k, g) \/ GenPut(k, g) \/ LayerGet(k, g)
  \/ \E k \in Keys, g \in Generations, w \in Weights : LayerPut(k, g, w)
  \/ \E k \in Keys : LayerInvalidate(k)
  \/ \E n \in 0 .. MaxEntries : SetMaxEntries(n)
  \/ GenClear \/ LayerClear

TypeOK ==
  /\ gen \in [Keys -> Generations \cup {NoValue}] /\ generation \in Generations \cup {NoValue}
  /\ \A i \in DOMAIN layer : layer[i] \in [key : Keys, version : Generations, weight : Weights]
  /\ limit \in 0 .. MaxEntries /\ bytes \in Int

\* A hit is of the generation asked for: neither cache returns a value of an earlier one,
\* whatever was put and asked for between.
HitsCurrent == got.value # NoValue => got.value = got.asked

\* Both caches keep within their limits after every call, and the byte count of a layer is
\* the sum of the weights of its entries, so the limit on bytes means what it says.
Bounded ==
  /\ Cardinality(Held) <= MaxEntries
  /\ bytes = Sum(layer)
  /\ limit > 0 => Fits(layer, bytes, limit)
  /\ \A i, j \in DOMAIN layer : layer[i].key = layer[j].key => i = j
=============================================================================
