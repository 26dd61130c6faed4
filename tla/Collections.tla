----------------------------- MODULE Collections -----------------------------
(***************************************************************************)
(* User groups, proxy chains and the manual order of the configurations    *)
(* (engine/app/collections.go, proxychain.go, configorderservice.go).      *)
(* Groups and chains are one list, in memory under collections.mu and in a *)
(* versioned sidecar; the order is a sidecar of its own.                   *)
(***************************************************************************)
EXTENDS Integers, Sequences, SequencesExt, FiniteSets

CONSTANTS Configs,
          Names,
          MaxId,      \* ids of each kind
          MinHops,    \* proxyChainMinHops
          MaxHops,    \* proxyChainMaxHops
          MaxOps

VARIABLES store,      \* the stored configurations
          groups,     \* by kind and id
          next,       \* nextGroupID and nextChainID
          future,     \* the sidecar has a newer schema
          file,       \* the sidecar
          order,      \* the manual order, and
          orderFile,  \* its sidecar
          move,       \* MoveConfig: what was read, and whether that is still the order
          ops

vars == <<store, groups, next, future, file, order, orderFile, move, ops>>

Kinds == {"user", "chain"}
Keys == Kinds \X (1..MaxId)
NoGroup == [name |-> "none", members |-> <<>>]
Lists == {l \in UNION {[1..n -> Configs] : n \in 0..Cardinality(Configs)} : IsInjective(l)}
NoMove == [at |-> "idle", order |-> <<>>, true |-> TRUE]

Used(g) == {k \in Keys : g[k] # NoGroup}
OfKind(g, kind) == {k \in Used(g) : k[1] = kind}

TypeOK ==
  /\ store \subseteq Configs /\ future \in BOOLEAN /\ ops \in 0..MaxOps
  /\ next \in [Kinds -> 1..(MaxId + 1)]
  /\ \A k \in Keys : groups[k].name \in Names \cup {"none"}
  /\ move.at \in {"idle", "read"}

Init ==
  /\ store \in SUBSET Configs /\ Cardinality(store) >= 2
  /\ groups = [k \in Keys |-> NoGroup] /\ next = [kind \in Kinds |-> 1]
  /\ future \in BOOLEAN /\ file = [newer |-> future, groups |-> groups]
  /\ order = <<>> /\ orderFile = <<>> /\ move = NoMove /\ ops = 0

Begin == ops < MaxOps /\ ops' = ops + 1

Ingest(c) ==
  /\ Begin /\ c \notin store /\ store' = store \cup {c}
  /\ UNCHANGED <<groups, next, future, file, order, orderFile, move>>

(* The store's Delete: no service calls it, and what refers to the         *)
(* configuration stays as it is.                                           *)
DeleteConfig(c) ==
  /\ Begin /\ c \in store /\ store' = store \ {c}
  /\ UNCHANGED <<groups, next, future, file, order, orderFile, move>>

-----------------------------------------------------------------------------
(* saveCollectionsLocked: the memory has changed; a newer schema is never  *)
(* written over, and the write may fail.                                   *)
Save(g) ==
  file' \in {file} \cup {f \in {[newer |-> FALSE, groups |-> g]} : ~future}

Change(g) ==
  /\ groups' = g /\ Save(g)
  /\ UNCHANGED <<store, future, order, orderFile, move>>

(* CreateUserGroup. *)
CreateUserGroup(name) ==
  /\ Begin /\ next["user"] <= MaxId
  /\ \A k \in OfKind(groups, "user") : groups[k].name # name
  /\ Change([groups EXCEPT ![<<"user", next["user"]>>] = [name |-> name, members |-> <<>>]])
  /\ next' = [next EXCEPT !["user"] = @ + 1]

(* RenameUserGroup and RenameProxyChain, which do not compare the name. *)
RenameGroup(k, name) ==
  /\ Begin /\ k \in Used(groups)
  /\ Change([groups EXCEPT ![k].name = name])
  /\ UNCHANGED next

(* DeleteUserGroup and DeleteProxyChain. *)
DeleteGroup(k) ==
  /\ Begin /\ k \in Used(groups)
  /\ Change([groups EXCEPT ![k] = NoGroup])
  /\ UNCHANGED next

AddToUserGroup(k, c) ==
  /\ Begin /\ k \in OfKind(groups, "user") /\ c \notin Range(groups[k].members)
  /\ Change([groups EXCEPT ![k].members = Append(@, c)])
  /\ UNCHANGED next

RemoveFromUserGroup(k, c) ==
  /\ Begin /\ k \in OfKind(groups, "user") /\ c \in Range(groups[k].members)
  /\ Change([groups EXCEPT ![k].members = SelectSeq(@, LAMBDA x : x # c)])
  /\ UNCHANGED next

-----------------------------------------------------------------------------
(* validateHopList. *)
ValidHops(l) ==
  /\ Len(l) \in MinHops..MaxHops
  /\ IsInjective(l) /\ Range(l) \subseteq store

CreateProxyChain(name, l) ==
  /\ Begin /\ next["chain"] <= MaxId /\ ValidHops(l)
  /\ \A k \in OfKind(groups, "chain") : groups[k].name # name
  /\ Change([groups EXCEPT ![<<"chain", next["chain"]>>] = [name |-> name, members |-> l]])
  /\ next' = [next EXCEPT !["chain"] = @ + 1]

(* AddHop: the limit, the duplicate and the whole new list are looked at. *)
Addable(l, c) == Len(l) < MaxHops /\ c \notin Range(l) /\ ValidHops(Append(l, c))

AddHop(k, c, position) ==
  /\ Begin /\ k \in OfKind(groups, "chain") /\ Addable(groups[k].members, c)
  /\ position <= Len(groups[k].members)
  /\ Change([groups EXCEPT ![k].members = InsertAt(@, position + 1, c)])
  /\ UNCHANGED next

(* A mutation of Removable: a chain of one hop may be left. *)
RemovableAny(l) == TRUE

Removable(l) == Len(l) - 1 >= MinHops

RemoveHop(k, c) ==
  /\ Begin /\ k \in OfKind(groups, "chain")
  /\ c \in Range(groups[k].members) /\ Removable(groups[k].members)
  /\ Change([groups EXCEPT ![k].members = SelectSeq(@, LAMBDA x : x # c)])
  /\ UNCHANGED next

(* Remove and insert, with a position counted from 0. *)
MovedTo(l, c, position) == InsertAt(SelectSeq(l, LAMBDA x : x # c), position + 1, c)

ReorderHop(k, c, position) ==
  /\ Begin /\ k \in OfKind(groups, "chain")
  /\ c \in Range(groups[k].members) /\ position < Len(groups[k].members)
  /\ Change([groups EXCEPT ![k].members = MovedTo(@, c, position)])
  /\ UNCHANGED next

-----------------------------------------------------------------------------
(* saveConfigOrder: the file first, and the memory only if it was written. *)
SaveOrder(l) ==
  \/ orderFile' = l /\ order' = l
  \/ UNCHANGED <<orderFile, order>>

SetConfigOrder(l) ==
  /\ Begin
  /\ SaveOrder(l)
  /\ move' = [move EXCEPT !.true = @ /\ move = NoMove]
  /\ UNCHANGED <<store, groups, next, future, file>>

(* A mutation of Completed: the order that was saved is forgotten. *)
CompletedAfresh(l, existing) == SetToSortSeq(existing, <)

(* pruneOrder, and the other stored configurations in the store's order.   *)
Completed(l, existing) ==
  LET kept == SelectSeq(l, LAMBDA c : c \in existing) IN
  kept \o SetToSortSeq(existing \ Range(kept), <)

(* MoveConfig first lists the store, which its deadline may cut short, and *)
(* reads the order.                                                        *)
ReadOrder ==
  /\ Begin /\ move = NoMove
  /\ \E existing \in SUBSET store :
       move' = [at |-> "read", order |-> Completed(order, existing),
                true |-> existing = store]
  /\ UNCHANGED <<store, groups, next, future, file, order, orderFile>>

(* An id that is not listed is an error. *)
MoveConfig(c, position) ==
  /\ move.at = "read" /\ move' = NoMove
  /\ IF c \in Range(move.order)
     THEN /\ position < Len(move.order)
          /\ SaveOrder(MovedTo(move.order, c, position))
     ELSE UNCHANGED <<order, orderFile>>
  /\ UNCHANGED <<store, groups, next, future, file, ops>>

-----------------------------------------------------------------------------
(* nextIDFor. *)
NextId(g, kind) ==
  CHOOSE n \in 1..(MaxId + 1) :
    /\ \A k \in OfKind(g, kind) : n > k[2]
    /\ n = 1 \/ <<kind, n - 1>> \in Used(g)

(* A restart: loadCollections and loadConfigOrder. *)
Restart ==
  LET g == IF file.newer THEN [k \in Keys |-> NoGroup] ELSE file.groups IN
  /\ Begin
  /\ groups' = g /\ future' = file.newer /\ next' = [kind \in Kinds |-> NextId(g, kind)]
  /\ order' = orderFile /\ move' = NoMove
  /\ UNCHANGED <<store, file, orderFile>>

Positions == 0..(Cardinality(Configs) - 1)

Next ==
  \/ \E c \in Configs : Ingest(c) \/ DeleteConfig(c)
  \/ \E name \in Names : \/ CreateUserGroup(name) \/ \E l \in Lists : CreateProxyChain(name, l)
                         \/ \E k \in Keys : RenameGroup(k, name)
  \/ \E k \in Keys : \/ DeleteGroup(k)
                     \/ \E c \in Configs : \/ AddToUserGroup(k, c) \/ RemoveFromUserGroup(k, c)
                                           \/ RemoveHop(k, c)
                     \/ \E c \in Configs, p \in Positions : AddHop(k, c, p) \/ ReorderHop(k, c, p)
  \/ \E l \in Lists : SetConfigOrder(l)
  \/ \E c \in Configs, p \in Positions : MoveConfig(c, p)
  \/ ReadOrder \/ Restart

Spec == Init /\ [][Next]_vars

-----------------------------------------------------------------------------
(* Whatever was edited, deleted from the store, failed to save or was      *)
(* loaded again: a chain has between MinHops and MaxHops different hops,   *)
(* and the next id of either kind is a new one.                            *)
ChainsSound ==
  /\ \A k \in OfKind(groups, "chain") :
       Len(groups[k].members) \in MinHops..MaxHops /\ IsInjective(groups[k].members)
  /\ \A kind \in Kinds : <<kind, next[kind]>> \notin Used(groups)

(* The sidecar of a newer program is never written over. *)
FutureKept == future => file.newer

Before(l, a, b) == \E i, j \in DOMAIN l : i < j /\ l[i] = a /\ l[j] = b

(* MoveConfig moves one configuration: of those it lists, every other two    *)
(* that had a place keep their order, and none loses its place.  A scan    *)
(* that was cut short and an order that was set meanwhile are the          *)
(* exceptions: MoveConfig then saves what it had read.                     *)
OnlyOneMovesStep ==
  move.at = "read" /\ move.true /\ order' # order /\ ops' = ops =>
    /\ Range(move.order) \cap Range(order) \subseteq Range(order') /\ IsInjective(order')
    /\ \E c \in Range(move.order) : \A a, b \in Range(move.order) \ {c} :
         Before(order, a, b) => Before(order', a, b)
OnlyOneMoves == [][OnlyOneMovesStep]_vars

(* Group names: CreateUserGroup refuses a name that is taken. *)
(* The code does otherwise: TLC refutes this property (README, section 6). *)
NamesDistinct ==
  \A k, m \in OfKind(groups, "user") : k # m => groups[k].name # groups[m].name
=============================================================================
