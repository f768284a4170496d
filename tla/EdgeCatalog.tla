---------------------------- MODULE EdgeCatalog ----------------------------
(***************************************************************************)
(* Inside one gateway: calls of Edge.serverFor compose and cache a catalog *)
(* per principal while the snapshot source activates snapshots (whose      *)
(* preparer, Edge.rebuild, purges the cache before the swap) and the       *)
(* principal source applies principal sets (whose observer purges after).  *)
(* Every step is one atomic load, one atomic store or one lock section.    *)
(*                                                                         *)
(* Principal-set versions are only compared for equality here, so a        *)
(* generation that nothing refers to any more is used again: the model has *)
(* endless heartbeats and finitely many states.                            *)
(***************************************************************************)
EXTENDS Naturals, FiniteSets

CONSTANTS
    Ids,           \* principals
    Grants,        \* what a set may grant a principal
    Absent,        \* ... or that it does not carry the principal
    None,          \* a nil server, or a register with nothing in it
    Calls,         \* goroutines in serverFor
    MaxGen,        \* bound: identities 0..MaxGen of principal sets
    MaxSnapshot    \* bound: versions of snapshots activated

ASSUME IdsAssumption == Ids # {}
ASSUME AbsentAssumption == Absent \notin Grants
ASSUME MaxGenAssumption == MaxGen \in Nat
ASSUME MaxSnapshotAssumption == MaxSnapshot \in Nat \ {0}

VARIABLES
    current,       \* Store.current: version of the serving view
    held,          \* Store.principals: [gen, grants]
    composed,      \* Store.composed: set of [snap, gen, id, catalog]
    cache,         \* Edge.principals: a server per id, or None
    announced,     \* Edge.version
    swap,          \* the snapshot source: "idle", "purge", "announce", "commit"
    apply,         \* the principal source: "idle", "forget", "purge"
    call,          \* [Calls -> [pc, id, view, snap, set, catalog, server]]
    sincePurge     \* history: calls that got their server since the last purge

edgeVars == <<current, held, composed, cache, announced, swap, apply, call, sincePurge>>

Catalogs == [snap : Nat, grants : Grants]
Servers == [view : Nat, catalog : Catalogs, by : Calls]
Gens == 0..MaxGen
Sets == [gen : Gens, grants : [Ids -> Grants \cup {Absent}]]
CallPcs == {"idle", "lookup", "view", "snap", "set", "compose", "insert", "put", "serve"}

ASSUME NoneAssumption == None \notin Servers

TypeOK ==
    /\ current \in 0..MaxSnapshot /\ announced \in 0..MaxSnapshot
    /\ held \in Sets
    /\ composed \in SUBSET [snap : 0..MaxSnapshot, gen : Gens, id : Ids, catalog : Catalogs]
    /\ cache \in [Ids -> Servers \cup {None}]
    /\ swap \in {"idle", "purge", "announce", "commit"}
    /\ apply \in {"idle", "forget", "purge"}
    /\ \A c \in Calls :
         /\ call[c].pc \in CallPcs /\ call[c].id \in Ids
         /\ call[c].view \in 0..MaxSnapshot /\ call[c].snap \in 0..MaxSnapshot
         /\ call[c].set \in Sets \cup {None}
         /\ call[c].pc \in {"insert", "put"} => call[c].catalog \in Catalogs
         /\ call[c].pc = "serve" => call[c].server \in Servers
    /\ sincePurge \in SUBSET Calls

Blank ==
    [pc |-> "idle", id |-> CHOOSE i \in Ids : TRUE, view |-> 0, snap |-> 0, set |-> None,
     catalog |-> None, server |-> None]

(* The listener starts after the first snapshot is loaded. *)
Init ==
    /\ current = 1 /\ announced = 1
    /\ held \in Sets
    /\ held.gen = 0
    /\ composed = {}
    /\ cache = [i \in Ids |-> None]
    /\ swap = "idle" /\ apply = "idle"
    /\ call = [c \in Calls |-> Blank]
    /\ sincePurge = {}

-----------------------------------------------------------------------------
(* Edge.principals.Purge *)
Purge ==
    /\ cache' = [i \in Ids |-> None]
    /\ sincePurge' = {}

(* Store.Activate, from the preparer on: purge, sync and announce, swap. *)
BeginSwap ==
    /\ swap = "idle" /\ current < MaxSnapshot
    /\ swap' = "purge"
    /\ UNCHANGED <<current, held, composed, cache, announced, apply, call, sincePurge>>

RebuildPurge ==
    /\ swap = "purge"
    /\ Purge
    /\ swap' = "announce"
    /\ UNCHANGED <<current, held, composed, announced, apply, call>>

RebuildAnnounce ==
    /\ swap = "announce"
    /\ announced' = current + 1
    /\ swap' = "commit"
    /\ UNCHANGED <<current, held, composed, cache, apply, call, sincePurge>>

CommitSwap ==
    /\ swap = "commit"
    /\ current' = current + 1
    /\ swap' = "idle"
    /\ UNCHANGED <<held, composed, cache, announced, apply, call, sincePurge>>

(* Store.ApplyPrincipals: store the set, drop the composed views, notify. *)
Referenced ==
    {held.gen} \cup {e.gen : e \in composed}
      \cup {call[c].set.gen : c \in {x \in Calls : call[x].pc \in {"compose", "insert"}}}

Unreferenced == CHOOSE g \in Gens : g \notin Referenced

(* Bound: a set waits until one of the identities is free. *)
StoreSet ==
    /\ apply = "idle"
    /\ Gens \ Referenced # {}
    /\ held' \in {s \in Sets : s.gen = Unreferenced}
    /\ apply' = "forget"
    /\ UNCHANGED <<current, composed, cache, announced, swap, call, sincePurge>>

ForgetComposed ==
    /\ apply = "forget"
    /\ composed' = {}
    /\ apply' = "purge"
    /\ UNCHANGED <<current, held, cache, announced, swap, call, sincePurge>>

ObservePrincipals_ForgetsOnly ==
    /\ apply = "purge"
    /\ apply' = "idle"
    /\ UNCHANGED <<current, held, composed, announced, swap, call, cache, sincePurge>>

ObservePrincipals ==
    /\ apply = "purge"
    /\ Purge
    /\ apply' = "idle"
    /\ UNCHANGED <<current, held, composed, announced, swap, call>>

-----------------------------------------------------------------------------
(* Edge.serverFor and Store.PrincipalView, one call. *)

At(c, pc) == call[c].pc = pc

(* Resolve has just found the id in the set in effect. *)
Arrive(c) ==
    /\ At(c, "idle") /\ announced # 0
    /\ \E i \in Ids :
         /\ held.grants[i] # Absent
         /\ call' = [call EXCEPT ![c].pc = "lookup", ![c].id = i]
    /\ UNCHANGED <<current, held, composed, cache, announced, swap, apply, sincePurge>>

Lookup(c) ==
    /\ At(c, "lookup")
    /\ LET found == cache[call[c].id]
       IN  IF found = None
             THEN call' = [call EXCEPT ![c].pc = "view"] /\ UNCHANGED sincePurge
             ELSE /\ call' = [call EXCEPT ![c].pc = "serve", ![c].server = found]
                  /\ sincePurge' = sincePurge \cup {c}
    /\ UNCHANGED <<current, held, composed, cache, announced, swap, apply>>

(* serverFor loads Current, and PrincipalView loads it again. *)
LoadView(c) ==
    /\ \/ At(c, "view") /\ call' = [call EXCEPT ![c].pc = "snap", ![c].view = current]
       \/ At(c, "snap") /\ call' = [call EXCEPT ![c].pc = "set", ![c].snap = current]
       \/ At(c, "set") /\ call' = [call EXCEPT ![c].pc = "compose", ![c].set = held]
    /\ UNCHANGED <<current, held, composed, cache, announced, swap, apply, sincePurge>>

Composed(c) == {e \in composed : /\ e.snap = call[c].snap /\ e.gen = call[c].set.gen
                                 /\ e.id = call[c].id}

Composition(c) == [snap |-> call[c].snap, grants |-> call[c].set.grants[call[c].id]]

(* The call has its catalog, and needs set and snapshot no more. *)
Holds(c, catalog) ==
    call' = [call EXCEPT ![c].pc = "put", ![c].catalog = catalog, ![c].set = None, ![c].snap = 0]

Compose_WithoutByID(c) ==
    /\ At(c, "compose")
    /\ \/ \E e \in Composed(c) : Holds(c, e.catalog)
       \/ /\ Composed(c) = {}
          /\ call' = [call EXCEPT ![c].pc = "insert", ![c].catalog = Composition(c)]
    /\ UNCHANGED <<current, held, composed, cache, announced, swap, apply, sincePurge>>

(* A principal the set no longer carries answers 403, and so may one whose   *)
(* tenant the snapshot lacks or whose grants do not compile.                 *)
Compose(c) ==
    /\ At(c, "compose")
    /\ \/ \E e \in Composed(c) : Holds(c, e.catalog)
       \/ /\ Composed(c) = {} /\ Composition(c).grants # Absent
          /\ call' = [call EXCEPT ![c].pc = "insert", ![c].catalog = Composition(c)]
       \/ /\ Composed(c) = {}
          /\ call' = [call EXCEPT ![c] = Blank]
    /\ UNCHANGED <<current, held, composed, cache, announced, swap, apply, sincePurge>>

Insert_RereadsVersion(c) ==
    /\ At(c, "insert")
    /\ composed' = composed \cup {[snap |-> call[c].snap, gen |-> held.gen,
                                   id |-> call[c].id, catalog |-> call[c].catalog]}
    /\ Holds(c, call[c].catalog)
    /\ UNCHANGED <<current, held, cache, announced, swap, apply, sincePurge>>

(* The first of two racing compositions is kept and used by both. *)
Insert(c) ==
    /\ At(c, "insert")
    /\ \/ \E e \in Composed(c) :
            /\ Holds(c, e.catalog)
            /\ UNCHANGED composed
       \/ /\ Composed(c) = {}
          /\ composed' = composed \cup {[snap |-> call[c].snap, gen |-> call[c].set.gen,
                                         id |-> call[c].id, catalog |-> call[c].catalog]}
          /\ Holds(c, call[c].catalog)
    /\ UNCHANGED <<current, held, cache, announced, swap, apply, sincePurge>>

Built(c) == [view |-> call[c].view, catalog |-> call[c].catalog, by |-> c]

Put_Overwrites(c) ==
    /\ At(c, "put")
    /\ cache' = [cache EXCEPT ![call[c].id] = Built(c)]
    /\ call' = [call EXCEPT ![c] = [Blank EXCEPT !.pc = "serve", !.id = call[c].id,
                                                !.server = Built(c)]]
    /\ sincePurge' = sincePurge \cup {c}
    /\ UNCHANGED <<current, held, composed, announced, swap, apply>>

(* principalCache.put: whoever stored first wins. *)
Put(c) ==
    /\ At(c, "put")
    /\ cache' = [cache EXCEPT ![call[c].id] = IF @ = None THEN Built(c) ELSE @]
    /\ call' = [call EXCEPT ![c] = [Blank EXCEPT !.pc = "serve", !.id = call[c].id,
                                                !.server = cache'[call[c].id]]]
    /\ sincePurge' = sincePurge \cup {c}
    /\ UNCHANGED <<current, held, composed, announced, swap, apply>>

Answer(c) ==
    /\ At(c, "serve")
    /\ call' = [call EXCEPT ![c] = Blank]
    /\ sincePurge' = sincePurge \ {c}
    /\ UNCHANGED <<current, held, composed, cache, announced, swap, apply>>

(* serveMCP hands the request to the SDK, which asks for the server again. *)
ServerForRequest(c) ==
    /\ At(c, "serve")
    /\ call' = [call EXCEPT ![c] = [Blank EXCEPT !.pc = "lookup", !.id = call[c].id]]
    /\ sincePurge' = sincePurge \ {c}
    /\ UNCHANGED <<current, held, composed, cache, announced, swap, apply>>

ServerFor(c) ==
    \/ Lookup(c) \/ LoadView(c) \/ Compose(c) \/ Insert(c) \/ Put(c)
    \/ ServerForRequest(c) \/ Answer(c)

Swap == RebuildPurge \/ RebuildAnnounce \/ CommitSwap

Apply == StoreSet \/ ForgetComposed \/ ObservePrincipals

Next ==
    \/ BeginSwap \/ Swap \/ Apply
    \/ \E c \in Calls : Arrive(c) \/ ServerFor(c)

Spec == Init /\ [][Next]_edgeVars

(* A call runs to its end, an activation that began finishes, and the        *)
(* principal heartbeat (which bumps, so it is always newer) keeps arriving.  *)
Fairness ==
    /\ \A c \in Calls : WF_edgeVars(ServerFor(c))
    /\ WF_edgeVars(Swap)
    /\ WF_edgeVars(Apply)

FairSpec == Spec /\ Fairness

-----------------------------------------------------------------------------
(* Properties *)

(* Every view composed under a key of the set in effect is what its key says: *)
(* that snapshot, and that principal's grants in that set, so a hit is as     *)
(* good as a composition (store.go:180-230).                                  *)
ComposedMatchesKey ==
    \A e \in composed :
        /\ e.catalog.snap = e.snap
        /\ e.gen = held.gen => e.catalog.grants = held.grants[e.id]

(* Calls for one principal that got their server since the last purge got the *)
(* same one, "so the SDK's server state is not split" (edge.go:137-139).      *)
OneServerPerPrincipal ==
    \A c, d \in sincePurge : call[c].id = call[d].id => call[c].server = call[d].server

(* Whatever raced, once snapshot and grants stay put every cached server is    *)
(* eventually one of them: the heartbeats' purges repair what a call stored    *)
(* late (edge.go:224-229, ADR 0024).                                           *)
CatalogsCatchUp ==
    \A v \in 1..MaxSnapshot : \A i \in Ids : \A g \in Grants :
        <>[](current = v /\ swap = "idle" /\ held.grants[i] = g)
          => <>[](cache[i] # None => /\ cache[i].view = v
                                         /\ cache[i].catalog = [snap |-> v, grants |-> g])
=============================================================================
