------------------------- MODULE EdgeCatalogProofs -------------------------
(***************************************************************************)
(* The safety of one gateway's catalogs, for any principals, grants, calls *)
(* and bounds. Three inductive invariants, each its own section, and a     *)
(* condition that lasts:                                                   *)
(*                                                                         *)
(*   Typed    the type invariant, with what a call's registers hold at     *)
(*            each point of serverFor;                                     *)
(*   Keyed    a call that is composing holds the set its version names if  *)
(*            that is the set in effect, and what it composed is what the  *)
(*            set says, so what it inserts matches its key;                *)
(*   Shared   a call that got its server since the last purge has the      *)
(*            server the cache holds for its principal;                    *)
(*   CaughtUp neither cache, memo nor call has anything stale of a         *)
(*            principal.                                                   *)
(***************************************************************************)
EXTENDS EdgeCatalog, TLAPS

Building == {"compose", "insert"}

CallRecords ==
    [pc : CallPcs, id : Ids, view : 0..MaxSnapshot, snap : 0..MaxSnapshot,
     set : Sets \cup {None}, catalog : Catalogs \cup {None}, server : Servers \cup {None}]

(* What the registers of one call hold where it stands. *)
Registers(r) ==
    /\ r.pc \in Building => r.set \in Sets
    /\ r.pc \in {"insert", "put"} => r.catalog \in Catalogs
    /\ r.pc = "serve" => r.server \in Servers

Typed ==
    /\ current \in 0..MaxSnapshot /\ announced \in 0..MaxSnapshot
    /\ held \in Sets
    /\ composed \in SUBSET [snap : 0..MaxSnapshot, gen : Gens, id : Ids, catalog : Catalogs]
    /\ cache \in [Ids -> Servers \cup {None}]
    /\ swap \in {"idle", "purge", "announce", "commit"}
    /\ swap # "idle" => current < MaxSnapshot
    /\ apply \in {"idle", "forget", "purge"}
    /\ sincePurge \in SUBSET Calls
    /\ call \in [Calls -> CallRecords]
    /\ \A c \in Calls : Registers(call[c])

(* ComposedMatchesKey alone is not inductive: an entry comes from the         *)
(* registers of a call, which may be older than the set in effect. Versions   *)
(* identify sets, so a call whose set has the version in effect has that set. *)
Keyed ==
    /\ ComposedMatchesKey
    /\ \A c \in Calls :
         /\ call[c].pc \in Building /\ call[c].set.gen = held.gen => call[c].set = held
         /\ call[c].pc = "insert" => call[c].catalog = Composition(c)

(* Calls since the last purge agree because the cache answers for all of them. *)
Shared ==
    \A c \in sincePurge :
        /\ call[c].pc = "serve"
        /\ cache[call[c].id] = call[c].server
        /\ call[c].server # None

-----------------------------------------------------------------------------
(* Typed *)

LEMMA TypedIsTypeOK == Typed => TypeOK
BY DEF Typed, TypeOK, CallRecords, Registers

LEMMA BlankIsTyped == Blank \in CallRecords /\ Blank.pc = "idle"
<1>1. (CHOOSE i \in Ids : TRUE) \in Ids
  BY IdsAssumption
<1> QED
  BY <1>1, MaxSnapshotAssumption DEF Blank, CallRecords, CallPcs

LEMMA InitTyped == Init => Typed
<1> SUFFICES ASSUME Init PROVE Typed
  OBVIOUS
<1>1. call \in [Calls -> CallRecords] /\ \A c \in Calls : Registers(call[c])
  BY BlankIsTyped DEF Init, Registers, Building
<1>2. cache \in [Ids -> Servers \cup {None}]
  BY DEF Init
<1>3. current \in 0..MaxSnapshot /\ announced \in 0..MaxSnapshot
  BY MaxSnapshotAssumption DEF Init
<1> QED
  BY <1>1, <1>2, <1>3 DEF Init, Typed

(* A step of one call changes that call's registers only. *)
LEMMA OneCallTyped ==
    ASSUME Typed, NEW c \in Calls, NEW r \in CallRecords, Registers(r),
           call' = [call EXCEPT ![c] = r]
    PROVE  call' \in [Calls -> CallRecords] /\ \A d \in Calls : Registers(call'[d])
BY DEF Typed

(* The sources: snapshot swaps and principal sets. *)
LEMMA SourcesTyped ==
    ASSUME Typed, BeginSwap \/ Swap \/ Apply
    PROVE  Typed'
<1>1. CASE BeginSwap
  BY <1>1 DEF Typed, BeginSwap, Registers
<1>2. CASE RebuildPurge
  BY <1>2 DEF Typed, RebuildPurge, Purge, Registers
<1>3. CASE RebuildAnnounce
  BY <1>3, MaxSnapshotAssumption DEF Typed, RebuildAnnounce, Registers
<1>4. CASE CommitSwap
  BY <1>4, MaxSnapshotAssumption DEF Typed, CommitSwap, Registers
<1>5. CASE StoreSet
  BY <1>5 DEF Typed, StoreSet, Registers
<1>6. CASE ForgetComposed
  BY <1>6 DEF Typed, ForgetComposed, Registers
<1>7. CASE ObservePrincipals
  BY <1>7 DEF Typed, ObservePrincipals, Purge, Registers
<1> QED
  BY <1>1, <1>2, <1>3, <1>4, <1>5, <1>6, <1>7 DEF Swap, Apply

LEMMA LookupTyped ==
    ASSUME Typed, NEW c \in Calls, Arrive(c) \/ Lookup(c)
    PROVE  Typed'
<1>1. call[c] \in CallRecords /\ Registers(call[c])
  BY DEF Typed
<1>2. CASE Arrive(c)
  <2>1. PICK i \in Ids : call' = [call EXCEPT ![c].pc = "lookup", ![c].id = i]
    BY <1>2 DEF Arrive
  <2> DEFINE r == [call[c] EXCEPT !.pc = "lookup", !.id = i]
  <2>2. r \in CallRecords /\ Registers(r)
    BY <1>1 DEF CallRecords, CallPcs, Registers, Building
  <2>3. call' = [call EXCEPT ![c] = r]
    BY <2>1
  <2> HIDE DEF r
  <2>4. call' \in [Calls -> CallRecords] /\ \A d \in Calls : Registers(call'[d])
    BY <2>2, <2>3, OneCallTyped
  <2> QED
    BY <1>2, <2>4 DEF Typed, Arrive
<1>3. CASE Lookup(c)
  <2> DEFINE found == cache[call[c].id]
             missed == [call[c] EXCEPT !.pc = "view"]
             hit == [call[c] EXCEPT !.pc = "serve", !.server = found]
  <2>1. call[c].id \in Ids /\ found \in Servers \cup {None}
    BY <1>1 DEF Typed, CallRecords
  <2>2. missed \in CallRecords /\ Registers(missed)
    BY <1>1 DEF CallRecords, CallPcs, Registers, Building
  <2>3. found # None => hit \in CallRecords /\ Registers(hit)
    BY <1>1, <2>1 DEF CallRecords, CallPcs, Registers, Building
  <2>4. /\ found = None => call' = [call EXCEPT ![c] = missed]
        /\ found # None => call' = [call EXCEPT ![c] = hit]
    BY <1>3 DEF Lookup
  <2>5. sincePurge' \in SUBSET Calls
    BY <1>3 DEF Lookup, Typed
  <2> HIDE DEF missed, hit
  <2>6. call' \in [Calls -> CallRecords] /\ \A d \in Calls : Registers(call'[d])
    BY <2>2, <2>3, <2>4, OneCallTyped
  <2> QED
    BY <1>3, <2>5, <2>6 DEF Typed, Lookup
<1> QED
  BY <1>2, <1>3

LEMMA HoldsTyped ==
    ASSUME Typed, NEW c \in Calls, NEW cat \in Catalogs, Holds(c, cat)
    PROVE  call' \in [Calls -> CallRecords] /\ \A d \in Calls : Registers(call'[d])
<1> DEFINE half == [call[c] EXCEPT !.pc = "put", !.catalog = cat]
           r == [half EXCEPT !.set = None, !.snap = 0]
<1>1. call[c] \in CallRecords /\ 0 \in 0..MaxSnapshot
  BY MaxSnapshotAssumption DEF Typed
<1>2. half \in CallRecords /\ half.pc = "put" /\ half.catalog = cat
  BY <1>1 DEF CallRecords, CallPcs
<1>3. call' = [call EXCEPT ![c] = r]
  BY DEF Holds, Typed
<1> HIDE DEF half
<1>4. r \in CallRecords /\ Registers(r)
  BY <1>1, <1>2 DEF CallRecords, Registers, Building
<1> HIDE DEF r
<1> QED
  BY <1>3, <1>4, OneCallTyped

LEMMA BuildTyped ==
    ASSUME Typed, NEW c \in Calls, LoadView(c) \/ Compose(c) \/ Insert(c)
    PROVE  Typed'
<1> USE DEF CallRecords, CallPcs, Registers, Building
<1>1. CASE LoadView(c)
  <2>1. call' \in [Calls -> CallRecords] /\ \A d \in Calls : Registers(call'[d])
    BY <1>1 DEF Typed, LoadView, At
  <2> QED
    BY <1>1, <2>1 DEF Typed, LoadView
<1>2. \A e \in Composed(c) : e \in composed /\ e.catalog \in Catalogs
  BY DEF Typed, Composed
<1>3. CASE Compose(c)
  <2>1. call' \in [Calls -> CallRecords] /\ \A d \in Calls : Registers(call'[d])
    <3>1. CASE \E e \in Composed(c) : Holds(c, e.catalog)
      BY <1>2, <3>1, HoldsTyped
    <3>2. CASE /\ Composition(c).grants # Absent
               /\ call' = [call EXCEPT ![c].pc = "insert", ![c].catalog = Composition(c)]
      <4>1. call[c].snap \in Nat /\ call[c].id \in Ids /\ call[c].set \in Sets
        BY <1>3 DEF Typed, Compose, At
      <4>2. Composition(c) \in Catalogs
        BY <3>2, <4>1 DEF Composition, Catalogs, Sets
      <4> DEFINE r == [call[c] EXCEPT !.pc = "insert", !.catalog = Composition(c)]
      <4>3. r \in CallRecords /\ Registers(r)
        BY <4>1, <4>2 DEF Typed
      <4>4. call' = [call EXCEPT ![c] = r]
        BY <3>2 DEF Typed
      <4> QED
        BY <4>3, <4>4, OneCallTyped
    <3>3. CASE call' = [call EXCEPT ![c] = Blank]
      BY <3>3, BlankIsTyped, OneCallTyped
    <3> QED
      BY <1>3, <3>1, <3>2, <3>3 DEF Compose
  <2> QED
    BY <1>3, <2>1 DEF Typed, Compose
<1>4. CASE Insert(c)
  <2>1. call' \in [Calls -> CallRecords] /\ \A d \in Calls : Registers(call'[d])
    <3>1. CASE \E e \in Composed(c) : Holds(c, e.catalog)
      BY <1>2, <3>1, HoldsTyped
    <3>2. CASE Holds(c, call[c].catalog)
      BY <1>4, <3>2, HoldsTyped DEF Typed, Insert, At
    <3> QED
      BY <1>4, <3>1, <3>2 DEF Insert
  <2>2. composed' \in SUBSET [snap : 0..MaxSnapshot, gen : Gens, id : Ids, catalog : Catalogs]
    <3>1. /\ call[c].snap \in 0..MaxSnapshot /\ call[c].set.gen \in Gens
          /\ call[c].id \in Ids /\ call[c].catalog \in Catalogs
      BY <1>4 DEF Typed, Insert, At, Sets
    <3> QED
      BY <1>4, <3>1 DEF Typed, Insert
  <2> QED
    BY <1>4, <2>1, <2>2 DEF Typed, Insert
<1> QED
  BY <1>1, <1>3, <1>4

LEMMA ServeTyped ==
    ASSUME Typed, NEW c \in Calls, Put(c) \/ Answer(c) \/ ServerForRequest(c)
    PROVE  Typed'
<1> USE DEF CallRecords, CallPcs, Registers, Building
<1>1. call[c].id \in Ids
  BY DEF Typed
<1>2. CASE Put(c)
  <2>1. Built(c) \in Servers
    BY <1>2 DEF Typed, Put, At, Built, Servers
  <2>2. cache' \in [Ids -> Servers \cup {None}] /\ cache'[call[c].id] \in Servers
    BY <1>1, <1>2, <2>1 DEF Typed, Put
  <2> DEFINE r == [Blank EXCEPT !.pc = "serve", !.id = call[c].id, !.server = cache'[call[c].id]]
  <2>3. r \in CallRecords /\ Registers(r)
    BY <1>1, <2>2, BlankIsTyped
  <2>4. call' = [call EXCEPT ![c] = r]
    BY <1>2 DEF Put
  <2>5. call' \in [Calls -> CallRecords] /\ \A d \in Calls : Registers(call'[d])
    BY <2>3, <2>4, OneCallTyped
  <2> QED
    BY <1>2, <2>2, <2>5 DEF Typed, Put
<1>3. CASE Answer(c)
  <2>1. call' \in [Calls -> CallRecords] /\ \A d \in Calls : Registers(call'[d])
    BY <1>3, BlankIsTyped, OneCallTyped DEF Answer
  <2> QED
    BY <1>3, <2>1 DEF Typed, Answer
<1>4. CASE ServerForRequest(c)
  <2> DEFINE r == [Blank EXCEPT !.pc = "lookup", !.id = call[c].id]
  <2>1. r \in CallRecords /\ Registers(r)
    BY <1>1, BlankIsTyped
  <2>2. call' = [call EXCEPT ![c] = r]
    BY <1>4 DEF ServerForRequest
  <2>3. call' \in [Calls -> CallRecords] /\ \A d \in Calls : Registers(call'[d])
    BY <2>1, <2>2, OneCallTyped
  <2> QED
    BY <1>4, <2>3 DEF Typed, ServerForRequest
<1> QED
  BY <1>2, <1>3, <1>4

LEMMA NextTyped == Typed /\ [Next]_edgeVars => Typed'
<1> SUFFICES ASSUME Typed, [Next]_edgeVars PROVE Typed'
  OBVIOUS
<1>1. CASE BeginSwap \/ Swap \/ Apply
  BY <1>1, SourcesTyped
<1>2. ASSUME NEW c \in Calls, Arrive(c) \/ ServerFor(c) PROVE Typed'
  BY <1>2, LookupTyped, BuildTyped, ServeTyped DEF ServerFor
<1>3. CASE UNCHANGED edgeVars
  BY <1>3 DEF edgeVars, Typed, Registers
<1> QED
  BY <1>1, <1>2, <1>3 DEF Next

LEMMA AlwaysTyped == Spec => []Typed
BY InitTyped, NextTyped, PTL DEF Spec

(* The edge's state keeps its types, and no register is read before it is set, *)
(* whatever calls, snapshot swaps and principal sets interleave (edge.go,      *)
(* store.go).                                                                  *)
THEOREM TypeCorrect == Spec => []TypeOK
BY AlwaysTyped, TypedIsTypeOK, PTL

-----------------------------------------------------------------------------
(* Keyed *)

LEMMA InitKeyed == Init => Keyed
BY BlankIsTyped DEF Init, Keyed, ComposedMatchesKey, Building

(* c is not composing after the step, and the other calls stand still. *)
OnlyMoves(c) ==
    /\ call'[c].pc \notin Building
    /\ \A d \in Calls \ {c} : call'[d] = call[d]

LEMMA CallsKeyed ==
    ASSUME Typed, Keyed, NEW c \in Calls, OnlyMoves(c), UNCHANGED held
    PROVE  \A d \in Calls :
             /\ call'[d].pc \in Building /\ call'[d].set.gen = held'.gen => call'[d].set = held'
             /\ call'[d].pc = "insert" => call'[d].catalog = Composition(d)'
BY DEF Keyed, OnlyMoves, Building, Composition

LEMMA HoldsMoves ==
    ASSUME Typed, NEW c \in Calls, NEW cat, Holds(c, cat)
    PROVE  OnlyMoves(c)
BY DEF Typed, CallRecords, Holds, OnlyMoves, Building

LEMMA OthersMove ==
    ASSUME Typed, NEW c \in Calls, Arrive(c) \/ Lookup(c) \/ Put(c) \/ Answer(c) \/ ServerForRequest(c)
    PROVE  OnlyMoves(c) /\ UNCHANGED <<held, composed>>
<1> USE BlankIsTyped DEF Typed, CallRecords, OnlyMoves, Building
<1>1. CASE Arrive(c)
  BY <1>1 DEF Arrive
<1>2. CASE Lookup(c)
  BY <1>2 DEF Lookup, At
<1>3. CASE Put(c)
  BY <1>3 DEF Put
<1>4. CASE Answer(c)
  BY <1>4 DEF Answer
<1>5. CASE ServerForRequest(c)
  BY <1>5 DEF ServerForRequest
<1> QED
  BY <1>1, <1>2, <1>3, <1>4, <1>5

(* A new set takes a version that no entry and no composing call refers to. *)
LEMMA StoreSetKeyed ==
    ASSUME Typed, Keyed, StoreSet
    PROVE  Keyed'
<1>1. held'.gen \notin Referenced
  BY DEF StoreSet, Unreferenced
<1>2. \A e \in composed : e.gen # held'.gen
  BY <1>1 DEF Referenced
<1>3. \A c \in Calls : call[c].pc \in Building => call[c].set.gen # held'.gen
  BY <1>1 DEF Referenced, Building
<1> QED
  BY <1>2, <1>3 DEF StoreSet, Keyed, ComposedMatchesKey, Composition

LEMMA SourcesKeyed ==
    ASSUME Typed, Keyed, BeginSwap \/ Swap \/ Apply
    PROVE  Keyed'
<1>1. CASE StoreSet
  BY <1>1, StoreSetKeyed
<1>2. CASE ForgetComposed
  BY <1>2 DEF ForgetComposed, Keyed, ComposedMatchesKey, Composition
<1>3. CASE BeginSwap \/ Swap \/ ObservePrincipals
  <2>1. UNCHANGED <<composed, held, call>>
    BY <1>3 DEF BeginSwap, Swap, RebuildPurge, RebuildAnnounce, CommitSwap, ObservePrincipals
  <2> QED
    BY <2>1 DEF Keyed, ComposedMatchesKey, Composition
<1> QED
  BY <1>1, <1>2, <1>3 DEF Apply

LEMMA BuildKeyed ==
    ASSUME Typed, Keyed, NEW c \in Calls, LoadView(c) \/ Compose(c)
    PROVE  Keyed'
<1>1. ComposedMatchesKey'
  BY DEF Keyed, ComposedMatchesKey, LoadView, Compose
<1>2. UNCHANGED held
  BY DEF LoadView, Compose
<1>3. CASE OnlyMoves(c)
  BY <1>1, <1>2, <1>3, CallsKeyed DEF Keyed
<1>4. CASE LoadView(c) /\ ~OnlyMoves(c)
  <2>1. At(c, "set") /\ call' = [call EXCEPT ![c].pc = "compose", ![c].set = held]
    BY <1>4 DEF LoadView, OnlyMoves, Building, Typed, CallRecords
  <2>2. call'[c].pc = "compose" /\ call'[c].set = held /\ \A d \in Calls \ {c} : call'[d] = call[d]
    BY <2>1 DEF Typed, CallRecords
  <2> QED
    BY <1>1, <1>2, <2>2 DEF Keyed, Composition
<1>5. CASE Compose(c) /\ ~OnlyMoves(c)
  <2>1. call' # [call EXCEPT ![c] = Blank]
    BY <1>5, BlankIsTyped DEF OnlyMoves, Building, Typed, CallRecords
  <2>2. At(c, "compose") /\ call' = [call EXCEPT ![c].pc = "insert", ![c].catalog = Composition(c)]
    BY <1>5, <2>1, HoldsMoves DEF Compose
  <2>3. /\ call'[c].pc = "insert" /\ call'[c].set = call[c].set /\ call'[c].snap = call[c].snap
        /\ call'[c].id = call[c].id /\ call'[c].catalog = Composition(c)
        /\ \A d \in Calls \ {c} : call'[d] = call[d]
    BY <2>2 DEF Typed, CallRecords
  <2>4. Composition(c)' = Composition(c) /\ \A d \in Calls \ {c} : Composition(d)' = Composition(d)
    BY <2>3 DEF Composition
  <2>5. call[c].set.gen = held.gen => call[c].set = held
    BY <2>2 DEF Keyed, At, Building
  <2> QED
    BY <1>1, <1>2, <2>3, <2>4, <2>5 DEF Keyed
<1> QED
  BY <1>3, <1>4, <1>5

LEMMA InsertKeyed ==
    ASSUME Typed, Keyed, NEW c \in Calls, Insert(c)
    PROVE  Keyed'
<1>1. OnlyMoves(c) /\ UNCHANGED held
  BY HoldsMoves DEF Insert
<1>2. ComposedMatchesKey'
  <2>1. SUFFICES ASSUME NEW e \in composed', e \notin composed
                 PROVE  /\ e.catalog.snap = e.snap
                        /\ e.gen = held.gen => e.catalog.grants = held.grants[e.id]
    BY <1>1 DEF Keyed, ComposedMatchesKey
  <2>2. e = [snap |-> call[c].snap, gen |-> call[c].set.gen, id |-> call[c].id,
             catalog |-> call[c].catalog]
    BY <2>1 DEF Insert
  <2>3. call[c].catalog = Composition(c) /\ (call[c].set.gen = held.gen => call[c].set = held)
    BY DEF Insert, At, Keyed, Building
  <2> QED
    BY <2>2, <2>3 DEF Composition
<1> QED
  BY <1>1, <1>2, CallsKeyed DEF Keyed

LEMMA NextKeyed == Typed /\ Keyed /\ [Next]_edgeVars => Keyed'
<1> SUFFICES ASSUME Typed, Keyed, [Next]_edgeVars PROVE Keyed'
  OBVIOUS
<1>1. CASE BeginSwap \/ Swap \/ Apply
  BY <1>1, SourcesKeyed
<1>2. ASSUME NEW c \in Calls, Arrive(c) \/ ServerFor(c) PROVE Keyed'
  <2>1. CASE LoadView(c) \/ Compose(c)
    BY <2>1, BuildKeyed
  <2>2. CASE Insert(c)
    BY <2>2, InsertKeyed
  <2>3. CASE Arrive(c) \/ Lookup(c) \/ Put(c) \/ Answer(c) \/ ServerForRequest(c)
    BY <2>3, OthersMove, CallsKeyed DEF Keyed, ComposedMatchesKey
  <2> QED
    BY <1>2, <2>1, <2>2, <2>3 DEF ServerFor
<1>3. CASE UNCHANGED edgeVars
  BY <1>3 DEF edgeVars, Keyed, ComposedMatchesKey, Composition
<1> QED
  BY <1>1, <1>2, <1>3 DEF Next

(* A catalog remembered under the set in effect is the one that set and that    *)
(* snapshot give the principal, however calls of PrincipalView, swaps and sets  *)
(* interleave (store.go:180-230).                                               *)
THEOREM CatalogsMatchTheirKeys == Spec => []ComposedMatchesKey
<1>1. Spec => []Keyed
  BY InitKeyed, NextKeyed, AlwaysTyped, PTL DEF Spec
<1>2. Keyed => ComposedMatchesKey
  BY DEF Keyed
<1> QED
  BY <1>1, <1>2, PTL

-----------------------------------------------------------------------------
(* Shared *)

LEMMA InitShared == Init => Shared
BY DEF Init, Shared

LEMMA SourcesShared ==
    ASSUME Shared, BeginSwap \/ Swap \/ Apply
    PROVE  Shared'
<1>1. UNCHANGED call
  BY DEF BeginSwap, Swap, Apply, RebuildPurge, RebuildAnnounce, CommitSwap, StoreSet,
         ForgetComposed, ObservePrincipals
<1>2. sincePurge' = {} \/ UNCHANGED <<cache, sincePurge>>
  BY DEF BeginSwap, Swap, Apply, RebuildPurge, RebuildAnnounce, CommitSwap, StoreSet,
         ForgetComposed, ObservePrincipals, Purge
<1> QED
  BY <1>1, <1>2 DEF Shared

(* A call that is building is not one of those that got their server. *)
LEMMA BuildShared ==
    ASSUME Typed, Shared, NEW c \in Calls, Arrive(c) \/ LoadView(c) \/ Compose(c) \/ Insert(c)
    PROVE  Shared'
<1>1. call[c].pc # "serve" /\ UNCHANGED <<cache, sincePurge>>
  BY DEF Arrive, LoadView, Compose, Insert, At
<1>2. c \notin sincePurge
  BY <1>1 DEF Shared
<1>3. \A d \in Calls \ {c} : call'[d] = call[d]
  BY DEF Typed, Arrive, LoadView, Compose, Insert, Holds
<1> QED
  BY <1>1, <1>2, <1>3 DEF Shared, Typed

LEMMA ServeShared ==
    ASSUME Typed, Shared, NEW c \in Calls,
           Lookup(c) \/ Put(c) \/ Answer(c) \/ ServerForRequest(c)
    PROVE  Shared'
<1>1. \A d \in Calls \ {c} : call'[d] = call[d]
  BY DEF Typed, Lookup, Put, Answer, ServerForRequest
<1>2. call[c] \in CallRecords /\ sincePurge \subseteq Calls
  BY DEF Typed
<1>3. CASE Lookup(c)
  <2>1. CASE cache[call[c].id] = None
    <3>1. c \notin sincePurge
      BY <1>3 DEF Lookup, At, Shared
    <3> QED
      BY <1>1, <1>2, <1>3, <2>1, <3>1 DEF Lookup, Shared
  <2>2. CASE cache[call[c].id] # None
    <3>1. /\ call'[c].pc = "serve" /\ call'[c].id = call[c].id
          /\ call'[c].server = cache[call[c].id]
      BY <1>3, <2>2 DEF Lookup, Typed, CallRecords
    <3> QED
      BY <1>1, <1>2, <1>3, <2>2, <3>1 DEF Lookup, Shared
  <2> QED
    BY <2>1, <2>2
<1>4. CASE Put(c)
  <2>1. Built(c) # None
    BY <1>4, NoneAssumption DEF Put, At, Typed, CallRecords, Registers, Built, Servers
  <2>2. /\ call'[c].pc = "serve" /\ call'[c].id = call[c].id
        /\ call'[c].server = cache'[call[c].id]
    BY <1>4, BlankIsTyped DEF Put, Typed, CallRecords
  <2>3. cache'[call[c].id] # None /\ \A i \in Ids : cache[i] # None => cache'[i] = cache[i]
    BY <1>2, <1>4, <2>1 DEF Put, Typed, CallRecords
  <2>4. \A d \in sincePurge : call[d].id \in Ids
    BY DEF Typed, CallRecords
  <2> QED
    BY <1>1, <1>2, <1>4, <2>2, <2>3, <2>4 DEF Put, Shared
<1>5. CASE Answer(c) \/ ServerForRequest(c)
  <2>1. sincePurge' = sincePurge \ {c} /\ UNCHANGED cache
    BY <1>5 DEF Answer, ServerForRequest
  <2> QED
    BY <1>1, <1>2, <2>1 DEF Shared
<1> QED
  BY <1>3, <1>4, <1>5

LEMMA NextShared == Typed /\ Shared /\ [Next]_edgeVars => Shared'
<1> SUFFICES ASSUME Typed, Shared, [Next]_edgeVars PROVE Shared'
  OBVIOUS
<1>1. CASE BeginSwap \/ Swap \/ Apply
  BY <1>1, SourcesShared
<1>2. ASSUME NEW c \in Calls, Arrive(c) \/ ServerFor(c) PROVE Shared'
  BY <1>2, BuildShared, ServeShared DEF ServerFor
<1>3. CASE UNCHANGED edgeVars
  BY <1>3 DEF edgeVars, Shared
<1> QED
  BY <1>1, <1>2, <1>3 DEF Next

(* The calls of one principal that got their server since the last purge share  *)
(* it, whatever else looks up, composes, stores or purges (edge.go:137-180).    *)
THEOREM CallsShareTheirServer == Spec => []OneServerPerPrincipal
<1>1. Spec => []Shared
  BY InitShared, NextShared, AlwaysTyped, PTL DEF Spec
<1>2. Shared => OneServerPerPrincipal
  BY DEF Shared, OneServerPerPrincipal
<1> QED
  BY <1>1, <1>2, PTL

-----------------------------------------------------------------------------
(* Catching up *)

(* What the serving snapshot and the set in effect give a principal. *)
Entitled(i) == [snap |-> current, grants |-> held.grants[i]]

CacheCurrent(i) == cache[i] # None => cache[i].view = current /\ cache[i].catalog = Entitled(i)

MemoCurrent(i) == \A e \in composed : e.id = i /\ e.snap = current => e.catalog = Entitled(i)

(* A call on its way through serverFor holds nothing that was replaced since. *)
CallCurrent(c) ==
    /\ call[c].pc \in {"snap", "set", "compose", "insert", "put"} => call[c].view = current
    /\ call[c].pc \in {"set", "compose", "insert"} => call[c].snap = current
    /\ call[c].pc = "compose" => call[c].set.grants[call[c].id] = held.grants[call[c].id]
    /\ call[c].pc \in {"insert", "put"} => call[c].catalog = Entitled(call[c].id)
    /\ call[c].pc = "serve" =>
         call[c].server.view = current /\ call[c].server.catalog = Entitled(call[c].id)

(* Neither the cache, nor the memo, nor a call has anything stale of i. *)
CaughtUp(i) ==
    /\ CacheCurrent(i) /\ MemoCurrent(i)
    /\ \A c \in Calls : call[c].id = i => CallCurrent(c)

LEMMA SourcesCatchUp ==
    ASSUME Typed, NEW i \in Ids, CaughtUp(i), BeginSwap \/ Swap \/ Apply,
           UNCHANGED <<current, held.grants[i]>>
    PROVE  CaughtUp(i)'
<1>1. UNCHANGED call /\ composed' \subseteq composed /\ (UNCHANGED cache \/ cache' = [j \in Ids |-> None])
  BY DEF BeginSwap, Swap, Apply, RebuildPurge, RebuildAnnounce, CommitSwap, StoreSet,
         ForgetComposed, ObservePrincipals, Purge
<1>2. CacheCurrent(i)' /\ MemoCurrent(i)'
  BY <1>1 DEF CaughtUp, CacheCurrent, MemoCurrent, Entitled
<1>3. \A c \in Calls : call'[c].id = i => CallCurrent(c)'
  BY <1>1 DEF CaughtUp, CallCurrent, Entitled
<1> QED
  BY <1>2, <1>3 DEF CaughtUp

(* It is enough to look at the call that moves. *)
LEMMA OthersStayCurrent ==
    ASSUME NEW i \in Ids, CaughtUp(i), NEW c \in Calls, UNCHANGED <<current, held>>,
           \A d \in Calls \ {c} : call'[d] = call[d],
           call'[c].id = i => CallCurrent(c)', CacheCurrent(i)', MemoCurrent(i)'
    PROVE  CaughtUp(i)'
<1>1. \A d \in Calls \ {c} : call'[d].id = i => CallCurrent(d)'
  BY DEF CaughtUp, CallCurrent, Entitled
<1> QED
  BY <1>1 DEF CaughtUp

LEMMA CallsCatchUp ==
    ASSUME Typed, Keyed, NEW i \in Ids, CaughtUp(i), NEW c \in Calls, Arrive(c) \/ ServerFor(c)
    PROVE  CaughtUp(i)'
<1>1. /\ UNCHANGED <<current, held>> /\ call \in [Calls -> CallRecords]
      /\ \A d \in Calls \ {c} : call'[d] = call[d]
  <2>1. call \in [Calls -> CallRecords]
    BY DEF Typed
  <2>2. CASE Arrive(c) \/ Lookup(c) \/ Put(c) \/ Answer(c) \/ ServerForRequest(c)
    <3>1. OnlyMoves(c) /\ UNCHANGED held
      BY <2>2, OthersMove
    <3>2. UNCHANGED current
      BY <2>2 DEF Arrive, Lookup, Put, Answer, ServerForRequest
    <3> QED
      BY <2>1, <3>1, <3>2 DEF OnlyMoves
  <2>3. CASE LoadView(c)
    BY <2>1, <2>3 DEF LoadView
  <2>4. CASE Compose(c)
    BY <2>1, <2>4 DEF Compose, Composed, Holds
  <2>5. CASE Insert(c)
    BY <2>1, <2>5 DEF Insert, Composed, Holds
  <2> QED
    BY <2>2, <2>3, <2>4, <2>5 DEF ServerFor
<1>2. /\ Entitled(i)' = Entitled(i)
      /\ CacheCurrent(i) /\ MemoCurrent(i) /\ (call[c].id = i => CallCurrent(c))
  BY <1>1 DEF CaughtUp, Entitled
<1>3. CASE Arrive(c) \/ Answer(c) \/ ServerForRequest(c)
  <2>1. UNCHANGED <<cache, composed>>
    BY <1>3 DEF Arrive, Answer, ServerForRequest
  <2>2. call'[c].pc \in {"idle", "lookup"}
    <3>1. CASE Arrive(c)
      BY <1>1, <3>1 DEF Arrive, CallRecords
    <3>2. CASE Answer(c)
      BY <1>1, <3>2, BlankIsTyped DEF Answer
    <3>3. CASE ServerForRequest(c)
      BY <1>1, <3>3, BlankIsTyped DEF ServerForRequest, CallRecords
    <3> QED
      BY <1>3, <3>1, <3>2, <3>3
  <2> QED
    BY <1>1, <1>2, <2>1, <2>2, OthersStayCurrent DEF CallCurrent, CacheCurrent, MemoCurrent
<1>4. CASE Lookup(c)
  <2>1. /\ call'[c].id = call[c].id /\ UNCHANGED <<cache, composed>>
        /\ \/ call'[c].pc = "view"
           \/ /\ call'[c].pc = "serve" /\ cache[call[c].id] # None
              /\ call'[c].server = cache[call[c].id]
    BY <1>1, <1>4 DEF Lookup, At, CallRecords
  <2> QED
    BY <1>1, <1>2, <2>1, OthersStayCurrent DEF CallCurrent, CacheCurrent, MemoCurrent
<1>5. CASE LoadView(c)
  <2>1. /\ call'[c].id = call[c].id /\ UNCHANGED <<cache, composed>>
        /\ \/ call'[c].pc = "snap" /\ call'[c].view = current
           \/ /\ At(c, "snap") /\ call'[c].pc = "set" /\ call'[c].snap = current
              /\ call'[c].view = call[c].view
           \/ /\ At(c, "set") /\ call'[c].pc = "compose" /\ call'[c].set = held
              /\ call'[c].view = call[c].view /\ call'[c].snap = call[c].snap
    BY <1>1, <1>5 DEF LoadView, At, CallRecords
  <2>2. call'[c].id = i => CallCurrent(c)'
    BY <1>1, <1>2, <2>1 DEF CallCurrent, At
  <2> QED
    BY <1>1, <1>2, <2>1, <2>2, OthersStayCurrent DEF CacheCurrent, MemoCurrent
<1>6. CASE Compose(c)
  <2>1. UNCHANGED <<cache, composed>> /\ At(c, "compose")
    BY <1>6 DEF Compose
  <2>2. CASE \E e \in Composed(c) : Holds(c, e.catalog)
    <3>1. PICK e \in Composed(c) : Holds(c, e.catalog)
      BY <2>2
    <3>2. /\ call'[c].id = call[c].id /\ call'[c].pc = "put" /\ call'[c].view = call[c].view
          /\ call'[c].catalog = e.catalog
      BY <1>1, <3>1 DEF Holds, CallRecords
    <3>3. e \in composed /\ e.id = call[c].id /\ e.snap = call[c].snap
      BY DEF Composed
    <3>4. call'[c].id = i => CallCurrent(c)'
      BY <1>2, <2>1, <3>2, <3>3, <1>1 DEF CallCurrent, MemoCurrent, At
    <3> QED
      BY <1>1, <1>2, <2>1, <3>4, OthersStayCurrent DEF CacheCurrent, MemoCurrent
  <2>3. CASE call' = [call EXCEPT ![c].pc = "insert", ![c].catalog = Composition(c)]
    <3>1. /\ call'[c].id = call[c].id /\ call'[c].pc = "insert" /\ call'[c].view = call[c].view
          /\ call'[c].snap = call[c].snap /\ call'[c].catalog = Composition(c)
      BY <1>1, <2>3 DEF CallRecords
    <3>2. call'[c].id = i => CallCurrent(c)'
      BY <1>1, <1>2, <2>1, <3>1 DEF CallCurrent, Composition, Entitled, At
    <3> QED
      BY <1>1, <1>2, <2>1, <3>2, OthersStayCurrent DEF CacheCurrent, MemoCurrent
  <2>4. CASE call' = [call EXCEPT ![c] = Blank]
    <3>1. call'[c].pc = "idle"
      BY <1>1, <2>4, BlankIsTyped
    <3> QED
      BY <1>1, <1>2, <2>1, <3>1, OthersStayCurrent DEF CallCurrent, CacheCurrent, MemoCurrent
  <2> QED
    BY <1>6, <2>2, <2>3, <2>4 DEF Compose
<1>7. CASE Insert(c)
  <2>1. PICK cat :
          /\ Holds(c, cat) /\ UNCHANGED cache /\ At(c, "insert")
          /\ \/ UNCHANGED composed /\ \E e \in Composed(c) : cat = e.catalog
             \/ /\ cat = call[c].catalog
                /\ composed' = composed \cup {[snap |-> call[c].snap, gen |-> call[c].set.gen,
                                               id |-> call[c].id, catalog |-> cat]}
    BY <1>7 DEF Insert
  <2>2. /\ call'[c].id = call[c].id /\ call'[c].pc = "put" /\ call'[c].view = call[c].view
        /\ call'[c].catalog = cat
    BY <1>1, <2>1 DEF Holds, CallRecords
  <2>3. call[c].id = i => cat = Entitled(i)
    BY <1>2, <2>1 DEF CallCurrent, MemoCurrent, Composed, At
  <2>4. call'[c].id = i => CallCurrent(c)'
    BY <1>1, <1>2, <2>1, <2>2, <2>3 DEF CallCurrent, At
  <2>5. MemoCurrent(i)'
    BY <1>1, <1>2, <2>1, <2>3 DEF MemoCurrent
  <2> QED
    BY <1>1, <1>2, <2>1, <2>4, <2>5, OthersStayCurrent DEF CacheCurrent
<1>8. CASE Put(c)
  <2>1. call[c].id = i => Built(c).view = current /\ Built(c).catalog = Entitled(i)
    BY <1>2, <1>8 DEF Put, At, CallCurrent, Built
  <2>2. cache'[i] = cache[i] \/ (call[c].id = i /\ cache'[i] = Built(c))
    BY <1>8 DEF Put, Typed
  <2>3. /\ call'[c].pc = "serve" /\ call'[c].id = call[c].id /\ call'[c].server = cache'[call[c].id]
        /\ UNCHANGED composed
    BY <1>1, <1>8, BlankIsTyped DEF Put, CallRecords
  <2>4. CacheCurrent(i)' /\ MemoCurrent(i)'
    BY <1>1, <1>2, <2>1, <2>2, <2>3 DEF CacheCurrent, MemoCurrent
  <2>5. call[c].id = i => cache'[i].view = current /\ cache'[i].catalog = Entitled(i)
    BY <1>2, <1>8, <2>1 DEF Put, Typed, CacheCurrent
  <2>6. call'[c].id = i => CallCurrent(c)'
    BY <1>1, <1>2, <2>3, <2>5 DEF CallCurrent
  <2> QED
    BY <1>1, <2>4, <2>6, OthersStayCurrent
<1> QED
  BY <1>3, <1>4, <1>5, <1>6, <1>7, <1>8 DEF ServerFor

(* A catalog that has caught up stays so: while the snapshot and a principal's  *)
(* grants are what they were, no call, heartbeat, purge or set that changes     *)
(* others brings a stale server of it back (edge.go:137-229): the safety half   *)
(* of CatalogsCatchUp.                                                          *)
THEOREM CatalogsStayCurrent ==
    Spec => [][\A i \in Ids :
                 CaughtUp(i) /\ UNCHANGED <<current, held.grants[i]>> => CaughtUp(i)']_edgeVars
<1>1. ASSUME Typed, Keyed, Next, NEW i \in Ids, CaughtUp(i), UNCHANGED <<current, held.grants[i]>>
      PROVE  CaughtUp(i)'
  BY <1>1, SourcesCatchUp, CallsCatchUp DEF Next
<1>2. Typed /\ Keyed /\ [Next]_edgeVars =>
        [\A i \in Ids : CaughtUp(i) /\ UNCHANGED <<current, held.grants[i]>> => CaughtUp(i)']_edgeVars
  BY <1>1
<1>3. Spec => []Keyed
  BY InitKeyed, NextKeyed, AlwaysTyped, PTL DEF Spec
<1> QED
  BY <1>2, <1>3, AlwaysTyped, PTL DEF Spec

=============================================================================
