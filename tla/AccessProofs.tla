---------------------------- MODULE AccessProofs ----------------------------
(***************************************************************************)
(* Theorems about Access and the decisions of Authz, for any users, keys,  *)
(* tenants, grants, roles, handlers, timers and bounds.                    *)
(***************************************************************************)
EXTENDS Access, TLAPS

(* Requests leave the distribution alone. *)
Distributed == <<version, draft, file, gateway, serving>>

LEMMA ConstantsTyped ==
    /\ NoArg \in Arg /\ NoSet \in PrincipalSet /\ NoDraft \in Draft
    /\ DefaultCatalog \subseteq Rows /\ RootGrant \in Grants
<1>1. NoArg \in Arg
  BY UsersAssumption, SlugsAssumption, KeysAssumption DEF NoArg, Arg
<1>2. NoSet \in PrincipalSet
  BY DEF NoSet, PrincipalSet
<1>3. NoDraft \in Draft
  BY <1>2 DEF NoDraft, Draft
<1>4. DefaultCatalog \subseteq Rows
  <2>1. SUFFICES ASSUME NEW row \in DefaultCatalog PROVE row \in Rows
    OBVIOUS
  <2>2. row = <<row[1], row[2]>>
    BY CatalogAssumption
  <2> QED
    BY <2>2 DEF Rows, Builtins, Permissions
<1> QED
  BY <1>1, <1>2, <1>3, <1>4, GrantsAssumption

LEMMA InitTyped == Init => Typed
<1> SUFFICES ASSUME Init PROVE Typed
  OBVIOUS
<1> USE ConstantsTyped, UsersAssumption, SlugsAssumption, MaxRequestsAssumption, MaxFaultsAssumption
<1>1. /\ tenants \in [Slugs -> Nat] /\ lastId \in Nat
      /\ users \in [Users -> {"absent", "active", "disabled", "gone"}]
  BY DEF Init, Empty, Seeded
<1>2. grants \in [Users -> SUBSET Grants]
  BY GrantSetsAssumption DEF Init, Empty, Seeded
<1>3. roles \subseteq Builtins \cup {CustomRole}
  BY DEF Init, Empty, Seeded
<1>4. catalog \subseteq Rows
  BY RoleSetsAssumption DEF Init, Empty, Seeded, Rows
<1>5. keys \in [Keys -> Key]
  BY DEF Init, Key
<1>6. step \in [Workers -> Steps] /\ arg \in [Workers -> Arg] /\ draft \in [Workers -> Draft]
  BY DEF Init, Steps
<1>7. /\ serving = tenants /\ held = grants /\ version = 0 /\ file = NoSet /\ gateway = NoSet
      /\ requests = 0 /\ faults = 0
  BY DEF Init
<1>8. requests \in 0..MaxRequests /\ faults \in 0..MaxFaults
  BY <1>7
<1> QED
  BY <1>1, <1>2, <1>3, <1>4, <1>5, <1>6, <1>7, <1>8 DEF Typed

(* What a worker does next, and what its request is about. *)
WorkTyped == step \in [Workers -> Steps] /\ arg \in [Workers -> Arg]

LEMMA GotoTyped ==
    ASSUME WorkTyped, NEW w \in Workers, NEW next \in Steps, Goto(w, next),
           UNCHANGED arg \/ Forget(w)
    PROVE  WorkTyped'
BY ConstantsTyped DEF WorkTyped, Goto, Forget

LEMMA PublishesTyped ==
    ASSUME WorkTyped, NEW w \in Workers, Publishes(w) \/ Ends(w)
    PROVE  WorkTyped'
BY GotoTyped DEF Publishes, Ends, Steps

LEMMA KeysGoneTyped ==
    ASSUME Typed, NEW doomed
    PROVE  WithKeysGone(doomed) \in [Keys -> Key]
<1>1. \A k \in Keys : [keys[k] EXCEPT !.state = "gone", !.tenant = 0, !.declared = {}] \in Key
  BY DEF Typed, Key
<1> QED
  BY <1>1 DEF WithKeysGone, Typed

LEMMA RequestTyped ==
    ASSUME Typed, NEW w \in Workers, Request(w), UNCHANGED Distributed
    PROVE  Typed'
<1> USE DEF Distributed
<1>1. requests' \in 0..MaxRequests /\ UNCHANGED faults
  BY MaxRequestsAssumption DEF Request, Begin, Typed
<1>2. WorkTyped
  BY DEF Typed, WorkTyped
<1>3. SUFFICES WorkTyped' /\ keys' \in [Keys -> Key]
               /\ tenants' \in [Slugs -> Nat] /\ lastId' \in Nat
               /\ users' \in [Users -> {"absent", "active", "disabled", "gone"}]
               /\ grants' \in [Users -> SUBSET Grants] /\ held' \in [Users -> SUBSET Grants]
               /\ roles' \subseteq Builtins \cup {CustomRole} /\ catalog' \subseteq Rows
  BY <1>1 DEF Typed, WorkTyped
<1>4. CASE Boot(w)
  BY <1>2, <1>4, GotoTyped DEF Typed, Boot, dbVars, Steps
<1>5. CASE \E caller \in Callers, s \in Slugs : CreateTenant(w, caller, s)
  BY <1>2, <1>5, PublishesTyped DEF Typed, CreateTenant, CreateTenantRow
<1>6. CASE \E caller \in Callers, s \in Slugs : DeleteTenant(w, caller, s)
  <2>1. PICK slug \in Slugs : \E caller \in Callers : DeleteTenant(w, caller, slug)
    BY <1>6
  <2>2. arg' \in [Workers -> Arg]
    <3>1. tenants[slug] \in Nat /\ arg[w] \in Arg
      BY DEF Typed
    <3>2. [arg[w] EXCEPT !.slug = slug, !.tenant = tenants[slug]] \in Arg
      BY <3>1 DEF Arg
    <3> QED
      BY <2>1, <3>2 DEF DeleteTenant, Typed
  <2>3. step' \in [Workers -> Steps]
    BY <2>1 DEF DeleteTenant, Goto, Typed, Steps
  <2> QED
    BY <2>1, <2>2, <2>3 DEF DeleteTenant, Typed, WorkTyped, dbVars
<1>7. CASE \E caller \in Callers, u \in Users : CreateUser(w, caller, u)
  BY <1>2, <1>7, PublishesTyped DEF Typed, CreateUser, CreateUserRow
<1>8. CASE \E caller \in Callers, u \in Users : DeleteUser(w, caller, u)
  <2>1. PICK u \in Users : \E caller \in Callers : DeleteUser(w, caller, u)
    BY <1>8
  <2>2. keys' \in [Keys -> Key]
    BY <2>1, KeysGoneTyped DEF DeleteUser, DeleteUserRow
  <2> QED
    BY <1>2, <2>1, <2>2, PublishesTyped DEF Typed, DeleteUser, DeleteUserRow
<1>9. CASE \E caller \in Callers, u \in Users, status \in {"active", "disabled"} : UpdateUser(w, caller, u, status)
  BY <1>2, <1>9, PublishesTyped DEF Typed, UpdateUser, UpdateUserRow
<1>10. CASE \E caller \in Callers, u \in Users, want \in GrantSets : PutGrants(w, caller, u, want)
  <2>1. PICK u \in Users, want \in GrantSets : \E caller \in Callers : PutGrants(w, caller, u, want)
    BY <1>10
  <2>2. arg' \in [Workers -> Arg]
    <3>1. want \subseteq Grants /\ arg[w] \in Arg
      BY GrantSetsAssumption DEF Typed
    <3>2. [arg[w] EXCEPT !.user = u, !.add = want] \in Arg
      BY <3>1 DEF Arg
    <3> QED
      BY <2>1, <3>2 DEF PutGrants, Typed
  <2>3. step' \in [Workers -> Steps]
    BY <2>1 DEF PutGrants, Goto, Typed, Steps
  <2> QED
    BY <2>1, <2>2, <2>3 DEF PutGrants, Typed, WorkTyped, dbVars
<1>11. CASE \E caller \in Callers, u \in Users, k \in Keys, s \in Slugs, spans \in BOOLEAN, declared \in DeclaredSets :
             MintAPIKey(w, caller, u, k, s, spans, declared)
  <2>1. PICK u \in Users, k \in Keys, s \in Slugs, spans \in BOOLEAN, declared \in DeclaredSets :
             \E caller \in Callers : MintAPIKey(w, caller, u, k, s, spans, declared)
    BY <1>11
  <2>2. arg' \in [Workers -> Arg]
    <3>1. declared \subseteq Grants /\ arg[w] \in Arg
      BY GrantSetsAssumption DEF Typed
    <3>2. [arg[w] EXCEPT !.key = k, !.add = declared] \in Arg
      BY <3>1 DEF Arg
    <3> QED
      BY <2>1, <3>2 DEF MintAPIKey, CreateAPIKey, Typed
  <2>3. step' \in [Workers -> Steps]
    BY <2>1 DEF MintAPIKey, CreateAPIKey, Goto, Typed, Steps
  <2>4. keys' \in [Keys -> Key]
    <3>1. (IF spans THEN 0 ELSE tenants[s]) \in Nat
      BY DEF Typed
    <3>2. [state |-> "active", owner |-> u,
           tenant |-> IF spans THEN 0 ELSE tenants[s], declared |-> {}] \in Key
      BY <3>1 DEF Key
    <3> QED
      BY <2>1, <3>2 DEF MintAPIKey, CreateAPIKey, Typed
  <2> QED
    BY <2>1, <2>2, <2>3, <2>4 DEF MintAPIKey, CreateAPIKey, Typed, WorkTyped
<1>12. CASE \E caller \in Callers, k \in Keys : RevokeAPIKey(w, caller, k)
  <2>1. PICK k \in Keys : \E caller \in Callers : RevokeAPIKey(w, caller, k)
    BY <1>12
  <2>2. keys' \in [Keys -> Key]
    BY <2>1 DEF RevokeAPIKey, RevokeKeyRow, Typed, Key
  <2> QED
    BY <1>2, <2>1, <2>2, PublishesTyped DEF Typed, RevokeAPIKey, RevokeKeyRow
<1>13. CASE \E caller \in Callers, role \in EditedRoles, permissions \in RoleSets :
              PutRole(w, caller, role, permissions)
  BY <1>2, <1>13, PublishesTyped, RoleSetsAssumption, RolesAssumption DEF Typed, PutRole, UpsertRole, WriteRole, Rows
<1>14. CASE \E caller \in Callers : DeleteRole(w, caller)
  BY <1>2, <1>14, GotoTyped DEF Typed, DeleteRole, dbVars, Steps
<1> QED
  BY <1>4, <1>5, <1>6, <1>7, <1>8, <1>9, <1>10, <1>11, <1>12, <1>13, <1>14 DEF Request

LEMMA StatementTyped ==
    ASSUME Typed, NEW w \in Workers, Statement(w), UNCHANGED Distributed
    PROVE  Typed'
<1> USE DEF Distributed
<1>1. WorkTyped
  BY DEF Typed, WorkTyped
<1>2. SUFFICES WorkTyped' /\ keys' \in [Keys -> Key]
               /\ tenants' \in [Slugs -> Nat] /\ lastId' \in Nat
               /\ users' \in [Users -> {"absent", "active", "disabled", "gone"}]
               /\ grants' \in [Users -> SUBSET Grants] /\ held' \in [Users -> SUBSET Grants]
               /\ roles' \subseteq Builtins \cup {CustomRole} /\ catalog' \subseteq Rows
  BY DEF Statement, Typed, WorkTyped
<1>3. arg[w] \in Arg
  BY DEF Typed
<1>4. CASE DropGrants(w)
  <2>1. grants' \in [Users -> SUBSET Grants]
    <3>1. [u \in Users |-> {g \in grants[u] : ~ScopeCovers(<<arg[w].slug>>, g.scope)}]
            \in [Users -> SUBSET Grants]
      BY DEF Typed
    <3> QED
      BY <1>4, <3>1 DEF DropGrants, DeleteGrantsInTenant, Typed
  <2>2. WorkTyped'
    BY <1>1, <1>4, GotoTyped, PublishesTyped DEF DropGrants, DeleteGrantsInTenant, Steps
  <2> QED
    BY <1>4, <2>1, <2>2 DEF DropGrants, DeleteGrantsInTenant, Typed
<1>5. CASE DropTenant(w)
  <2>1. keys' \in [Keys -> Key]
    BY <1>5, KeysGoneTyped DEF DropTenant, DeleteTenantRow
  <2>2. tenants' \in [Slugs -> Nat]
    BY <1>5 DEF DropTenant, DeleteTenantRow, Typed
  <2> QED
    BY <1>1, <1>5, <2>1, <2>2, PublishesTyped DEF DropTenant, DeleteTenantRow, Typed
<1>6. CASE ReadHave(w)
  <2>1. arg' \in [Workers -> Arg]
    BY <1>3, <1>6 DEF ReadHave, Typed, Arg
  <2>2. step' \in [Workers -> Steps]
    BY <1>6 DEF ReadHave, Goto, Typed, Steps
  <2> QED
    BY <1>6, <2>1, <2>2 DEF ReadHave, Typed, WorkTyped, dbVars
<1>7. CASE SetGrants(w)
  <2> DEFINE u == arg[w].user
  <2>1. u \in Users /\ arg[w].add \subseteq Grants /\ arg[w].drop \subseteq Grants
    BY <1>3 DEF Arg
  <2>2. CASE \E g \in arg[w].add :
               /\ grants' = [grants EXCEPT ![u] = @ \cup {g}]
               /\ held' = [held EXCEPT ![u] = @ \cup {g}]
               /\ arg' = [arg EXCEPT ![w].add = @ \ {g}]
               /\ UNCHANGED step
    <3>1. arg' \in [Workers -> Arg]
      BY <1>3, <2>2 DEF Typed, Arg
    <3> QED
      BY <1>7, <2>1, <2>2, <3>1 DEF SetGrants, RevokeGrant, CreateGrant, Typed, WorkTyped
  <2>3. CASE \E g \in arg[w].drop :
               /\ grants' = [grants EXCEPT ![u] = @ \ {g}]
               /\ arg' = [arg EXCEPT ![w].drop = @ \ {g}]
               /\ UNCHANGED <<step, held>>
    <3>1. arg' \in [Workers -> Arg]
      BY <1>3, <2>3 DEF Typed, Arg
    <3> QED
      BY <1>7, <2>1, <2>3, <3>1 DEF SetGrants, RevokeGrant, CreateGrant, Typed, WorkTyped
  <2>4. CASE (Ends(w) \/ Publishes(w)) /\ UNCHANGED <<grants, held>>
    BY <1>1, <1>7, <2>4, PublishesTyped DEF SetGrants, RevokeGrant, CreateGrant, Typed
  <2> QED
    BY <1>7, <2>2, <2>3, <2>4 DEF SetGrants, RevokeGrant, CreateGrant
<1>8. CASE AttachGrants(w)
  <2> DEFINE k == arg[w].key
  <2>1. k \in Keys /\ arg[w].add \subseteq Grants
    BY <1>3 DEF Arg
  <2>2. CASE \E g \in arg[w].add :
               /\ keys' = [keys EXCEPT ![k].declared = @ \cup {g}]
               /\ arg' = [arg EXCEPT ![w].add = @ \ {g}]
               /\ UNCHANGED step
    <3>1. arg' \in [Workers -> Arg]
      BY <1>3, <2>2 DEF Typed, Arg
    <3>2. keys' \in [Keys -> Key]
      BY <2>1, <2>2 DEF Typed, Key
    <3> QED
      BY <1>8, <2>2, <3>1, <3>2 DEF AttachGrants, AddAPIKeyGrant, Typed, WorkTyped
  <2>3. CASE (Ends(w) \/ Publishes(w)) /\ UNCHANGED keys
    BY <1>1, <1>8, <2>3, PublishesTyped DEF AttachGrants, AddAPIKeyGrant, Typed
  <2> QED
    BY <1>8, <2>2, <2>3 DEF AttachGrants, AddAPIKeyGrant
<1>9. CASE DropRole(w)
  BY <1>1, <1>9, PublishesTyped DEF DropRole, DeleteRoleRow, Typed
<1>10. CASE SeedRows(w)
  <2>1. catalog' \subseteq Rows /\ roles' \subseteq Builtins \cup {CustomRole}
    BY <1>10, ConstantsTyped DEF SeedRows, OfRole, Typed
  <2>2. WorkTyped'
    BY <1>1, <1>10, GotoTyped DEF SeedRows, Steps, WorkTyped
  <2> QED
    BY <1>10, <2>1, <2>2 DEF SeedRows, Typed
<1>11. CASE SeedTenant(w)
  <2>1. tenants' \in [Slugs -> Nat] /\ lastId' \in Nat
    <3>1. CASE CreateTenantRow(PlatformSlug)
      BY <3>1, SlugsAssumption DEF CreateTenantRow, Typed
    <3> QED
      BY <1>11, <3>1 DEF SeedTenant, Typed
  <2>2. WorkTyped'
    BY <1>1, <1>11, GotoTyped DEF SeedTenant, Steps
  <2> QED
    BY <1>11, <2>1, <2>2 DEF SeedTenant, Typed
<1>12. CASE SeedUser(w)
  <2>1. users' \in [Users -> {"absent", "active", "disabled", "gone"}]
    BY <1>12, UsersAssumption DEF SeedUser, CreateUserRow, Typed
  <2>2. WorkTyped'
    BY <1>1, <1>12, GotoTyped DEF SeedUser, CreateUserRow, Steps
  <2> QED
    BY <1>12, <2>1, <2>2 DEF SeedUser, CreateUserRow, Typed
<1>13. CASE SeedGrant(w)
  <2>1. grants' \in [Users -> SUBSET Grants] /\ held' \in [Users -> SUBSET Grants]
    BY <1>13, ConstantsTyped DEF SeedGrant, CreateGrant, Typed
  <2>2. WorkTyped'
    BY <1>1, <1>13, GotoTyped DEF SeedGrant, CreateGrant, Steps
  <2> QED
    BY <1>13, <2>1, <2>2 DEF SeedGrant, CreateGrant, Typed
<1> QED
  BY <1>4, <1>5, <1>6, <1>7, <1>8, <1>9, <1>10, <1>11, <1>12, <1>13 DEF Statement

(* The queries of a publication, and what they draft. *)
LEMMA PublishedTyped ==
    ASSUME Typed, NEW d \in Draft
    PROVE  Published(d) \subseteq Principal
<1>1. SUFFICES ASSUME NEW k \in Keys
               PROVE  [key |-> k, owner |-> keys[k].owner, tenant |-> keys[k].tenant,
                       grants |-> Effective(d.declared[k], d.grants[keys[k].owner])] \in Principal
  BY DEF Published
<1>2. keys[k].owner \in Users /\ keys[k].tenant \in Nat
  BY DEF Typed, Key
<1>3. d.declared[k] \subseteq Grants /\ d.grants[keys[k].owner] \subseteq Grants
  BY <1>2 DEF Draft
<1>4. Effective(d.declared[k], d.grants[keys[k].owner]) \subseteq Grants
  BY <1>3 DEF Effective, Intersect
<1> QED
  BY <1>2, <1>4 DEF Principal

LEMMA CatalogTyped ==
    ASSUME Typed
    PROVE  Catalog \subseteq Rows
BY ConstantsTyped DEF Catalog, Typed

LEMMA ReadTyped ==
    ASSUME Typed, NEW w \in Workers, Read(w), UNCHANGED <<gateway, serving>>
    PROVE  Typed'
<1>1. draft[w] \in Draft /\ draft[w].set \in PrincipalSet
  BY DEF Typed, Draft
<1>2. SUFFICES /\ version' \in Nat /\ draft' \in [Workers -> Draft]
               /\ step' \in [Workers -> Steps]
  BY DEF Read, dbVars, Typed
<1>3. CASE ReadUsers(w)
  <2>1. version' \in Nat /\ step' \in [Workers -> Steps]
    <3>1. version \in Nat /\ version' = version + 1
      BY <1>3 DEF ReadUsers, Typed
    <3>2. step' \in [Workers -> Steps]
      BY <1>3 DEF ReadUsers, Goto, Steps, Typed
    <3> QED
      BY <3>1, <3>2
  <2>2. ListTenants \subseteq Nat /\ ActiveUsers \subseteq Users
    BY DEF Typed, ListTenants, ActiveUsers
  <2>3. draft' \in [Workers -> Draft]
    <3> DEFINE new == [draft[w] EXCEPT !.set = [@ EXCEPT !.version = version'],
                                       !.ids = ListTenants, !.active = ActiveUsers]
    <3>1. [draft[w].set EXCEPT !.version = version'] \in PrincipalSet
      BY <1>1, <2>1 DEF PrincipalSet
    <3>2. new \in Draft
      BY <1>1, <2>2, <3>1 DEF Draft
    <3> QED
      BY <1>3, <3>2 DEF ReadUsers, Typed
  <2> QED
    BY <2>1, <2>3
<1>4. CASE ReadGrants(w)
  <2>1. [draft[w] EXCEPT !.grants = grants] \in Draft
    BY <1>1 DEF Draft, Typed
  <2> QED
    BY <1>4, <2>1 DEF ReadGrants, Goto, Steps, Typed
<1>5. CASE ReadKeyGrants(w)
  <2>1. ListAllAPIKeyGrants \in [Keys -> SUBSET Grants]
    BY DEF ListAllAPIKeyGrants, Typed, Key
  <2>2. [draft[w] EXCEPT !.declared = ListAllAPIKeyGrants] \in Draft
    BY <1>1, <2>1 DEF Draft
  <2> QED
    BY <1>5, <2>2 DEF ReadKeyGrants, Goto, Steps, Typed
<1>6. CASE ReadKeys(w)
  <2> DEFINE set == [NoSet EXCEPT !.version = draft[w].set.version,
                                  !.principals = Published(draft[w])]
  <2>1. set \in PrincipalSet
    BY <1>1, PublishedTyped, ConstantsTyped DEF PrincipalSet
  <2>2. [NoDraft EXCEPT !.set = set] \in Draft
    BY <2>1, ConstantsTyped DEF Draft
  <2>3. draft' = [draft EXCEPT ![w] = [NoDraft EXCEPT !.set = set]]
    BY <1>6 DEF ReadKeys, NoDraft
  <2> QED
    BY <1>6, <2>2, <2>3 DEF ReadKeys, Goto, Steps, Typed
<1>7. CASE ReadCatalog(w)
  <2>1. [draft[w].set EXCEPT !.catalog = Catalog] \in PrincipalSet
    BY <1>1, CatalogTyped DEF PrincipalSet
  <2>2. [draft[w] EXCEPT !.set = [@ EXCEPT !.catalog = Catalog]] \in Draft
    BY <1>1, <2>1 DEF Draft
  <2> QED
    BY <1>7, <2>2 DEF ReadCatalog, Goto, Steps, Typed
<1> QED
  BY <1>3, <1>4, <1>5, <1>6, <1>7 DEF Read

LEMMA StepTyped == Typed /\ [Next]_vars => Typed'
<1> SUFFICES ASSUME Typed, [Next]_vars PROVE Typed'
  OBVIOUS
<1>1. WorkTyped
  BY DEF Typed, WorkTyped
<1>2. CASE \E w \in Workers : ControlPlane(w)
  <2>1. PICK w \in Workers : ControlPlane(w)
    BY <1>2
  <2>2. CASE (Request(w) \/ Statement(w)) /\ UNCHANGED Distributed
    BY <2>2, RequestTyped, StatementTyped
  <2>3. CASE Read(w) /\ UNCHANGED <<gateway, serving>>
    BY <2>3, ReadTyped
  <2>4. CASE Write(w) /\ UNCHANGED <<gateway, serving>>
    <3>1. draft[w].set \in PrincipalSet
      BY DEF Typed, Draft
    <3>2. WorkTyped'
      BY <1>1, <2>4, PublishesTyped DEF Write
    <3> QED
      BY <2>4, <3>1, <3>2, ConstantsTyped DEF Write, dbVars, Typed, WorkTyped
  <2> QED
    BY <2>1, <2>2, <2>3, <2>4 DEF ControlPlane, Distributed
<1>3. CASE \E h \in Handlers : Dies(h) /\ UNCHANGED <<gateway, serving>>
  <2>1. PICK h \in Workers : Dies(h) /\ UNCHANGED <<gateway, serving>>
    BY <1>3 DEF Workers
  <2>2. WorkTyped'
    BY <1>1, <2>1, PublishesTyped DEF Dies
  <2>3. faults' \in 0..MaxFaults
    <3>1. faults \in 0..MaxFaults
      BY DEF Typed
    <3>2. faults < MaxFaults /\ faults' = faults + 1
      BY <2>1 DEF Dies
    <3> QED
      BY <3>1, <3>2, MaxFaultsAssumption
  <2> QED
    BY <2>1, <2>2, <2>3, ConstantsTyped DEF Dies, dbVars, Typed, WorkTyped
<1>4. CASE \E t \in Timers : Heartbeat(t) /\ UNCHANGED <<gateway, serving>>
  <2>1. PICK t \in Workers : Heartbeat(t) /\ UNCHANGED <<gateway, serving>>
    BY <1>4 DEF Workers
  <2>2. WorkTyped'
    BY <1>1, <2>1, PublishesTyped DEF Heartbeat
  <2> QED
    BY <2>1, <2>2 DEF Heartbeat, dbVars, Typed, WorkTyped
<1>5. CASE Rebuild
  BY <1>5 DEF Rebuild, dbVars, Typed
<1>6. CASE Poll
  BY <1>6 DEF Poll, dbVars, Typed
<1>7. CASE UNCHANGED vars
  BY <1>7 DEF vars, dbVars, Typed
<1> QED
  BY <1>2, <1>3, <1>4, <1>5, <1>6, <1>7 DEF Next, Workers

-----------------------------------------------------------------------------
(* What the foreign keys keep. *)

LEMMA InitReferenced == Init => Referenced
<1> SUFFICES ASSUME Init PROVE Referenced
  OBVIOUS
<1>1. Existing = {}
  BY DEF Init, Existing
<1>2. \A u \in Users : grants[u] # {} => HasRow(u)
  BY DEF Init, Empty, Seeded, HasRow
<1> QED
  BY <1>1, <1>2 DEF Referenced

(* A statement that touches neither tenants, accounts, grants nor keys. *)
References == <<tenants, users, grants, keys>>

LEMMA UntouchedReferenced ==
    ASSUME Referenced, UNCHANGED References
    PROVE  Referenced'
BY DEF Referenced, References, Existing, HasRow

LEMMA CreateReferenced ==
    ASSUME Typed, Referenced, NEW slug \in Slugs, CreateTenantRow(slug), UNCHANGED <<users, grants, keys>>
    PROVE  Referenced'
<1>1. \A k \in Existing : keys[k].tenant = 0 \/ \E s \in Slugs : keys[k].tenant = tenants'[s]
  BY DEF CreateTenantRow, Referenced, Typed
<1> QED
  BY <1>1 DEF Referenced, Existing, HasRow

LEMMA RequestReferenced ==
    ASSUME Typed, Referenced, NEW w \in Workers, Request(w)
    PROVE  Referenced'
<1>1. CASE UNCHANGED References
  BY <1>1, UntouchedReferenced
<1>2. CASE \E caller \in Callers, s \in Slugs : CreateTenant(w, caller, s)
  BY <1>2, CreateReferenced DEF CreateTenant, CreateTenantRow
<1>3. CASE \E caller \in Callers, u \in Users : CreateUser(w, caller, u)
  BY <1>3 DEF CreateUser, CreateUserRow, Referenced, Existing, HasRow, Typed
<1>4. CASE \E caller \in Callers, u \in Users, status \in {"active", "disabled"} : UpdateUser(w, caller, u, status)
  BY <1>4 DEF UpdateUser, UpdateUserRow, Referenced, Existing, HasRow, Typed
<1>5. CASE \E caller \in Callers, u \in Users : DeleteUser(w, caller, u)
  <2>1. PICK u \in Users : /\ users' = [users EXCEPT ![u] = "gone"]
                           /\ grants' = [grants EXCEPT ![u] = {}]
                           /\ keys' = WithKeysGone({k \in Existing : keys[k].owner = u})
                           /\ UNCHANGED tenants
    BY <1>5 DEF DeleteUser, DeleteUserRow
  <2>2. \A k \in Keys : k \in Existing' => /\ k \in Existing /\ keys'[k] = keys[k]
                                           /\ keys[k].owner # u
    BY <2>1 DEF WithKeysGone, Existing, Typed, Key
  <2>3. \A k \in Existing' : k \in Keys
    BY DEF Existing
  <2> QED
    BY <2>1, <2>2, <2>3 DEF Referenced, HasRow, Typed
<1>6. CASE \E caller \in Callers, u \in Users, k \in Keys, s \in Slugs, spans \in BOOLEAN, declared \in DeclaredSets :
             MintAPIKey(w, caller, u, k, s, spans, declared)
  <2>1. PICK u \in Users, k \in Keys, s \in Slugs, spans \in BOOLEAN, declared \in DeclaredSets :
             \E caller \in Callers : MintAPIKey(w, caller, u, k, s, spans, declared)
    BY <1>6
  <2>2. grants[u] # {} /\ UNCHANGED <<tenants, users, grants>>
    BY <2>1 DEF MintAPIKey, CreateAPIKey, AnyReaches
  <2>3. HasRow(u)
    BY <2>2 DEF Referenced
  <2>4. /\ keys'[k].owner = u
        /\ keys'[k].tenant = 0 \/ keys'[k].tenant = tenants[s]
    <3>1. keys' = [keys EXCEPT ![k] = [state |-> "active", owner |-> u,
           tenant |-> IF spans THEN 0 ELSE tenants[s], declared |-> {}]]
      BY <2>1 DEF MintAPIKey, CreateAPIKey
    <3>2. keys'[k] = [state |-> "active", owner |-> u,
           tenant |-> IF spans THEN 0 ELSE tenants[s], declared |-> {}]
      BY <3>1 DEF Typed
    <3> QED
      BY <3>2
  <2>5. \A j \in Existing' : j \in Keys /\ (j = k \/ (j \in Existing /\ keys'[j] = keys[j]))
    BY <2>1 DEF MintAPIKey, CreateAPIKey, Typed, Existing
  <2> QED
    BY <2>2, <2>3, <2>4, <2>5 DEF Referenced, HasRow
<1>7. CASE \E caller \in Callers, k \in Keys : RevokeAPIKey(w, caller, k)
  <2>1. PICK k \in Existing : /\ keys' = [keys EXCEPT ![k].state = "revoked"]
                              /\ UNCHANGED <<tenants, users, grants>>
    BY <1>7 DEF RevokeAPIKey, RevokeKeyRow
  <2>2. \A j \in Existing' : /\ j \in Existing
                             /\ keys'[j].owner = keys[j].owner /\ keys'[j].tenant = keys[j].tenant
    BY <2>1 DEF Typed, Existing, Key
  <2> QED
    BY <2>1, <2>2 DEF Referenced, HasRow
<1> QED
  BY <1>1, <1>2, <1>3, <1>4, <1>5, <1>6, <1>7
     DEF Request, Boot, DeleteTenant, PutGrants, PutRole, UpsertRole, DeleteRole, References, dbVars

LEMMA StatementReferenced ==
    ASSUME Typed, Referenced, NEW w \in Workers, Statement(w)
    PROVE  Referenced'
<1>1. arg[w] \in Arg
  BY DEF Typed
<1>2. CASE UNCHANGED References
  BY <1>2, UntouchedReferenced
<1>3. CASE DropGrants(w)
  <2>1. \A u \in Users : grants'[u] \subseteq grants[u]
    BY <1>3 DEF DropGrants, DeleteGrantsInTenant
  <2> QED
    BY <1>3, <2>1 DEF DropGrants, DeleteGrantsInTenant, Referenced, Existing, HasRow
<1>4. CASE DropTenant(w)
  <2>1. \A k \in Keys : k \in Existing' => /\ k \in Existing /\ keys'[k] = keys[k]
                                           /\ keys[k].tenant # arg[w].tenant
    BY <1>4 DEF DropTenant, DeleteTenantRow, WithKeysGone, Existing, Typed, Key
  <2>2. \A s \in Slugs : tenants[s] # arg[w].tenant => tenants'[s] = tenants[s]
    BY <1>4 DEF DropTenant, DeleteTenantRow
  <2>3. \A k \in Existing' : k \in Keys
    BY DEF Existing
  <2> QED
    BY <1>4, <2>1, <2>2, <2>3 DEF DropTenant, DeleteTenantRow, Referenced, HasRow
<1>5. CASE SetGrants(w)
  <2> DEFINE u == arg[w].user
  <2>1. u \in Users
    BY <1>1 DEF Arg
  <2>2. CASE \E g \in arg[w].add : HasRow(u) /\ grants' = [grants EXCEPT ![u] = @ \cup {g}]
    BY <1>5, <2>1, <2>2 DEF SetGrants, RevokeGrant, CreateGrant, Referenced, Existing, HasRow, Typed
  <2>3. CASE \E g \in arg[w].drop : grants' = [grants EXCEPT ![u] = @ \ {g}]
    BY <1>5, <2>1, <2>3 DEF SetGrants, RevokeGrant, CreateGrant, Referenced, Existing, HasRow, Typed
  <2>4. CASE UNCHANGED grants
    BY <1>5, <2>4, UntouchedReferenced DEF SetGrants, RevokeGrant, CreateGrant, References
  <2> QED
    BY <1>5, <2>2, <2>3, <2>4 DEF SetGrants, RevokeGrant, CreateGrant
<1>6. CASE AttachGrants(w)
  <2> DEFINE k == arg[w].key
  <2>1. CASE \E g \in arg[w].add : k \in Existing /\ keys' = [keys EXCEPT ![k].declared = @ \cup {g}]
    <3>1. \A j \in Existing' : /\ j \in Existing
                               /\ keys'[j].owner = keys[j].owner /\ keys'[j].tenant = keys[j].tenant
      BY <2>1 DEF Typed, Existing, Key
    <3> QED
      BY <1>6, <3>1 DEF AttachGrants, AddAPIKeyGrant, Referenced, HasRow
  <2>2. CASE UNCHANGED keys
    BY <1>6, <2>2, UntouchedReferenced DEF AttachGrants, AddAPIKeyGrant, References
  <2> QED
    BY <1>6, <2>1, <2>2 DEF AttachGrants, AddAPIKeyGrant
<1>7. CASE SeedTenant(w)
  BY <1>7, CreateReferenced, UntouchedReferenced, SlugsAssumption DEF SeedTenant, References
<1>8. CASE SeedUser(w)
  <2>1. \A u \in Users : HasRow(u) => HasRow(u)'
    BY <1>8, UsersAssumption DEF SeedUser, CreateUserRow, HasRow, Typed
  <2>2. Existing' = Existing /\ \A k \in Existing : keys[k].owner \in Users
    BY <1>8 DEF SeedUser, CreateUserRow, Existing, Typed, Key
  <2> QED
    BY <1>8, <2>1, <2>2 DEF SeedUser, CreateUserRow, Referenced
<1>9. CASE SeedGrant(w)
  BY <1>9 DEF SeedGrant, CreateGrant, Referenced, Existing, HasRow, Typed
<1> QED
  BY <1>2, <1>3, <1>4, <1>5, <1>6, <1>7, <1>8, <1>9
     DEF Statement, ReadHave, DropRole, DeleteRoleRow, SeedRows, References, dbVars

LEMMA StepReferenced == Typed /\ Referenced /\ [Next]_vars => Referenced'
<1> SUFFICES ASSUME Typed, Referenced, [Next]_vars PROVE Referenced'
  OBVIOUS
<1>1. CASE UNCHANGED References
  BY <1>1, UntouchedReferenced
<1>2. CASE \E w \in Workers : Request(w) \/ Statement(w)
  BY <1>2, RequestReferenced, StatementReferenced
<1>3. CASE \E w \in Workers : Read(w) \/ Write(w) \/ Dies(w)
  BY <1>1, <1>3 DEF Read, Write, Dies, References, dbVars
<1>4. CASE \E t \in Timers : Heartbeat(t)
  BY <1>1, <1>4 DEF Heartbeat, References, dbVars
<1>5. CASE Rebuild \/ Poll \/ UNCHANGED vars
  BY <1>1, <1>5 DEF Rebuild, Poll, References, vars, dbVars
<1> QED
  BY <1>2, <1>3, <1>4, <1>5 DEF Next, Workers, ControlPlane

(* For every deployment the tables stay well typed and the foreign keys whole, *)
(* whatever requests, boots and publications interleave and wherever they die: *)
(* a key keeps its owner and its tenant, and an account that is gone holds no  *)
(* grant (migrations/0001_initial.sql).                                        *)
THEOREM TypeCorrect == Spec => []TypeOK
<1>1. Init => TypeOK
  BY InitTyped, InitReferenced DEF TypeOK
<1>2. TypeOK /\ [Next]_vars => TypeOK'
  BY StepTyped, StepReferenced DEF TypeOK
<1> QED
  BY <1>1, <1>2, PTL DEF Spec

-----------------------------------------------------------------------------
(* What a published key carries. *)

WithinHeld(principals) ==
    \A p \in principals : \A g \in p.grants :
        \E h \in held[p.owner] : h.role = g.role /\ ScopeCovers(h.scope, g.scope)

StillWithin(principals) ==
    \A p \in principals : \A g \in p.grants :
        \E h \in held'[p.owner] : h.role = g.role /\ ScopeCovers(h.scope, g.scope)

(* The promise of NoKeyOutgrowsItsOwner, for the set on disk and the sets     *)
(* being read too: a set that is half read remembers grants that may be gone  *)
(* by the time its keys are.                                                  *)
HeldInv ==
    /\ \A u \in Users : grants[u] \subseteq held[u]
    /\ \A w \in Workers : /\ \A u \in Users : draft[w].grants[u] \subseteq held[u]
                          /\ WithinHeld(draft[w].set.principals)
    /\ WithinHeld(file.principals)
    /\ WithinHeld(gateway.principals)

LEMMA InitHeld == Init => HeldInv
BY DEF Init, HeldInv, WithinHeld, NoSet, NoDraft

(* The first statement of a request gives nobody a grant. *)
LEMMA RequestTakesGrants ==
    ASSUME Typed, NEW w \in Workers, Request(w)
    PROVE  UNCHANGED held /\ \A u \in Users : grants'[u] \subseteq grants[u]
<1>1. CASE \E caller \in Callers, u \in Users : DeleteUser(w, caller, u)
  BY <1>1 DEF DeleteUser, DeleteUserRow, Typed
<1>2. CASE UNCHANGED <<grants, held>>
  BY <1>2
<1>3. CASE Boot(w) \/ \E caller \in Callers : DeleteRole(w, caller)
  BY <1>2, <1>3 DEF Boot, DeleteRole, dbVars
<1>4. CASE \E caller \in Callers, s \in Slugs : CreateTenant(w, caller, s) \/ DeleteTenant(w, caller, s)
  BY <1>2, <1>4 DEF CreateTenant, CreateTenantRow, DeleteTenant, dbVars
<1>5. CASE \E caller \in Callers, u \in Users :
             \/ CreateUser(w, caller, u)
             \/ \E status \in {"active", "disabled"} : UpdateUser(w, caller, u, status)
             \/ \E want \in GrantSets : PutGrants(w, caller, u, want)
  BY <1>2, <1>5 DEF CreateUser, CreateUserRow, UpdateUser, UpdateUserRow, PutGrants, dbVars
<1>6. CASE \E caller \in Callers, u \in Users, k \in Keys, s \in Slugs, spans \in BOOLEAN, declared \in DeclaredSets :
             MintAPIKey(w, caller, u, k, s, spans, declared)
  BY <1>2, <1>6 DEF MintAPIKey, CreateAPIKey
<1>7. CASE \E caller \in Callers, k \in Keys : RevokeAPIKey(w, caller, k)
  BY <1>2, <1>7 DEF RevokeAPIKey, RevokeKeyRow
<1>8. CASE \E caller \in Callers, role \in EditedRoles, permissions \in RoleSets :
             PutRole(w, caller, role, permissions)
  BY <1>2, <1>8 DEF PutRole, UpsertRole
<1> QED
  BY <1>1, <1>3, <1>4, <1>5, <1>6, <1>7, <1>8 DEF Request

(* Nothing leaves the history of a user. *)
LEMMA HeldGrows ==
    ASSUME Typed, [Next]_vars
    PROVE  \A u \in Users : held[u] \subseteq held'[u]
<1>1. CASE UNCHANGED held
  BY <1>1
<1>2. CASE \E w \in Workers : SetGrants(w)
  <2>1. PICK w \in Workers : SetGrants(w)
    BY <1>2
  <2>2. CASE \E g \in arg[w].add : held' = [held EXCEPT ![arg[w].user] = @ \cup {g}]
    BY <2>2 DEF Typed
  <2> QED
    BY <1>1, <2>1, <2>2 DEF SetGrants, RevokeGrant, CreateGrant
<1>3. CASE \E w \in Workers : SeedGrant(w)
  BY <1>3 DEF SeedGrant, CreateGrant, Typed
<1>4. CASE \E w \in Workers : Request(w)
  BY <1>1, <1>4, RequestTakesGrants
<1>5. CASE \E w \in Workers : Statement(w)
  BY <1>1, <1>2, <1>3, <1>5 DEF Statement, DropGrants, DeleteGrantsInTenant, DropTenant, DeleteTenantRow, ReadHave, AttachGrants, AddAPIKeyGrant, DropRole, DeleteRoleRow,
                                SeedRows, SeedTenant, SeedUser, CreateUserRow, dbVars
<1>6. CASE \E w \in Workers : Read(w) \/ Write(w) \/ Dies(w)
  BY <1>1, <1>6 DEF Read, Write, Dies, dbVars
<1>7. CASE \E t \in Timers : Heartbeat(t)
  BY <1>1, <1>7 DEF Heartbeat, dbVars
<1>8. CASE Rebuild \/ Poll \/ UNCHANGED vars
  BY <1>1, <1>8 DEF Rebuild, Poll, vars, dbVars
<1> QED
  BY <1>4, <1>5, <1>6, <1>7, <1>8 DEF Next, Workers, ControlPlane

LEMMA WithinStays ==
    ASSUME Typed, [Next]_vars, NEW principals \in SUBSET Principal, WithinHeld(principals)
    PROVE  StillWithin(principals)
BY HeldGrows DEF WithinHeld, StillWithin, Principal

(* A user's grants are in its history the moment they are in the table. *)
LEMMA GrantsAreHeld ==
    ASSUME Typed, [Next]_vars, HeldInv
    PROVE  \A u \in Users : grants'[u] \subseteq held'[u]
<1>1. CASE \A u \in Users : grants'[u] \subseteq grants[u]
  BY <1>1, HeldGrows DEF HeldInv
<1>2. CASE \E w \in Workers : SetGrants(w)
  <2>1. PICK w \in Workers : SetGrants(w)
    BY <1>2
  <2>2. arg[w].user \in Users
    BY DEF Typed, Arg
  <2>3. CASE \E g \in arg[w].add :
               /\ grants' = [grants EXCEPT ![arg[w].user] = @ \cup {g}]
               /\ held' = [held EXCEPT ![arg[w].user] = @ \cup {g}]
    BY <2>2, <2>3 DEF Typed, HeldInv
  <2>4. CASE \E g \in arg[w].drop :
               grants' = [grants EXCEPT ![arg[w].user] = @ \ {g}]
    BY <1>1, <2>2, <2>4 DEF Typed
  <2>5. CASE UNCHANGED grants
    BY <1>1, <2>5
  <2> QED
    BY <2>1, <2>3, <2>4, <2>5 DEF SetGrants, RevokeGrant, CreateGrant
<1>3. CASE \E w \in Workers : SeedGrant(w)
  BY <1>3 DEF SeedGrant, CreateGrant, Typed, HeldInv
<1>4. CASE \E w \in Workers : Request(w)
  BY <1>1, <1>4, RequestTakesGrants
<1>5. CASE \E w \in Workers : DropGrants(w)
  BY <1>1, <1>5 DEF DropGrants, DeleteGrantsInTenant
<1>6. CASE UNCHANGED grants
  BY <1>1, <1>6
<1>7. CASE \E w \in Workers : Statement(w)
  BY <1>2, <1>3, <1>5, <1>6, <1>7 DEF Statement, DropTenant, DeleteTenantRow, ReadHave, AttachGrants, AddAPIKeyGrant, DropRole, DeleteRoleRow,
                                SeedRows, SeedTenant, SeedUser, CreateUserRow, dbVars
<1>8. CASE \E w \in Workers : Read(w) \/ Write(w) \/ Dies(w)
  BY <1>6, <1>8 DEF Read, Write, Dies, dbVars
<1>9. CASE \E t \in Timers : Heartbeat(t)
  BY <1>6, <1>9 DEF Heartbeat, dbVars
<1>10. CASE Rebuild \/ Poll \/ UNCHANGED vars
  BY <1>6, <1>10 DEF Rebuild, Poll, vars, dbVars
<1> QED
  BY <1>4, <1>7, <1>8, <1>9, <1>10 DEF Next, Workers, ControlPlane

LEMMA ScopeCoversItself ==
    ASSUME NEW g \in Grants
    PROVE  ScopeCovers(g.scope, g.scope)
BY GrantsAssumption DEF ScopeCovers, Grant

(* However old the grants a set was read with, its keys stay within them. *)
LEMMA PublishedWithin ==
    ASSUME Typed, NEW d \in Draft, \A u \in Users : d.grants[u] \subseteq held[u]
    PROVE  WithinHeld(Published(d))
<1>1. SUFFICES ASSUME NEW k \in Keys, NEW g \in Effective(d.declared[k], d.grants[keys[k].owner])
               PROVE  \E h \in held[keys[k].owner] : h.role = g.role /\ ScopeCovers(h.scope, g.scope)
  BY DEF WithinHeld, Published
<1>2. keys[k].owner \in Users
  BY DEF Typed, Key
<1>3. /\ d.grants[keys[k].owner] \subseteq held[keys[k].owner]
      /\ d.grants[keys[k].owner] \subseteq Grants
  BY <1>2 DEF Draft
<1>4. CASE d.declared[k] = {}
  BY <1>3, <1>4, ScopeCoversItself DEF Effective
<1>5. CASE d.declared[k] # {}
  BY <1>3, <1>5 DEF Effective, Intersect
<1> QED
  BY <1>4, <1>5

LEMMA SetsTyped ==
    ASSUME Typed
    PROVE  /\ file.principals \subseteq Principal /\ gateway.principals \subseteq Principal
           /\ \A w \in Workers : /\ draft[w] \in Draft
                                 /\ draft[w].set.principals \subseteq Principal
BY DEF Typed, PrincipalSet, Draft

(* A worker that is not reading leaves its draft and everybody's sets. *)
LEMMA UnreadHeld ==
    ASSUME Typed, [Next]_vars, HeldInv, UNCHANGED <<draft, file, gateway>>
    PROVE  HeldInv'
<1>1. \A w \in Workers : StillWithin(draft[w].set.principals)
  BY SetsTyped, WithinStays DEF HeldInv
<1>2. StillWithin(file.principals) /\ StillWithin(gateway.principals)
  BY SetsTyped, WithinStays DEF HeldInv
<1> QED
  BY <1>1, <1>2, HeldGrows, GrantsAreHeld DEF HeldInv, WithinHeld, StillWithin

(* Only draft[w] changes in a read, and it changes within what is held. *)
LEMMA DraftHeld ==
    ASSUME Typed, [Next]_vars, HeldInv, NEW w \in Workers, NEW new,
           draft' = [draft EXCEPT ![w] = new], UNCHANGED <<file, gateway>>,
           \A u \in Users : new.grants[u] \subseteq held'[u],
           StillWithin(new.set.principals)
    PROVE  HeldInv'
<1>1. \A v \in Workers : draft'[v] = IF v = w THEN new ELSE draft[v]
  BY DEF Typed
<1>2. \A v \in Workers \ {w} : StillWithin(draft[v].set.principals)
  BY SetsTyped, WithinStays DEF HeldInv
<1>3. \A v \in Workers : StillWithin(draft'[v].set.principals)
  BY <1>1, <1>2
<1>4. \A v \in Workers, u \in Users : draft'[v].grants[u] \subseteq held'[u]
  BY <1>1, HeldGrows DEF HeldInv
<1>5. StillWithin(file.principals) /\ StillWithin(gateway.principals)
  BY SetsTyped, WithinStays DEF HeldInv
<1> QED
  BY <1>3, <1>4, <1>5, GrantsAreHeld DEF HeldInv, WithinHeld, StillWithin

LEMMA ReadHeld ==
    ASSUME Typed, [Next]_vars, HeldInv, NEW w \in Workers, Read(w), UNCHANGED gateway
    PROVE  HeldInv'
<1>1. UNCHANGED <<file, gateway, grants, held, keys, users, tenants>>
  BY DEF Read, dbVars
<1>2. draft[w] \in Draft /\ draft[w].set.principals \subseteq Principal
  BY SetsTyped
<1>3. \A u \in Users : draft[w].grants[u] \subseteq held'[u]
  BY <1>1 DEF HeldInv
<1>4. StillWithin(draft[w].set.principals)
  BY <1>2, WithinStays DEF HeldInv
<1>5. CASE ReadUsers(w)
  <2>1. PICK new : /\ draft' = [draft EXCEPT ![w] = new]
                   /\ new = [draft[w] EXCEPT !.set.version = version',
                                             !.ids = ListTenants, !.active = ActiveUsers]
    BY <1>5 DEF ReadUsers, Typed
  <2>2. new.grants = draft[w].grants /\ new.set.principals = draft[w].set.principals
    BY <1>2, <2>1 DEF Draft, PrincipalSet
  <2> QED
    BY <1>1, <1>3, <1>4, <2>1, <2>2, DraftHeld
<1>6. CASE ReadGrants(w)
  <2> DEFINE new == [draft[w] EXCEPT !.grants = grants]
  <2>1. draft' = [draft EXCEPT ![w] = new]
    BY <1>6 DEF ReadGrants, Typed
  <2>2. new.grants = grants /\ new.set.principals = draft[w].set.principals
    BY <1>2 DEF Draft, PrincipalSet
  <2>3. \A u \in Users : new.grants[u] \subseteq held'[u]
    BY <1>1, <2>2 DEF HeldInv
  <2> HIDE DEF new
  <2> QED
    BY <1>1, <1>4, <2>1, <2>2, <2>3, DraftHeld
<1>7. CASE ReadKeyGrants(w)
  <2> DEFINE new == [draft[w] EXCEPT !.declared = ListAllAPIKeyGrants]
  <2>1. draft' = [draft EXCEPT ![w] = new]
    BY <1>7 DEF ReadKeyGrants, Typed
  <2>2. new.grants = draft[w].grants /\ new.set.principals = draft[w].set.principals
    BY <1>2 DEF Draft, PrincipalSet
  <2> HIDE DEF new
  <2> QED
    BY <1>1, <1>3, <1>4, <2>1, <2>2, DraftHeld
<1>8. CASE ReadKeys(w)
  <2> DEFINE new == [NoDraft EXCEPT !.set.version = draft[w].set.version,
                                    !.set.principals = Published(draft[w])]
  <2>1. draft' = [draft EXCEPT ![w] = new]
    BY <1>8 DEF ReadKeys
  <2>2. new.grants = [u \in Users |-> {}] /\ new.set.principals = Published(draft[w])
    BY DEF NoDraft, NoSet
  <2>3. WithinHeld(Published(draft[w]))
    BY <1>2, PublishedWithin DEF HeldInv
  <2>4. StillWithin(new.set.principals)
    BY <1>1, <2>2, <2>3 DEF WithinHeld, StillWithin
  <2> HIDE DEF new
  <2> QED
    BY <1>1, <2>1, <2>2, <2>4, DraftHeld
<1>9. CASE ReadCatalog(w)
  <2> DEFINE new == [draft[w] EXCEPT !.set = [@ EXCEPT !.catalog = Catalog]]
  <2>1. draft' = [draft EXCEPT ![w] = new]
    BY <1>9 DEF ReadCatalog, Typed
  <2>2. new.grants = draft[w].grants /\ new.set.principals = draft[w].set.principals
    BY <1>2 DEF Draft, PrincipalSet
  <2> HIDE DEF new
  <2> QED
    BY <1>1, <1>3, <1>4, <2>1, <2>2, DraftHeld
<1> QED
  BY <1>5, <1>6, <1>7, <1>8, <1>9 DEF Read

LEMMA StepHeld == Typed /\ HeldInv /\ [Next]_vars => HeldInv'
<1> SUFFICES ASSUME Typed, HeldInv, [Next]_vars PROVE HeldInv'
  OBVIOUS
<1>1. CASE UNCHANGED <<draft, file, gateway>>
  BY <1>1, UnreadHeld
<1>2. CASE \E w \in Workers : Read(w) /\ UNCHANGED gateway
  BY <1>2, ReadHeld
<1>3. CASE \E w \in Workers : Write(w) /\ UNCHANGED gateway
  <2>1. PICK w \in Workers : Write(w) /\ UNCHANGED gateway
    BY <1>3
  <2>2. /\ file' = draft[w].set /\ UNCHANGED <<gateway, grants, held>>
    BY <2>1 DEF Write, dbVars
  <2>3. /\ \A v \in Workers : \A u \in Users : draft'[v].grants[u] \subseteq held'[u]
        /\ \A v \in Workers : draft'[v].set.principals \subseteq draft[v].set.principals
    BY <2>1, HeldGrows DEF Write, HeldInv, Typed, NoDraft, NoSet
  <2>4. \A v \in Workers : StillWithin(draft[v].set.principals)
    BY SetsTyped, WithinStays DEF HeldInv
  <2>5. \A v \in Workers : StillWithin(draft'[v].set.principals)
    BY <2>3, <2>4 DEF StillWithin
  <2>6. StillWithin(gateway.principals)
    BY <2>1, SetsTyped, WithinStays DEF HeldInv
  <2> QED
    BY <2>2, <2>3, <2>4, <2>5, <2>6, GrantsAreHeld DEF HeldInv, WithinHeld, StillWithin
<1>4. CASE \E w \in Workers : Dies(w) /\ UNCHANGED gateway
  <2>1. PICK w \in Workers : Dies(w) /\ UNCHANGED gateway
    BY <1>4
  <2>2. /\ draft' = [draft EXCEPT ![w] = NoDraft] /\ UNCHANGED <<file, gateway>>
        /\ \A u \in Users : NoDraft.grants[u] = {}
        /\ NoDraft.set.principals = {}
    BY <2>1 DEF Dies, NoDraft, NoSet
  <2>3. StillWithin(NoDraft.set.principals)
    BY <2>2 DEF StillWithin
  <2> QED
    BY <2>2, <2>3, DraftHeld
<1>5. CASE Poll
  <2>1. UNCHANGED <<draft, file, held, grants>> /\ gateway' = file
    BY <1>5 DEF Poll, dbVars
  <2> QED
    BY <2>1 DEF HeldInv, WithinHeld
<1>6. CASE \E w \in Workers : (Request(w) \/ Statement(w)) /\ UNCHANGED Distributed
  BY <1>1, <1>6 DEF Distributed
<1>7. CASE \E t \in Timers : Heartbeat(t) /\ UNCHANGED gateway
  BY <1>1, <1>7 DEF Heartbeat
<1>8. CASE Rebuild \/ UNCHANGED vars
  BY <1>1, <1>8 DEF Rebuild, vars
<1> QED
  BY <1>2, <1>3, <1>4, <1>5, <1>6, <1>7, <1>8 DEF Next, Workers, ControlPlane, Distributed

(* For every deployment: the tables are read one query at a time while grants *)
(* come and go, and still no key reaches a gateway with a grant its owner     *)
(* never held (store/snapshotstate.go:122-125).                               *)
THEOREM KeysStayWithinTheirOwners == Spec => []NoKeyOutgrowsItsOwner
<1>1. Init => HeldInv
  BY InitHeld
<1>2. TypeOK /\ HeldInv /\ [Next]_vars => HeldInv'
  BY StepHeld DEF TypeOK
<1>3. HeldInv => NoKeyOutgrowsItsOwner
  BY DEF HeldInv, WithinHeld, NoKeyOutgrowsItsOwner
<1> QED
  BY <1>1, <1>2, <1>3, TypeCorrect, PTL DEF Spec

-----------------------------------------------------------------------------
(* How a role is served. *)

Whole(rows) ==
    LET permissions == {row[2] : row \in {r \in rows : r[1] = CustomRole}}
    IN  permissions = {} \/ permissions \in RoleSets

(* The promise of RolesAreServedWhole for the table, the sets being read and  *)
(* the one on disk.                                                           *)
WholeInv ==
    /\ Whole(catalog)
    /\ \A w \in Workers : Whole(draft[w].set.catalog)
    /\ Whole(file.catalog)
    /\ Whole(gateway.catalog)

(* What an operator did not write says nothing of the role an operator made. *)
LEMMA DefaultsWhole ==
    /\ \A row \in DefaultCatalog : row[1] # CustomRole
    /\ Whole({}) /\ Whole(DefaultCatalog)
    /\ NoSet.catalog = {} /\ NoDraft.set.catalog = {}
<1>1. \A row \in DefaultCatalog : row[1] # CustomRole
  BY RolesAssumption DEF Builtins
<1> QED
  BY <1>1 DEF Whole, NoSet, NoDraft

LEMMA RoleRows ==
    ASSUME NEW permissions
    PROVE  {row[2] : row \in {CustomRole} \X permissions} = permissions
<1>1. \A p \in permissions : <<CustomRole, p>> \in {CustomRole} \X permissions /\ <<CustomRole, p>>[2] = p
  OBVIOUS
<1>2. \A p \in permissions : p \in {row[2] : row \in {CustomRole} \X permissions}
  BY <1>1
<1>3. \A row \in {CustomRole} \X permissions : row[2] \in permissions
  OBVIOUS
<1> QED
  BY <1>2, <1>3

LEMMA SameRowsWhole ==
    ASSUME NEW rows, NEW others, Whole(rows),
           {r \in others : r[1] = CustomRole} = {r \in rows : r[1] = CustomRole}
    PROVE  Whole(others)
BY DEF Whole

LEMMA InitWhole == Init => WholeInv
<1> SUFFICES ASSUME Init PROVE WholeInv
  OBVIOUS
<1>1. CASE Empty
  BY <1>1, DefaultsWhole DEF Init, Empty, WholeInv
<1>2. CASE Seeded
  <2>1. PICK permissions \in RoleSets : catalog = DefaultCatalog \cup ({CustomRole} \X permissions)
    BY <1>2 DEF Seeded
  <2>2. {r \in catalog : r[1] = CustomRole} = {CustomRole} \X permissions
    BY <2>1, DefaultsWhole
  <2>3. {row[2] : row \in {CustomRole} \X permissions} = permissions
    BY RoleRows
  <2>4. Whole(catalog)
    BY <2>2, <2>3 DEF Whole
  <2> QED
    BY <2>4, DefaultsWhole DEF Init, WholeInv
<1> QED
  BY <1>1, <1>2 DEF Init

(* Only an edit of a role starts by touching the roles. *)
LEMMA RequestLeavesRoles ==
    ASSUME NEW w \in Workers, Request(w)
    PROVE  \/ UNCHANGED catalog
           \/ \E caller \in Callers, role \in EditedRoles, permissions \in RoleSets :
                PutRole(w, caller, role, permissions)
<1>1. CASE Boot(w) \/ \E caller \in Callers : DeleteRole(w, caller)
  BY <1>1 DEF Boot, DeleteRole, dbVars
<1>2. CASE \E caller \in Callers, s \in Slugs : CreateTenant(w, caller, s) \/ DeleteTenant(w, caller, s)
  BY <1>2 DEF CreateTenant, CreateTenantRow, DeleteTenant, dbVars
<1>3. CASE \E caller \in Callers, u \in Users :
             \/ CreateUser(w, caller, u) \/ DeleteUser(w, caller, u)
             \/ \E status \in {"active", "disabled"} : UpdateUser(w, caller, u, status)
             \/ \E want \in GrantSets : PutGrants(w, caller, u, want)
  BY <1>3 DEF CreateUser, CreateUserRow, DeleteUser, DeleteUserRow, UpdateUser, UpdateUserRow, PutGrants, dbVars
<1>4. CASE \E caller \in Callers, u \in Users, k \in Keys, s \in Slugs, spans \in BOOLEAN, declared \in DeclaredSets :
             MintAPIKey(w, caller, u, k, s, spans, declared)
  BY <1>4 DEF MintAPIKey, CreateAPIKey
<1>5. CASE \E caller \in Callers, k \in Keys : RevokeAPIKey(w, caller, k)
  BY <1>5 DEF RevokeAPIKey, RevokeKeyRow
<1> QED
  BY <1>1, <1>2, <1>3, <1>4, <1>5 DEF Request

(* The table holds a role as it was written, or not at all. *)
LEMMA TableWhole ==
    ASSUME Typed, [Next]_vars, Whole(catalog)
    PROVE  Whole(catalog')
<1>1. CASE UNCHANGED catalog
  BY <1>1
<1>2. ASSUME NEW role \in EditedRoles, NEW permissions \in RoleSets, WriteRole(role, permissions)
      PROVE  Whole(catalog')
  <2>1. CASE role = CustomRole
    <3>1. {r \in catalog' : r[1] = CustomRole} = {CustomRole} \X permissions
      BY <1>2, <2>1 DEF WriteRole
    <3>2. {row[2] : row \in {CustomRole} \X permissions} = permissions
      BY RoleRows
    <3> QED
      BY <3>1, <3>2 DEF Whole
  <2>2. CASE role # CustomRole
    <3>1. {r \in catalog' : r[1] = CustomRole} = {r \in catalog : r[1] = CustomRole}
      BY <1>2, <2>2 DEF WriteRole
    <3> QED
      BY <3>1, SameRowsWhole
  <2> QED
    BY <2>1, <2>2
<1>3. CASE \E w \in Workers : DropRole(w)
  <2>1. {r \in catalog' : r[1] = CustomRole} = {}
    BY <1>3 DEF DropRole, DeleteRoleRow
  <2> QED
    BY <2>1 DEF Whole
<1>4. CASE \E w \in Workers : SeedRows(w)
  <2>1. {r \in catalog' : r[1] = CustomRole} = {r \in catalog : r[1] = CustomRole}
    BY <1>4, DefaultsWhole DEF SeedRows, OfRole
  <2> QED
    BY <2>1, SameRowsWhole
<1>5. CASE \E w \in Workers : Request(w)
  <2>1. CASE \E w \in Workers, caller \in Callers, role \in EditedRoles, permissions \in RoleSets :
               PutRole(w, caller, role, permissions)
    BY <1>2, <2>1 DEF PutRole, UpsertRole
  <2> QED
    BY <1>1, <1>5, <2>1, RequestLeavesRoles
<1>6. CASE \E w \in Workers : Statement(w)
  BY <1>1, <1>3, <1>4, <1>6 DEF Statement, DropGrants, DeleteGrantsInTenant, DropTenant, DeleteTenantRow, ReadHave, SetGrants, RevokeGrant, CreateGrant, AttachGrants, AddAPIKeyGrant,
                                SeedTenant, SeedUser, CreateUserRow, SeedGrant, dbVars
<1>7. CASE \E w \in Workers : Read(w) \/ Write(w) \/ Dies(w)
  BY <1>1, <1>7 DEF Read, Write, Dies, dbVars
<1>8. CASE \E t \in Timers : Heartbeat(t)
  BY <1>1, <1>8 DEF Heartbeat, dbVars
<1>9. CASE Rebuild \/ Poll \/ UNCHANGED vars
  BY <1>1, <1>9 DEF Rebuild, Poll, vars, dbVars
<1> QED
  BY <1>5, <1>6, <1>7, <1>8, <1>9 DEF Next, Workers, ControlPlane

(* A set's catalog is what it was, or what the table holds, or the defaults. *)
LEMMA DraftWhole ==
    ASSUME Typed, NEW w \in Workers, Read(w), WholeInv
    PROVE  \A v \in Workers : Whole(draft'[v].set.catalog)
<1>1. draft[w] \in Draft /\ draft[w].set \in PrincipalSet
  BY SetsTyped DEF Draft
<1>2. ASSUME NEW new, draft' = [draft EXCEPT ![w] = new], Whole(new.set.catalog)
      PROVE  \A v \in Workers : Whole(draft'[v].set.catalog)
  BY <1>2 DEF Typed, WholeInv
<1>3. CASE ReadUsers(w)
  <2>1. PICK new : /\ draft' = [draft EXCEPT ![w] = new]
                   /\ new = [draft[w] EXCEPT !.set.version = version',
                                             !.ids = ListTenants, !.active = ActiveUsers]
    BY <1>3 DEF ReadUsers, Typed
  <2>2. new.set.catalog = draft[w].set.catalog
    BY <1>1, <2>1 DEF Draft, PrincipalSet
  <2> QED
    BY <1>2, <2>1, <2>2 DEF WholeInv
<1>4. CASE ReadGrants(w) \/ ReadKeyGrants(w)
  <2>1. \/ draft' = [draft EXCEPT ![w] = [draft[w] EXCEPT !.grants = grants]]
        \/ draft' = [draft EXCEPT ![w] =
                        [draft[w] EXCEPT !.declared = ListAllAPIKeyGrants]]
    BY <1>4 DEF ReadGrants, ReadKeyGrants, Typed
  <2>2. \A v \in Workers \ {w} : draft'[v] = draft[v]
    BY <2>1 DEF Typed
  <2>3. draft'[w].set = draft[w].set
    BY <1>1, <2>1 DEF Typed, Draft
  <2> QED
    BY <2>2, <2>3 DEF WholeInv
<1>5. CASE ReadKeys(w)
  <2>1. draft'[w].set.catalog = {}
    BY <1>5 DEF ReadKeys, Typed, NoDraft, NoSet
  <2>2. \A v \in Workers \ {w} : draft'[v] = draft[v]
    BY <1>5 DEF ReadKeys, Typed
  <2> QED
    BY <2>1, <2>2, DefaultsWhole DEF WholeInv
<1>6. CASE ReadCatalog(w)
  <2>1. draft'[w].set.catalog = Catalog
    BY <1>1, <1>6 DEF ReadCatalog, Typed, Draft, PrincipalSet
  <2>2. \A v \in Workers \ {w} : draft'[v] = draft[v]
    BY <1>6 DEF ReadCatalog, Typed
  <2>3. Whole(Catalog)
    BY DefaultsWhole DEF Catalog, WholeInv
  <2> QED
    BY <2>1, <2>2, <2>3 DEF WholeInv
<1> QED
  BY <1>3, <1>4, <1>5, <1>6 DEF Read

LEMMA StepWhole == Typed /\ WholeInv /\ [Next]_vars => WholeInv'
<1> SUFFICES ASSUME Typed, WholeInv, [Next]_vars PROVE WholeInv'
  OBVIOUS
<1>1. Whole(catalog')
  BY TableWhole DEF WholeInv
<1>2. CASE UNCHANGED <<draft, file, gateway>>
  BY <1>1, <1>2 DEF WholeInv
<1>3. CASE \E w \in Workers : Read(w) /\ UNCHANGED gateway
  BY <1>1, <1>3, DraftWhole DEF Read, WholeInv
<1>4. CASE \E w \in Workers : (Write(w) \/ Dies(w)) /\ UNCHANGED gateway
  <2>1. PICK w \in Workers : (Write(w) \/ Dies(w)) /\ UNCHANGED gateway
    BY <1>4
  <2>2. \A v \in Workers : draft'[v] = IF v = w THEN NoDraft ELSE draft[v]
    BY <2>1 DEF Write, Dies, Typed
  <2>3. \A v \in Workers : Whole(draft'[v].set.catalog)
    BY <2>2, DefaultsWhole DEF WholeInv
  <2>4. file' = file \/ file' = draft[w].set
    BY <2>1 DEF Write, Dies
  <2>5. Whole(file'.catalog)
    BY <2>4 DEF WholeInv
  <2> QED
    BY <1>1, <2>1, <2>3, <2>5 DEF WholeInv
<1>5. CASE Poll
  BY <1>1, <1>5 DEF Poll, WholeInv
<1>6. CASE \E w \in Workers : (Request(w) \/ Statement(w)) /\ UNCHANGED Distributed
  BY <1>2, <1>6 DEF Distributed
<1>7. CASE \E t \in Timers : Heartbeat(t) /\ UNCHANGED gateway
  BY <1>2, <1>7 DEF Heartbeat
<1>8. CASE Rebuild \/ UNCHANGED vars
  BY <1>2, <1>8 DEF Rebuild, vars
<1> QED
  BY <1>3, <1>4, <1>5, <1>6, <1>7, <1>8 DEF Next, Workers, ControlPlane, Distributed

(* For every deployment: a gateway serves an operator's role with a set of    *)
(* permissions somebody wrote, or without any, whatever edits and seeds race  *)
(* the publication (store/roles.go:96-98).                                    *)
THEOREM RolesStayWhole == Spec => []RolesAreServedWhole
<1>1. Init => WholeInv
  BY InitWhole
<1>2. TypeOK /\ WholeInv /\ [Next]_vars => WholeInv'
  BY StepWhole DEF TypeOK
<1>3. WholeInv => RolesAreServedWhole
  BY DEF WholeInv, Whole, RolesAreServedWhole
<1> QED
  BY <1>1, <1>2, <1>3, TypeCorrect, PTL DEF Spec

-----------------------------------------------------------------------------
(* What the decisions promise, for any grants and any catalog. *)

(* A scope inside a scope is inside whatever covers that. *)
LEMMA ScopeCoversIsTransitive ==
    ASSUME NEW wide \in Seq(STRING), NEW middle \in Seq(STRING), NEW narrow \in Seq(STRING),
           ScopeCovers(wide, middle), ScopeCovers(middle, narrow)
    PROVE  ScopeCovers(wide, narrow)
BY DEF ScopeCovers

(* Intersect only narrows: what a key's effective grants allow, its owner's   *)
(* allow too, whatever the key declares (authz/roles.go, Intersect).          *)
THEOREM IntersectionNeverWidens ==
    ASSUME NEW declared \in SUBSET Grant, NEW owned \in SUBSET Grant, NEW rows,
           NEW permission, NEW scope \in Seq(STRING),
           Allows(Intersect(declared, owned), rows, permission, scope)
    PROVE  Allows(owned, rows, permission, scope)
<1>1. PICK d \in Intersect(declared, owned) :
          <<d.role, permission>> \in rows /\ ScopeCovers(d.scope, scope)
  BY DEF Allows
<1>2. PICK h \in owned : h.role = d.role /\ ScopeCovers(h.scope, d.scope)
  BY DEF Intersect
<1>3. h.scope \in Seq(STRING) /\ d.scope \in Seq(STRING)
  BY DEF Intersect, Grant
<1> QED
  BY <1>1, <1>2, <1>3, ScopeCoversIsTransitive DEF Allows

(* You cannot grant what you do not hold: where nothing is withheld, every    *)
(* decision the new grant would make in somebody's favour is one the issuer's *)
(* own grants already make (apiserver/principals.go, putGrants).              *)
THEOREM GrantingNeverEscalates ==
    ASSUME NEW issuer \in SUBSET Grant, NEW means,
           NEW rows \in SUBSET (STRING \X STRING),
           NEW g \in Grant, WithheldBy(issuer, means, rows, g.role, g.scope) = {},
           NEW permission, NEW scope \in Seq(STRING), Allows({g}, rows, permission, scope)
    PROVE  Allows(issuer, means, permission, scope)
<1>1. <<g.role, permission>> \in rows /\ ScopeCovers(g.scope, scope)
  BY DEF Allows
<1>2. Allows(issuer, means, permission, g.scope)
  BY <1>1 DEF WithheldBy
<1>3. PICK h \in issuer : <<h.role, permission>> \in means /\ ScopeCovers(h.scope, g.scope)
  BY <1>2 DEF Allows
<1>4. h.scope \in Seq(STRING) /\ g.scope \in Seq(STRING)
  BY DEF Grant
<1> QED
  BY <1>1, <1>3, <1>4, ScopeCoversIsTransitive DEF Allows

(* So a gateway decides for a key within its owner's grants: whatever it lets *)
(* a key do, the owner's grants, each held at some time, allow by the catalog *)
(* it serves.                                                                 *)
THEOREM GatewayStaysWithinOwners ==
    Spec => [](\A p \in gateway.principals, permission \in Permissions, scope \in Seq(STRING) :
                  Allows(p.grants, gateway.catalog, permission, scope)
                      => Allows(held[p.owner], gateway.catalog, permission, scope))
<1> DEFINE Inv == \A p \in gateway.principals, permission \in Permissions, scope \in Seq(STRING) :
                     Allows(p.grants, gateway.catalog, permission, scope)
                         => Allows(held[p.owner], gateway.catalog, permission, scope)
<1>1. TypeOK /\ NoKeyOutgrowsItsOwner => Inv
  <2> SUFFICES ASSUME TypeOK, NoKeyOutgrowsItsOwner, NEW p \in gateway.principals,
                      NEW permission \in Permissions, NEW scope \in Seq(STRING),
                      Allows(p.grants, gateway.catalog, permission, scope)
               PROVE  Allows(held[p.owner], gateway.catalog, permission, scope)
    OBVIOUS
  <2>1. PICK g \in p.grants :
            <<g.role, permission>> \in gateway.catalog /\ ScopeCovers(g.scope, scope)
    BY DEF Allows
  <2>2. PICK h \in held[p.owner] : h.role = g.role /\ ScopeCovers(h.scope, g.scope)
    BY DEF NoKeyOutgrowsItsOwner
  <2>3. p.owner \in Users /\ p.grants \subseteq Grants /\ held[p.owner] \subseteq Grants
    BY DEF TypeOK, Typed, PrincipalSet, Principal
  <2>4. h.scope \in Seq(STRING) /\ g.scope \in Seq(STRING)
    BY <2>3, GrantsAssumption DEF Grant
  <2> QED
    BY <2>1, <2>2, <2>4, ScopeCoversIsTransitive DEF Allows
<1> QED
  BY <1>1, TypeCorrect, KeysStayWithinTheirOwners, PTL

(* The principals a publication makes of the tables as they are, as UpToDate  *)
(* has them.                                                                  *)
Snapshot ==
    [grants |-> grants, active |-> ActiveUsers, ids |-> ListTenants,
     declared |-> ListAllAPIKeyGrants]

(* A live key that declares something is published with just what             *)
(* ResolveAPIKey answers for it, and its tenant is one the tables have.       *)
LEMMA PublishedIsResolved ==
    ASSUME TypeOK, NEW k \in Keys, keys[k].declared # {} \/ keys[k].state # "active"
    PROVE  /\ \A p \in Published(Snapshot) : p.key = k => p.grants = ResolveAPIKey(k)
           /\ ResolveAPIKey(k) # {} =>
                \E p \in Published(Snapshot) :
                    p.key = k /\ (p.tenant = 0 \/ \E s \in Slugs : tenants[s] = p.tenant)
<1>1. /\ Snapshot.grants = grants /\ Snapshot.active = ActiveUsers
      /\ Snapshot.ids = ListTenants /\ Snapshot.declared[k] = keys[k].declared
  BY DEF Snapshot, ListAllAPIKeyGrants
<1>2. keys[k] \in Key
  BY DEF TypeOK, Typed
<1>3. ASSUME NEW p \in Published(Snapshot), p.key = k PROVE p.grants = ResolveAPIKey(k)
  <2>1. /\ keys[k].state = "active" /\ keys[k].owner \in ActiveUsers
        /\ p.grants = Effective(keys[k].declared, grants[keys[k].owner])
    BY <1>1, <1>3 DEF Published
  <2> QED
    BY <2>1 DEF Effective, ResolveAPIKey, ActiveUsers
<1>4. ASSUME ResolveAPIKey(k) # {}
      PROVE  \E p \in Published(Snapshot) :
                 p.key = k /\ (p.tenant = 0 \/ \E s \in Slugs : tenants[s] = p.tenant)
  <2>1. keys[k].state = "active" /\ users[keys[k].owner] = "active"
    BY <1>4 DEF ResolveAPIKey
  <2>2. keys[k].owner \in ActiveUsers
    BY <1>2, <2>1 DEF ActiveUsers, Key
  <2>3. keys[k].tenant = 0 \/ \E s \in Slugs : keys[k].tenant = tenants[s]
    BY <2>1 DEF TypeOK, Referenced, Existing
  <2>4. keys[k].tenant \in {0} \cup ListTenants
    BY <2>3 DEF ListTenants
  <2> DEFINE p == [key |-> k, owner |-> keys[k].owner, tenant |-> keys[k].tenant,
                   grants |-> Effective(Snapshot.declared[k], Snapshot.grants[keys[k].owner])]
  <2>5. p \in Published(Snapshot)
    BY <1>1, <2>1, <2>2, <2>4 DEF Published
  <2> QED
    BY <2>3, <2>5
<1> QED
  BY <1>3, <1>4

(* A set that says what the tables say. *)
Says(set) == set.principals = Published(Snapshot) /\ set.catalog = Catalog

(* The gateway decides about every key that declares something as the control *)
(* plane does, at any scope.                                                  *)
DecideAlike ==
    \A k \in Keys, permission \in Permissions, scope \in Seq(STRING) :
        \/ DeclaresNothing(k)
        \/ GatewayAllows(k, permission, scope)
              <=> Allows(ResolveAPIKey(k), Catalog, permission, scope)

(* A gateway that serves such a set and the tables' tenants decides as the    *)
(* control plane does.                                                        *)
LEMMA SetsDecideAlike ==
    ASSUME TypeOK, Says(gateway), serving = tenants
    PROVE  DecideAlike
<1> SUFFICES ASSUME NEW k \in Keys, NEW permission \in Permissions, NEW scope \in Seq(STRING),
                    ~DeclaresNothing(k)
             PROVE  GatewayAllows(k, permission, scope)
                      <=> Allows(ResolveAPIKey(k), Catalog, permission, scope)
  BY DEF DecideAlike
<1>1. gateway.principals = Published(Snapshot) /\ gateway.catalog = Catalog
  BY DEF Says
<1>2. keys[k].declared # {} \/ keys[k].state # "active"
  BY DEF DeclaresNothing
<1>3. /\ \A p \in Published(Snapshot) : p.key = k => p.grants = ResolveAPIKey(k)
      /\ ResolveAPIKey(k) # {} =>
           \E p \in Published(Snapshot) :
               p.key = k /\ (p.tenant = 0 \/ \E s \in Slugs : tenants[s] = p.tenant)
  BY <1>2, PublishedIsResolved
<1>4. ASSUME GatewayAllows(k, permission, scope)
      PROVE  Allows(ResolveAPIKey(k), Catalog, permission, scope)
  BY <1>1, <1>3, <1>4 DEF GatewayAllows
<1>5. ASSUME Allows(ResolveAPIKey(k), Catalog, permission, scope)
      PROVE  GatewayAllows(k, permission, scope)
  <2>1. ResolveAPIKey(k) # {}
    BY <1>5 DEF Allows
  <2> QED
    BY <1>1, <1>3, <1>5, <2>1 DEF GatewayAllows
<1> QED
  BY <1>4, <1>5

(* What GatewayComesToAgree comes down to: whatever was read before, died     *)
(* half-way or was written over, a gateway that holds a set which says what   *)
(* the tables say, and serves their tenants, decides about every key just as  *)
(* the control plane does, at any scope whatever - intersected once when the  *)
(* set is published or afresh at each request (ADR 0024,                      *)
(* store/snapshotstate.go).                                                   *)
THEOREM PublishedSetsDecideAlike ==
    Spec => [](UpToDate /\ gateway = file /\ serving = tenants => DecideAlike)
<1>1. TypeOK => (UpToDate /\ gateway = file /\ serving = tenants => DecideAlike)
  BY SetsDecideAlike DEF UpToDate, Snapshot, Says
<1> QED
  BY <1>1, TypeCorrect, PTL

-----------------------------------------------------------------------------
(* Agreement, once reached *)

(* What a publication under way has read is still so. *)
Faithful(w) ==
    LET d == draft[w] IN
    /\ step[w] \in {"read grants", "read key grants", "read keys"} =>
           d.active = ActiveUsers /\ d.ids = ListTenants
    /\ step[w] \in {"read key grants", "read keys"} => d.grants = grants
    /\ step[w] = "read keys" => d.declared = ListAllAPIKeyGrants
    /\ step[w] \in {"read catalog", "write"} => d.set.principals = Published(Snapshot)
    /\ step[w] = "write" => d.set.catalog = Catalog

InAgreement ==
    /\ Says(gateway) /\ Says(file) /\ serving = tenants
    /\ \A w \in Workers : Faithful(w)

Tables == <<tenants, users, grants, keys, catalog>>

Drafting == {"read grants", "read key grants", "read keys", "read catalog", "write"}

LEMMA SnapshotStays ==
    ASSUME UNCHANGED Tables
    PROVE  /\ ActiveUsers' = ActiveUsers /\ ListTenants' = ListTenants
           /\ ListAllAPIKeyGrants' = ListAllAPIKeyGrants /\ Catalog' = Catalog
           /\ grants' = grants /\ tenants' = tenants
           /\ Published(Snapshot)' = Published(Snapshot)
BY DEF Tables, ActiveUsers, ListTenants, ListAllAPIKeyGrants, Catalog, Snapshot, Published

(* What is drafted from the tables as they are is published as they are. *)
LEMMA DraftedIsPublished ==
    ASSUME NEW d, d.active = ActiveUsers, d.ids = ListTenants, d.grants = grants,
           d.declared = ListAllAPIKeyGrants
    PROVE  Published(d) = Published(Snapshot)
BY DEF Published, Snapshot

(* Where a worker drafts what it did and goes nowhere else, or to a step that *)
(* drafts nothing, it stays faithful.                                         *)
LEMMA FaithfulStays ==
    ASSUME UNCHANGED Tables, NEW v \in Workers, Faithful(v),
           \/ step'[v] = step[v] /\ draft'[v] = draft[v]
           \/ step'[v] \notin Drafting
    PROVE  Faithful(v)'
<1>1. CASE step'[v] = step[v] /\ draft'[v] = draft[v]
  BY <1>1, SnapshotStays DEF Faithful
<1>2. CASE step'[v] \notin Drafting
  BY <1>2 DEF Faithful, Drafting
<1> QED
  BY <1>1, <1>2

LEMMA GotoElsewhere ==
    ASSUME Typed, NEW w \in Workers, NEW next \in Steps \ Drafting,
           Goto(w, next) \/ Publishes(w) \/ Ends(w) \/ UNCHANGED step
    PROVE  \A v \in Workers : step'[v] = step[v] \/ step'[v] \notin Drafting
BY DEF Typed, Goto, Publishes, Ends, Drafting

(* Requests draft nothing. *)
LEMMA RequestsDraftNothing ==
    ASSUME Typed, NEW w \in Workers, Request(w) \/ Statement(w)
    PROVE  \A v \in Workers : step'[v] = step[v] \/ step'[v] \notin Drafting
<1>1. PICK next \in Steps \ Drafting :
          Goto(w, next) \/ Publishes(w) \/ Ends(w) \/ UNCHANGED step
  <2>1. CASE Request(w)
    <3>1. \/ Publishes(w) \/ Goto(w, "seed rows") \/ Goto(w, "drop grants")
          \/ Goto(w, "read have") \/ Goto(w, "attach grants") \/ Goto(w, "drop role")
      <4>1. CASE \E caller \in Callers, s \in Slugs :
                     CreateTenant(w, caller, s) \/ DeleteTenant(w, caller, s)
        BY <4>1 DEF CreateTenant, DeleteTenant
      <4>2. CASE \E caller \in Callers, u \in Users :
                     \/ CreateUser(w, caller, u) \/ DeleteUser(w, caller, u)
                     \/ \E status \in {"active", "disabled"} : UpdateUser(w, caller, u, status)
        BY <4>2 DEF CreateUser, DeleteUser, UpdateUser
      <4>3. CASE \E caller \in Callers, u \in Users, want \in GrantSets :
                     PutGrants(w, caller, u, want)
        BY <4>3 DEF PutGrants
      <4>4. CASE \E caller \in Callers, u \in Users, k \in Keys, s \in Slugs, spans \in BOOLEAN,
                    declared \in DeclaredSets : MintAPIKey(w, caller, u, k, s, spans, declared)
        BY <4>4 DEF MintAPIKey
      <4>5. CASE \E caller \in Callers, k \in Keys : RevokeAPIKey(w, caller, k)
        BY <4>5 DEF RevokeAPIKey
      <4>6. CASE \E caller \in Callers, role \in EditedRoles, permissions \in RoleSets :
                     PutRole(w, caller, role, permissions)
        BY <4>6 DEF PutRole
      <4>7. CASE Boot(w) \/ \E caller \in Callers : DeleteRole(w, caller)
        BY <4>7 DEF Boot, DeleteRole
      <4> QED
        BY <2>1, <4>1, <4>2, <4>3, <4>4, <4>5, <4>6, <4>7 DEF Request
    <3>2. {"seed rows", "drop grants", "read have", "attach grants", "drop role"}
            \subseteq Steps \ Drafting
      BY DEF Steps, Drafting
    <3> QED
      BY <3>1, <3>2
  <2>2. CASE Statement(w)
    BY <2>2 DEF Statement, DropGrants, DropTenant, ReadHave, SetGrants, AttachGrants, DropRole,
                SeedRows, SeedTenant, SeedUser, SeedGrant, Steps, Drafting
  <2> QED
    BY <2>1, <2>2
<1> QED
  BY <1>1, GotoElsewhere

(* A query reads the tables as they are. *)
LEMMA ReadFaithful ==
    ASSUME Typed, InAgreement, NEW w \in Workers, Read(w), UNCHANGED Tables
    PROVE  \A v \in Workers : Faithful(v)'
<1> DEFINE d == draft'[w]
<1>1. draft[w] \in Draft /\ draft[w].set \in PrincipalSet
  BY SetsTyped DEF Draft
<1>2. Faithful(w)
  BY DEF InAgreement
<1>3. ASSUME NEW v \in Workers \ {w} PROVE Faithful(v)'
  <2>1. step'[v] = step[v]
    BY DEF Read, ReadUsers, ReadGrants, ReadKeyGrants, ReadKeys, ReadCatalog, Goto, Typed
  <2>2. draft'[v] = draft[v]
    BY DEF Read, ReadUsers, ReadGrants, ReadKeyGrants, ReadKeys, ReadCatalog, Typed
  <2> QED
    BY <2>1, <2>2, FaithfulStays DEF InAgreement
<1>4. CASE ReadUsers(w)
  <2>1. step'[w] = "read grants"
    BY <1>4 DEF ReadUsers, Goto, Typed
  <2>2. d.active = ActiveUsers /\ d.ids = ListTenants
    BY <1>1, <1>4 DEF ReadUsers, Typed, Draft
  <2>3. Faithful(w)'
    BY <2>1, <2>2, SnapshotStays DEF Faithful
  <2> QED
    BY <1>3, <2>3
<1>5. CASE ReadGrants(w)
  <2>1. step[w] = "read grants" /\ step'[w] = "read key grants"
    BY <1>5 DEF ReadGrants, Goto, Typed
  <2>2. d.active = ActiveUsers /\ d.ids = ListTenants /\ d.grants = grants
    BY <1>1, <1>2, <1>5, <2>1 DEF ReadGrants, Faithful, Typed, Draft
  <2>3. Faithful(w)'
    BY <2>1, <2>2, SnapshotStays DEF Faithful
  <2> QED
    BY <1>3, <2>3
<1>6. CASE ReadKeyGrants(w)
  <2>1. step[w] = "read key grants" /\ step'[w] = "read keys"
    BY <1>6 DEF ReadKeyGrants, Goto, Typed
  <2>2. /\ d.active = ActiveUsers /\ d.ids = ListTenants /\ d.grants = grants
        /\ d.declared = ListAllAPIKeyGrants
    BY <1>1, <1>2, <1>6, <2>1 DEF ReadKeyGrants, Faithful, Typed, Draft
  <2>3. Faithful(w)'
    BY <2>1, <2>2, SnapshotStays DEF Faithful
  <2> QED
    BY <1>3, <2>3
<1>7. CASE ReadKeys(w)
  <2>1. step[w] = "read keys" /\ step'[w] = "read catalog"
    BY <1>7 DEF ReadKeys, Goto, Typed
  <2>2. Published(draft[w]) = Published(Snapshot)
    BY <1>2, <2>1, DraftedIsPublished DEF Faithful
  <2>3. d.set.principals = Published(draft[w])
    BY <1>7 DEF ReadKeys, Typed, NoDraft, NoSet
  <2>4. Faithful(w)'
    BY <2>1, <2>2, <2>3, SnapshotStays DEF Faithful
  <2> QED
    BY <1>3, <2>4
<1>8. CASE ReadCatalog(w)
  <2>1. step[w] = "read catalog" /\ step'[w] = "write"
    BY <1>8 DEF ReadCatalog, Goto, Typed
  <2>2. d.set.principals = draft[w].set.principals /\ d.set.catalog = Catalog
    BY <1>1, <1>8 DEF ReadCatalog, Typed, Draft, PrincipalSet
  <2>3. d.set.principals = Published(Snapshot)
    BY <1>2, <2>1, <2>2 DEF Faithful
  <2>4. Faithful(w)'
    BY <2>1, <2>2, <2>3, SnapshotStays DEF Faithful
  <2> QED
    BY <1>3, <2>4
<1> QED
  BY <1>4, <1>5, <1>6, <1>7, <1>8 DEF Read

LEMMA AgreementStays ==
    ASSUME Typed, InAgreement, [Next]_vars, UNCHANGED Tables
    PROVE  InAgreement'
<1> DEFINE Signed == <<file, gateway, serving>>
<1>1. ASSUME UNCHANGED Signed, \A v \in Workers : Faithful(v)' PROVE InAgreement'
  BY <1>1, SnapshotStays DEF InAgreement, Says
<1>2. ASSUME UNCHANGED Signed,
             \A v \in Workers : \/ step'[v] = step[v] /\ draft'[v] = draft[v]
                                \/ step'[v] \notin Drafting
      PROVE  InAgreement'
  BY <1>1, <1>2, FaithfulStays DEF InAgreement
<1>3. CASE \E w \in Workers : (Request(w) \/ Statement(w)) /\ UNCHANGED Distributed
  BY <1>2, <1>3, RequestsDraftNothing DEF Distributed
<1>4. CASE \E w \in Workers : Read(w) /\ UNCHANGED <<gateway, serving>>
  <2>1. UNCHANGED file
    BY <1>4 DEF Read
  <2> QED
    BY <1>1, <1>4, <2>1, ReadFaithful
<1>5. CASE \E w \in Workers : Write(w) /\ UNCHANGED <<gateway, serving>>
  <2>1. PICK w \in Workers : Write(w) /\ UNCHANGED <<gateway, serving>>
    BY <1>5
  <2>2. file' = draft[w].set /\ step[w] = "write"
    BY <2>1 DEF Write
  <2>3. Says(file)'
    BY <2>2, SnapshotStays DEF InAgreement, Faithful, Says
  <2>4. \A v \in Workers : \/ step'[v] = step[v] /\ draft'[v] = draft[v]
                           \/ step'[v] \notin Drafting
    BY <2>1 DEF Write, Ends, Goto, Drafting, Typed
  <2>5. \A v \in Workers : Faithful(v)'
    BY <2>4, FaithfulStays DEF InAgreement
  <2> QED
    BY <2>1, <2>3, <2>5, SnapshotStays DEF InAgreement, Says
<1>6. CASE \E w \in Workers : Dies(w) /\ UNCHANGED <<gateway, serving>>
  <2>1. PICK w \in Workers : Dies(w) /\ UNCHANGED <<gateway, serving>>
    BY <1>6
  <2>2. \A v \in Workers : \/ step'[v] = step[v] /\ draft'[v] = draft[v]
                           \/ step'[v] \notin Drafting
    BY <2>1 DEF Dies, Ends, Goto, Drafting, Typed
  <2> QED
    BY <1>2, <2>1, <2>2 DEF Dies
<1>7. CASE \E t \in Timers : Heartbeat(t) /\ UNCHANGED <<gateway, serving>>
  <2>1. PICK t \in Timers : Heartbeat(t) /\ UNCHANGED <<gateway, serving>>
    BY <1>7
  <2>2. t \in Workers
    BY DEF Workers
  <2>3. \A v \in Workers : \/ step'[v] = step[v] /\ draft'[v] = draft[v]
                           \/ step'[v] \notin Drafting
    BY <2>1, <2>2 DEF Heartbeat, Publishes, Goto, Drafting, Typed
  <2> QED
    BY <1>2, <2>1, <2>3 DEF Heartbeat
<1>8. CASE Rebuild
  BY <1>8 DEF Rebuild, InAgreement
<1>9. CASE Poll
  <2>1. Says(gateway)'
    BY <1>9, SnapshotStays DEF Poll, InAgreement, Says
  <2>2. \A v \in Workers : Faithful(v)'
    BY <1>9, FaithfulStays DEF Poll, InAgreement
  <2> QED
    BY <1>9, <2>1, <2>2, SnapshotStays DEF Poll, InAgreement, Says
<1>10. CASE UNCHANGED vars
  BY <1>2, <1>10 DEF vars
<1> QED
  BY <1>3, <1>4, <1>5, <1>6, <1>7, <1>8, <1>9, <1>10
     DEF Next, Workers, ControlPlane, Distributed

(* What GatewayComesToAgree leaves once it has come about: as long as nobody  *)
(* changes a table it stays, although publications begin, die and overtake    *)
(* each other, whatever their versions - and a gateway in agreement decides   *)
(* about every key as the control plane does (ADR 0024).                      *)
THEOREM AgreementLasts ==
    Spec => /\ [](InAgreement => DecideAlike)
            /\ [][InAgreement /\ UNCHANGED Tables => InAgreement']_vars
<1>1. TypeOK /\ InAgreement => DecideAlike
  BY SetsDecideAlike DEF InAgreement
<1>2. TypeOK /\ [Next]_vars => [InAgreement /\ UNCHANGED Tables => InAgreement']_vars
  BY AgreementStays DEF TypeOK
<1> QED
  BY <1>1, <1>2, TypeCorrect, PTL DEF Spec
=============================================================================
