------------------------------- MODULE Access -------------------------------
(***************************************************************************)
(* Who may do what: the control plane's tenants, users, grants, roles and  *)
(* keys, the admin requests that change them one SQL statement after the   *)
(* other, the principal set read from them with one query per table, and   *)
(* the gateway that decides from the set it last accepted.                 *)
(*                                                                         *)
(* The revocation list and the versions' races are Distribution's.         *)
(***************************************************************************)
EXTENDS Authz, FiniteSets

CONSTANTS
    Users,          \* accounts, by email
    Root,           \* the account SeedPlatformAdmin creates
    Keys,           \* API keys, each minted at most once
    Slugs,          \* tenants, by slug
    PlatformSlug,   \* the tenant SeedPlatformAdmin creates
    Grants,         \* the grants requests and keys name
    GrantSets,      \* what a putGrants request may ask for
    DeclaredSets,   \* what a minted key may declare
    DefaultCatalog, \* authz.DefaultCatalog, as rows
    CustomRole,     \* a role an operator made
    EditedRoles,    \* the roles putRole may be about
    RoleSets,       \* the permission sets putRole may ask for
    Handlers,       \* requests served at a time
    Timers,         \* schedulers running the principal heartbeat
    MaxRequests,    \* bound: requests served
    MaxFaults       \* bound: requests that die half-way

Workers == Handlers \cup Timers
Grant == [role : STRING, scope : Seq(STRING)]
RootGrant == [role |-> "platform_admin", scope |-> Global]
Builtins == {row[1] : row \in DefaultCatalog}
Permissions == {row[2] : row \in DefaultCatalog}
Rows == (Builtins \cup {CustomRole}) \X Permissions

ASSUME UsersAssumption == Root \in Users
ASSUME KeysAssumption == Keys # {}
ASSUME SlugsAssumption == PlatformSlug \in Slugs
ASSUME GrantsAssumption == RootGrant \in Grants /\ Grants \subseteq Grant
ASSUME GrantSetsAssumption == GrantSets \cup DeclaredSets \subseteq SUBSET Grants
ASSUME CatalogAssumption == DefaultCatalog \subseteq STRING \X STRING
ASSUME RoleSetsAssumption == RoleSets \subseteq SUBSET Permissions
ASSUME RolesAssumption == CustomRole \notin Builtins /\ EditedRoles \subseteq Builtins \cup {CustomRole}
ASSUME MaxRequestsAssumption == MaxRequests \in Nat
ASSUME MaxFaultsAssumption == MaxFaults \in Nat

VARIABLES
    tenants,    \* tenants: slug -> id, 0 while there is none
    users,      \* users.status, "absent" before and "gone" after the row
    grants,     \* grants, by user
    roles,      \* roles, by name
    catalog,    \* role_permissions
    keys,       \* api_keys with their api_key_grants
    version,    \* revocation_state.principal_version
    step,       \* what each worker does next
    arg,        \* what its request is about
    draft,      \* the principal set it is reading
    file,       \* the signed set on disk
    gateway,    \* Store.principals of a gateway
    serving,    \* the tenants the serving snapshot carries
    lastId,     \* the newest tenant id
    requests, faults,
    held        \* history: every grant a user has held

dbVars == <<tenants, users, grants, roles, catalog, keys, lastId, held>>
vars == <<dbVars, version, step, arg, draft, file, gateway, serving,
          requests, faults>>

Key == [state : {"absent", "active", "revoked", "gone"}, owner : Users,
        tenant : Nat, declared : SUBSET Grants]
Principal == [key : Keys, owner : Users, tenant : Nat, grants : SUBSET Grants]
PrincipalSet == [version : Nat, principals : SUBSET Principal, catalog : SUBSET Rows]
NoSet == [version |-> 0, principals |-> {}, catalog |-> {}]

Arg == [user : Users, key : Keys, slug : Slugs, tenant : Nat, add : SUBSET Grants, drop : SUBSET Grants]
NoArg == [user |-> Root, key |-> CHOOSE k \in Keys : TRUE, slug |-> PlatformSlug,
          tenant |-> 0, add |-> {}, drop |-> {}]
Draft == [set : PrincipalSet, ids : SUBSET Nat, active : SUBSET Users,
          grants : [Users -> SUBSET Grants], declared : [Keys -> SUBSET Grants]]
NoDraft == [set |-> NoSet, ids |-> {}, active |-> {},
            grants |-> [u \in Users |-> {}], declared |-> [k \in Keys |-> {}]]

Steps == {"idle", "read have", "set grants", "attach grants", "drop grants",
          "drop tenant", "drop role", "seed rows", "seed tenant", "seed user",
          "seed grant", "read users", "read grants", "read key grants",
          "read keys", "read catalog", "write"}

(* A database without a row, or what the first boot left in it and what may   *)
(* have been put beside that since: a role, an account with grants.           *)
Empty ==
    /\ tenants = [s \in Slugs |-> 0] /\ lastId = 0
    /\ users = [u \in Users |-> "absent"]
    /\ grants = [u \in Users |-> {}]
    /\ roles = {} /\ catalog = {}

Seeded ==
    /\ tenants = [s \in Slugs |-> IF s = PlatformSlug THEN 1 ELSE 0] /\ lastId = 1
    /\ users = [u \in Users |-> "active"]
    /\ \E asked \in GrantSets \ {{}} :
         grants = [u \in Users |-> IF u = Root THEN {RootGrant} ELSE asked]
    /\ roles = Builtins \cup {CustomRole}
    /\ catalog \in {DefaultCatalog \cup ({CustomRole} \X permissions) : permissions \in RoleSets}
    /\ ValidateCatalog(catalog)

Init ==
    /\ Empty \/ Seeded
    /\ keys = [k \in Keys |-> [state |-> "absent", owner |-> Root, tenant |-> 0,
                               declared |-> {}]]
    /\ version = 0
    /\ step = [w \in Workers |-> "idle"]
    /\ arg = [w \in Workers |-> NoArg]
    /\ draft = [w \in Workers |-> NoDraft]
    /\ file = NoSet /\ gateway = NoSet
    /\ serving = tenants
    /\ requests = 0 /\ faults = 0
    /\ held = grants

-----------------------------------------------------------------------------
(* The statements: what a query returns and what one leaves changed. Each is  *)
(* a transaction of its own unless the store opens one.                       *)

ListTenants == {tenants[s] : s \in Slugs}

CreateTenantRow(slug) ==
    /\ tenants[slug] = 0
    /\ lastId' = lastId + 1
    /\ tenants' = [tenants EXCEPT ![slug] = lastId']

ActiveUsers == {u \in Users : users[u] = "active"}

HasRow(u) == users[u] \in {"active", "disabled"}

CreateUserRow(u) == users' = [users EXCEPT ![u] = "active"]

UpdateUserRow(u, status) == users' = [users EXCEPT ![u] = status]

Existing == {k \in Keys : keys[k].state \in {"active", "revoked"}}

WithKeysGone(doomed) ==
    [k \in Keys |-> IF k \in doomed
                    THEN [keys[k] EXCEPT !.state = "gone", !.tenant = 0, !.declared = {}]
                    ELSE keys[k]]

DeleteTenantRow_LeavesKeys(id) ==
    /\ tenants' = [s \in Slugs |-> IF tenants[s] = id THEN 0 ELSE tenants[s]]
    /\ keys' = keys

(* What refers to the row goes with it: a tenant's keys, a user's keys and    *)
(* grants.                                                                    *)
DeleteTenantRow(id) ==
    /\ tenants' = [s \in Slugs |-> IF tenants[s] = id THEN 0 ELSE tenants[s]]
    /\ keys' = WithKeysGone({k \in Existing : keys[k].tenant = id})

DeleteUserRow(u) ==
    /\ users' = [users EXCEPT ![u] = "gone"]
    /\ grants' = [grants EXCEPT ![u] = {}]
    /\ keys' = WithKeysGone({k \in Existing : keys[k].owner = u})

CreateGrant(u, g) ==
    /\ grants' = [grants EXCEPT ![u] = @ \cup {g}]
    /\ held' = [held EXCEPT ![u] = @ \cup {g}]

RevokeGrant(u, g) == grants' = [grants EXCEPT ![u] = @ \ {g}]

(* Grants name a scope as text: nothing cascades to them. *)
DeleteGrantsInTenant(slug) ==
    grants' = [u \in Users |-> {g \in grants[u] : ~ScopeCovers(<<slug>>, g.scope)}]

CreateAPIKey(k, u, tenant) ==
    /\ keys[k].state = "absent"
    /\ keys' = [keys EXCEPT ![k] = [state |-> "active", owner |-> u, tenant |-> tenant, declared |-> {}]]

AddAPIKeyGrant(k, g) == keys' = [keys EXCEPT ![k].declared = @ \cup {g}]

ListAllAPIKeyGrants == [k \in Keys |-> keys[k].declared]

RevokeKeyRow(k) == keys' = [keys EXCEPT ![k].state = "revoked"]

CountsNoGrantOf(role) ==
    /\ \A u \in Users : \A g \in grants[u] : g.role # role
    /\ \A k \in Keys : \A g \in keys[k].declared : g.role # role

UpsertRole(role) == roles' = roles \cup {role}

DeleteRoleRow(role) ==
    /\ roles' = roles \ {role}
    /\ catalog' = {row \in catalog : row[1] # role}

-----------------------------------------------------------------------------
(* Who asks: authenticate and require.                                        *)

Catalog == IF catalog = {} THEN DefaultCatalog ELSE catalog

(* A caller is a live session, an API key or the static token of the          *)
(* configuration. What the first two may do is read afresh; the third works   *)
(* when the database does not.                                                *)
StaticToken == "static-token"
Callers == Users \cup Keys \cup {StaticToken}

ResolveSession(u) == IF users[u] = "active" THEN grants[u] ELSE {}

ResolveAPIKey(k) ==
    IF keys[k].state = "active" /\ users[keys[k].owner] = "active"
    THEN Intersect(keys[k].declared, grants[keys[k].owner])
    ELSE {}

Authority(caller) ==
    IF caller \in Users THEN [grants |-> ResolveSession(caller), catalog |-> Catalog]
    ELSE IF caller \in Keys THEN [grants |-> ResolveAPIKey(caller), catalog |-> Catalog]
    ELSE [grants |-> {RootGrant}, catalog |-> DefaultCatalog]

Can(caller, permission, scope) ==
    LET its == Authority(caller) IN Allows(its.grants, its.catalog, permission, scope)

CanAnywhere(caller, permission) ==
    LET its == Authority(caller) IN AllowsAnywhere(its.grants, its.catalog, permission)

-----------------------------------------------------------------------------
(* Requests. A handler is the statements it runs, each a step of its own; the *)
(* checks it makes on the way in go with the first. One that changed the      *)
(* database ends by publishing the principal set.                             *)

Begin(w) == step[w] = "idle" /\ requests < MaxRequests /\ requests' = requests + 1

Goto(w, next) == step' = [step EXCEPT ![w] = next]

Forget(w) == arg' = [arg EXCEPT ![w] = NoArg]

Publishes(w) == Goto(w, "read users") /\ Forget(w)

Ends(w) == Goto(w, "idle") /\ Forget(w)

CreateTenant(w, caller, slug) ==
    /\ Can(caller, "tenant:manage", Global)
    /\ CreateTenantRow(slug)
    /\ Publishes(w)
    /\ UNCHANGED <<users, grants, roles, catalog, keys, held>>

(* The revocations it records and publishes first are not this module's. *)
DeleteTenant(w, caller, slug) ==
    /\ tenants[slug] # 0
    /\ Can(caller, "tenant:manage", <<slug>>)
    /\ arg' = [arg EXCEPT ![w] = [@ EXCEPT !.slug = slug, !.tenant = tenants[slug]]]
    /\ Goto(w, "drop grants")
    /\ UNCHANGED dbVars

(* A tenant that is gone by now is an error. *)
DropGrants(w) ==
    LET slug == arg[w].slug IN
    /\ IF tenants[slug] = arg[w].tenant
       THEN /\ DeleteGrantsInTenant(slug)
            /\ Goto(w, "drop tenant") /\ UNCHANGED arg
       ELSE Ends(w) /\ UNCHANGED grants
    /\ UNCHANGED <<tenants, users, roles, catalog, keys, lastId, held>>

DropTenant(w) ==
    /\ DeleteTenantRow(arg[w].tenant)
    /\ Publishes(w)
    /\ UNCHANGED <<users, grants, roles, catalog, lastId, held>>

CreateUser(w, caller, u) ==
    /\ Can(caller, "user:manage", Global)
    /\ users[u] = "absent"
    /\ CreateUserRow(u)
    /\ Publishes(w)
    /\ UNCHANGED <<tenants, grants, roles, catalog, keys, lastId, held>>

UpdateUser(w, caller, u, status) ==
    /\ Can(caller, "user:manage", Global)
    /\ HasRow(u)
    /\ UpdateUserRow(u, status)
    /\ Publishes(w)
    /\ UNCHANGED <<tenants, grants, roles, catalog, keys, lastId, held>>

DeleteUser(w, caller, u) ==
    /\ Can(caller, "user:manage", Global)
    /\ HasRow(u)
    /\ DeleteUserRow(u)
    /\ Publishes(w)
    /\ UNCHANGED <<tenants, roles, catalog, lastId, held>>

(* knownScopes.check: the serving snapshot carries what the scope names. *)
Servable(scope) == scope # Global => serving[scope[1]] # 0

(* You cannot grant what you do not hold. *)
MayGrant(caller, g) ==
    /\ \E row \in Catalog : row[1] = g.role
    /\ Servable(g.scope)
    /\ Can(caller, "role:manage", g.scope)
    /\ LET its == Authority(caller)
       IN  WithheldBy(its.grants, its.catalog, Catalog, g.role, g.scope) = {}

PutGrants(w, caller, u, want) ==
    /\ CanAnywhere(caller, "role:manage")
    /\ \A g \in want : MayGrant(caller, g)
    /\ arg' = [arg EXCEPT ![w] = [@ EXCEPT !.user = u, !.add = want]]
    /\ Goto(w, "read have")
    /\ UNCHANGED dbVars

(* SetGrants: what is held and wanted is left alone. *)
ReadHave(w) ==
    LET have == grants[arg[w].user] IN
    /\ arg' = [arg EXCEPT ![w].add = @ \ have, ![w].drop = have \ arg[w].add]
    /\ Goto(w, "set grants")
    /\ UNCHANGED dbVars

(* A grant to a user who is gone is refused by the foreign key. *)
SetGrants(w) ==
    LET u == arg[w].user IN
    /\ \/ \E g \in arg[w].add :
            IF HasRow(u)
            THEN /\ CreateGrant(u, g)
                 /\ arg' = [arg EXCEPT ![w].add = @ \ {g}]
                 /\ UNCHANGED step
            ELSE Ends(w) /\ UNCHANGED <<grants, held>>
       \/ /\ arg[w].add = {}
          /\ \E g \in arg[w].drop :
               /\ RevokeGrant(u, g)
               /\ arg' = [arg EXCEPT ![w].drop = @ \ {g}]
               /\ UNCHANGED <<step, held>>
       \/ /\ arg[w].add \cup arg[w].drop = {}
          /\ Publishes(w) /\ UNCHANGED <<grants, held>>
    /\ UNCHANGED <<tenants, users, roles, catalog, keys, lastId>>

(* One tenant, or spanning. The owner must reach it and the caller manage     *)
(* its keys; what the key declares is checked when the key is used.           *)
MintAPIKey(w, caller, u, k, slug, spans, declared) ==
    /\ IF spans
       THEN /\ grants[u] # {}
            /\ Can(caller, "key:manage", Global)
       ELSE /\ tenants[slug] # 0
            /\ AnyReaches(grants[u], slug)
            /\ Can(caller, "key:manage", <<slug>>)
    /\ CreateAPIKey(k, u, IF spans THEN 0 ELSE tenants[slug])
    /\ arg' = [arg EXCEPT ![w] = [@ EXCEPT !.key = k, !.add = declared]]
    /\ Goto(w, "attach grants")
    /\ UNCHANGED <<tenants, users, grants, roles, catalog, lastId, held>>

(* The key's row is committed: its grants follow one by one, if it is there. *)
AttachGrants(w) ==
    LET k == arg[w].key IN
    /\ \/ \E g \in arg[w].add :
            IF k \in Existing
            THEN /\ AddAPIKeyGrant(k, g)
                 /\ arg' = [arg EXCEPT ![w].add = @ \ {g}]
                 /\ UNCHANGED step
            ELSE Ends(w) /\ UNCHANGED keys
       \/ /\ arg[w].add = {}
          /\ Publishes(w) /\ UNCHANGED keys
    /\ UNCHANGED <<tenants, users, grants, roles, catalog, lastId, held>>

RevokeAPIKey(w, caller, k) ==
    /\ k \in Existing
    /\ \/ keys[k].tenant = 0 /\ Can(caller, "key:manage", Global)
       \/ \E slug \in Slugs : /\ keys[k].tenant = tenants[slug] /\ tenants[slug] # 0
                              /\ Can(caller, "key:manage", <<slug>>)
    /\ RevokeKeyRow(k)
    /\ Publishes(w)
    /\ UNCHANGED <<tenants, users, grants, roles, catalog, lastId, held>>

WriteRole_NoTransaction(role, permissions) ==
    \E written \in SUBSET permissions :
        catalog' = {row \in catalog : row[1] # role} \cup ({role} \X written)

(* Clear and insert, in one transaction. *)
WriteRole(role, permissions) ==
    catalog' = {row \in catalog : row[1] # role} \cup ({role} \X permissions)

PutRole(w, caller, role, permissions) ==
    /\ Can(caller, "role:manage", Global)
    /\ \A p \in permissions : CanAnywhere(caller, p)
    /\ UpsertRole(role)
    /\ WriteRole(role, permissions)
    /\ Publishes(w)
    /\ UNCHANGED <<tenants, users, grants, keys, lastId, held>>

(* Counted, and deleted by a later statement. *)
DeleteRole(w, caller) ==
    /\ Can(caller, "role:manage", Global)
    /\ CustomRole \in roles
    /\ CountsNoGrantOf(CustomRole)
    /\ Goto(w, "drop role")
    /\ UNCHANGED <<dbVars, arg>>

DropRole(w) ==
    /\ DeleteRoleRow(CustomRole)
    /\ Publishes(w)
    /\ UNCHANGED <<tenants, users, grants, keys, lastId, held>>

-----------------------------------------------------------------------------
(* Boot of a replica: SeedRoles, then SeedPlatformAdmin. The scheduler, not   *)
(* the boot, publishes what changed.                                          *)

Boot(w) == Goto(w, "seed rows") /\ UNCHANGED <<dbVars, arg>>

OfRole(role, rows) == {row \in rows : row[1] = role}

(* SeedCatalog inserts what is missing, here a role at a time. *)
SeedRows(w) ==
    LET missing == DefaultCatalog \ catalog IN
    /\ roles' = roles \cup Builtins
    /\ IF missing # {}
       THEN /\ catalog' = catalog \cup OfRole((CHOOSE row \in missing : TRUE)[1], missing)
            /\ UNCHANGED step
       ELSE /\ Goto(w, IF \E s \in Slugs : tenants[s] # 0 THEN "idle" ELSE "seed tenant")
            /\ UNCHANGED catalog
    /\ UNCHANGED <<tenants, users, grants, keys, lastId, held, arg>>

(* A slug or an email taken meanwhile ends the boot. *)
SeedTenant(w) ==
    /\ IF tenants[PlatformSlug] = 0
       THEN CreateTenantRow(PlatformSlug) /\ Goto(w, "seed user")
       ELSE Goto(w, "idle") /\ UNCHANGED <<tenants, lastId>>
    /\ UNCHANGED <<users, grants, roles, catalog, keys, held, arg>>

SeedUser(w) ==
    /\ IF users[Root] = "absent"
       THEN CreateUserRow(Root) /\ Goto(w, "seed grant")
       ELSE Goto(w, "idle") /\ UNCHANGED users
    /\ UNCHANGED <<tenants, grants, roles, catalog, keys, lastId, held, arg>>

SeedGrant(w) ==
    /\ IF HasRow(Root)
       THEN CreateGrant(Root, RootGrant)
       ELSE UNCHANGED <<grants, held>>
    /\ Goto(w, "idle")
    /\ UNCHANGED <<tenants, users, roles, catalog, keys, lastId, arg>>

Request(w) ==
    /\ Begin(w)
    /\ \/ Boot(w)
       \/ \E caller \in Callers :
            \/ \E s \in Slugs : CreateTenant(w, caller, s) \/ DeleteTenant(w, caller, s)
            \/ \E u \in Users :
                 \/ CreateUser(w, caller, u) \/ DeleteUser(w, caller, u)
                 \/ \E status \in {"active", "disabled"} : UpdateUser(w, caller, u, status)
                 \/ \E want \in GrantSets : PutGrants(w, caller, u, want)
                 \/ \E k \in Keys, s \in Slugs, spans \in BOOLEAN, declared \in DeclaredSets :
                      MintAPIKey(w, caller, u, k, s, spans, declared)
            \/ \E k \in Keys : RevokeAPIKey(w, caller, k)
            \/ \E role \in EditedRoles, permissions \in RoleSets :
                 PutRole(w, caller, role, permissions)
            \/ DeleteRole(w, caller)
    /\ UNCHANGED faults

Statement(w) ==
    /\ \/ step[w] = "drop grants" /\ DropGrants(w)
       \/ step[w] = "drop tenant" /\ DropTenant(w)
       \/ step[w] = "read have" /\ ReadHave(w)
       \/ step[w] = "set grants" /\ SetGrants(w)
       \/ step[w] = "attach grants" /\ AttachGrants(w)
       \/ step[w] = "drop role" /\ DropRole(w)
       \/ step[w] = "seed rows" /\ SeedRows(w)
       \/ step[w] = "seed tenant" /\ SeedTenant(w)
       \/ step[w] = "seed user" /\ SeedUser(w)
       \/ step[w] = "seed grant" /\ SeedGrant(w)
    /\ UNCHANGED <<requests, faults>>

-----------------------------------------------------------------------------
(* PublishPrincipalSet: the version and then one query per table.             *)

(* A change between the bump and the first query only makes the set newer     *)
(* than its version says; Distribution keeps the two apart.                   *)
ReadUsers(w) ==
    /\ step[w] = "read users"
    /\ version' = version + 1
    /\ draft' = [draft EXCEPT ![w] = [@ EXCEPT !.set.version = version',
                                              !.ids = ListTenants, !.active = ActiveUsers]]
    /\ Goto(w, "read grants")

ReadGrants(w) ==
    /\ step[w] = "read grants"
    /\ draft' = [draft EXCEPT ![w].grants = grants]
    /\ Goto(w, "read key grants")
    /\ UNCHANGED version

ReadKeyGrants(w) ==
    /\ step[w] = "read key grants"
    /\ draft' = [draft EXCEPT ![w].declared = ListAllAPIKeyGrants]
    /\ Goto(w, "read keys")
    /\ UNCHANGED version

Effective_Declared(declared, owned) == IF declared = {} THEN owned ELSE declared

(* A key that declares nothing is published with all its owner holds. *)
Effective(declared, owned) == IF declared = {} THEN owned ELSE Intersect(declared, owned)

Published_AnyOwner(d) ==
    {[key |-> k, owner |-> keys[k].owner, tenant |-> keys[k].tenant,
      grants |-> Effective(d.declared[k], d.grants[keys[k].owner])] :
        k \in {k \in Keys : keys[k].state = "active" /\ keys[k].tenant \in {0} \cup d.ids}}

Published(d) ==
    {[key |-> k, owner |-> keys[k].owner, tenant |-> keys[k].tenant,
      grants |-> Effective(d.declared[k], d.grants[keys[k].owner])] :
        k \in {k \in Keys : /\ keys[k].state = "active"
                            /\ keys[k].owner \in d.active
                            /\ keys[k].tenant \in {0} \cup d.ids}}

ReadKeys(w) ==
    /\ step[w] = "read keys"
    /\ draft' = [draft EXCEPT ![w] = [NoDraft EXCEPT !.set.version = draft[w].set.version,
                                                     !.set.principals = Published(draft[w])]]
    /\ Goto(w, "read catalog")
    /\ UNCHANGED version

ReadCatalog(w) ==
    /\ step[w] = "read catalog"
    /\ draft' = [draft EXCEPT ![w].set.catalog = Catalog]
    /\ Goto(w, "write")
    /\ UNCHANGED version

Read(w) ==
    /\ ReadUsers(w) \/ ReadGrants(w) \/ ReadKeyGrants(w) \/ ReadKeys(w) \/ ReadCatalog(w)
    /\ UNCHANGED <<dbVars, arg, file, requests, faults>>

Write(w) ==
    /\ step[w] = "write"
    /\ file' = draft[w].set
    /\ draft' = [draft EXCEPT ![w] = NoDraft]
    /\ Ends(w)
    /\ UNCHANGED <<dbVars, version, requests, faults>>

(* A request dies after any of its statements: its client hangs up, the       *)
(* database refuses the next one, the process is killed. A set half read is   *)
(* lost like one not read yet, and a heartbeat that dies is one that starts   *)
(* later.                                                                     *)
Dies(w) ==
    /\ step[w] \notin {"idle", "read grants", "read key grants", "read keys", "read catalog", "write"}
    /\ faults < MaxFaults
    /\ faults' = faults + 1
    /\ draft' = [draft EXCEPT ![w] = NoDraft]
    /\ Ends(w)
    /\ UNCHANGED <<dbVars, version, file, requests>>

(* The heartbeat republishes on every tick. Here it starts when that would    *)
(* change more than a version number: any other time bounds nothing.          *)
UpToDate ==
    LET d == [grants |-> grants, active |-> ActiveUsers, ids |-> ListTenants,
              declared |-> ListAllAPIKeyGrants]
    IN  file.catalog = Catalog /\ file.principals = Published(d)

Heartbeat(t) ==
    /\ step[t] = "idle"
    /\ ~UpToDate \/ file.version < gateway.version
    /\ Publishes(t)
    /\ UNCHANGED <<dbVars, draft, file, version, requests, faults>>

(* The scheduled rebuild: the snapshot's tenants. *)
Rebuild ==
    /\ serving # tenants
    /\ serving' = tenants
    /\ UNCHANGED <<dbVars, version, step, arg, draft, file, gateway, requests, faults>>

-----------------------------------------------------------------------------
(* The gateway *)

(* A set that is not newer, or whose catalog IndexPrincipals refuses, leaves  *)
(* the previous one in effect.                                                *)
Poll ==
    /\ file.version > gateway.version
    /\ ValidateCatalog(file.catalog)
    /\ gateway' = file
    /\ UNCHANGED <<dbVars, version, step, arg, draft, file, serving, requests, faults>>

(* APIKeyIdentityResolver.Resolve and the principal's decider. *)
GatewayAllows(k, permission, scope) ==
    \E p \in gateway.principals :
        /\ p.key = k
        /\ p.tenant = 0 \/ \E s \in Slugs : serving[s] = p.tenant
        /\ Allows(p.grants, gateway.catalog, permission, scope)

-----------------------------------------------------------------------------
ControlPlane(w) ==
    /\ \/ (Request(w) \/ Statement(w)) /\ UNCHANGED <<version, draft, file>>
       \/ Read(w) \/ Write(w)
    /\ UNCHANGED <<gateway, serving>>

Next ==
    \/ \E h \in Handlers : ControlPlane(h) \/ (Dies(h) /\ UNCHANGED <<gateway, serving>>)
    \/ \E t \in Timers : \/ Heartbeat(t) /\ UNCHANGED <<gateway, serving>>
                         \/ step[t] # "idle" /\ ControlPlane(t)
    \/ Rebuild
    \/ Poll

Spec == Init /\ [][Next]_vars

(* A handler and a heartbeat run to their end, the scheduler ticks, the       *)
(* gateway polls.                                                             *)
Work(w) ==
    /\ \/ Statement(w) /\ UNCHANGED <<version, draft, file>>
       \/ Read(w) \/ Write(w)
    /\ UNCHANGED <<gateway, serving>>

Fairness ==
    /\ \A w \in Workers : WF_vars(Work(w))
    /\ \A t \in Timers : WF_vars(Heartbeat(t) /\ UNCHANGED <<gateway, serving>>)
    /\ WF_vars(Rebuild)
    /\ WF_vars(Poll)

FairSpec == Spec /\ Fairness

-----------------------------------------------------------------------------
(* Properties *)

Typed ==
    /\ tenants \in [Slugs -> Nat] /\ serving \in [Slugs -> Nat] /\ lastId \in Nat
    /\ users \in [Users -> {"absent", "active", "disabled", "gone"}]
    /\ grants \in [Users -> SUBSET Grants] /\ held \in [Users -> SUBSET Grants]
    /\ roles \subseteq Builtins \cup {CustomRole} /\ catalog \subseteq Rows
    /\ keys \in [Keys -> Key]
    /\ version \in Nat
    /\ step \in [Workers -> Steps]
    /\ arg \in [Workers -> Arg]
    /\ draft \in [Workers -> Draft]
    /\ file \in PrincipalSet /\ gateway \in PrincipalSet
    /\ requests \in 0..MaxRequests /\ faults \in 0..MaxFaults

Referenced ==
    /\ \A k \in Existing :
         /\ HasRow(keys[k].owner)
         /\ keys[k].tenant = 0 \/ \E s \in Slugs : keys[k].tenant = tenants[s]
    /\ \A u \in Users : grants[u] # {} => HasRow(u)

(* The types, and what the foreign keys keep true: a key has its owner and    *)
(* its tenant, and nobody who is gone holds anything (migrations/0001).       *)
TypeOK == Typed /\ Referenced

(* Whatever a set was read between, a key never carries to the gateway what   *)
(* its owner never held: "an unintersected key in the artifact would be a key *)
(* that widened its owner's access" (store/snapshotstate.go:122-125).         *)
NoKeyOutgrowsItsOwner ==
    \A p \in gateway.principals : \A g \in p.grants :
        \E h \in held[p.owner] : h.role = g.role /\ ScopeCovers(h.scope, g.scope)

(* A gateway serves a role as somebody wrote it, never the half of an edit:   *)
(* "a reader between the delete and the inserts would otherwise see a role    *)
(* that grants nothing, and that reader is the snapshot publisher"            *)
(* (store/roles.go:96-98).                                                    *)
RolesAreServedWhole ==
    LET served == {row[2] : row \in {r \in gateway.catalog : r[1] = CustomRole}}
    IN  served = {} \/ served \in RoleSets

(* Once the requests are over and no role calls what it cannot list, the      *)
(* gateway and the control plane decide alike for every key that declares     *)
(* something: the set read table by table, published and intersected means    *)
(* what ResolveAPIKey would say, whatever died half-way (ADR 0024).           *)
AgreeOn(k) ==
    \A p \in Permissions, g \in Grants :
        GatewayAllows(k, p, g.scope) <=> Allows(ResolveAPIKey(k), Catalog, p, g.scope)

DeclaresNothing(k) == keys[k].state = "active" /\ keys[k].declared = {}

GatewayComesToAgree ==
    <>[]ValidateCatalog(Catalog)
        => <>[](\A k \in Keys : DeclaresNothing(k) \/ AgreeOn(k))
=============================================================================
