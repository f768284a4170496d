# MCPDoll in TLA+

MCPDoll is a gateway between AI agents and MCP servers. A **control plane** keeps
tenants, users, grants, API keys and a registry document, asks the tool servers what
they publish, and writes three signed files; any number of **data planes** (gateways)
read those files, authenticate callers by API key, compose a catalog for each, run
plugins over every call and forward it to a backend. The two halves share nothing but
the files: a gateway never talks to the database, and the control plane never talks
to a gateway.

This directory models both halves and the files between them. Twelve runs of TLC
check the models on small instances; eight modules of proofs, checked by TLAPS, carry
their safety to any instance.

## Inventory

| Part | State | Operations | How it meets the others |
|---|---|---|---|
| store (`controlplane/store`) | `tenants`, `users`, `grants`, `roles`, `role_permissions`, `api_keys`, `revocations`, the one-row `revocation_state`, `schedules` | SQL statements, mostly autocommitted one by one; no transaction spans a version and the rows it stamps | called by handlers and jobs |
| admin API (`controlplane/apiserver`) | none of its own | accounts, grants, roles, keys, tenants, builds, cadences; each handler a sequence of statements followed by publishes | decides through authz, writes the three files |
| scheduler (`controlplane/scheduler`) | `schedules` rows | register, read a cadence, claim, run, record | runs the publishing jobs, one loop per replica |
| snapshotter, registry | none | read the document and the tenants, ask every primary, admit, refuse or publish | called by a build |
| artifact sources (`dataplane/snapshot/*source.go`) | last modification time and size | load at boot, poll on a ticker | feed the artifact store |
| artifact store (`dataplane/snapshot/store.go`) | serving view, principal set, revocation list, memo of composed views, history | Activate, ApplyPrincipals, ApplyRevocations, PrincipalView, Rollback | read by every call; calls the edge's preparer and observers |
| edge: identity, catalogs (`dataplane/edge/edge.go`) | a server per principal, the announced version | resolve identity, refuse, compose, serve | reads the store |
| edge: dispatch (`edge/dispatch.go`, `requeststate.go`) | nothing between round trips: a signed envelope with the client | tools/call through both hooks and the pool | calls pipeline and pool, asks the prober what is blocked |
| backend pool and breaker (`dataplane/backends`) | a session and a breaker per backend | dial, call, close, sync with a snapshot | called by dispatch and by the prober |
| health (`dataplane/health`) | condition and drift per binding | sweep, classify, forget, block a tool | reads the snapshot, calls the pool |
| plugin pipeline (`dataplane/pipeline`) | a breaker per plugin | run the plugins of a hook within budgets | called by dispatch |
| plugin hosts (`plugins`, `wiring`) | loaded plugins, compiled code, pooled instances | follow the serving snapshot, invoke | called by the pipeline, called back by a swap |
| authorization (`platform/authz`) | none | decide, intersect, withhold | called by handlers, by the publisher and by composition |
| inspector, CLI, console, observability, config, ids, canonical form | none that matters here | | |

What is hard here is listed under `hazards` in `PROJECT.json`, each at its line. In
short: every admin request is many statements that interleave with every other
request, job and replica; files are rewritten whole by whoever comes last, with no
comparison of versions; a write, a read or a process may fail at any step and nothing
retries it except the next heartbeat; gateways take the three files up in any order,
refuse what is not newer and forget everything when they restart; and inside a
gateway calls, sweeps and hooks work with a snapshot that is replaced meanwhile, share
breakers and sessions, and cross a client's round trips without keeping anything.

What makes each part correct, as far as it is modelled:

- **publishing**: an artifact never claims a version newer than what it reflects;
- **distribution**: a list that dropped entries should be taken up only behind the
  snapshot it was pruned against (the finding below says when it is not); a withdrawn
  key ends up refused whatever was lost, and a good one ends up working;
- **access**: no key carries more than its owner was granted, roles are served whole,
  and the gateway comes to decide as the control plane does;
- **scheduling**: the replicas together are one scheduler, no turn is taken twice, no operator's word is undone, and what is
  switched on keeps running, at the cadence its row says;
- **catalogs**: a tool leaves for a cause of its own tenant, and what a principal keeps
  it keeps under its name and in its order, callable if its scope is what it was; a memoized view is what its
  key says, calls of one principal share one server, and nothing stale survives the
  heartbeats;
- **calls**: an approval is redeemed for the call it was asked about, answers reach
  their asker, and a conversation ends;
- **hooks**: trace, decision and payload agree, code that is loaded is what the serving
  snapshot declares, and a plugin that recovers is put back;
- **backends**: a half-open breaker has its probe, an entry one connection, and a backend
  that recovered is used again;
- **health**: an outage lifts no block of a name, and the prober settles on the truth.

## Modules

| Module | Models | Lines of the code |
|---|---|---|
| `CredentialStore` | the tables of keys, revocations and versions; one operator per statement | `store/revocations.go`, `store/snapshotstate.go`, `db/queries/*.sql` |
| `Publisher` | admin handlers and jobs as goroutines over those tables and the files | `apiserver/tenancy.go`, `revocations.go`, `principals.go`, `snapshots.go`, `rebuild.go`, `jobs.go` |
| `Distribution` | `Publisher` composed with one gateway: boot, poll, apply, authenticate, fail, restart | `dataplane/snapshot/store.go`, the three sources, `edge.go`, `cmd/mcpdoll-dp/main.go` |
| `Authz` | the decisions, as operators | `platform/authz/engine.go`, `scope.go`, `roles.go` |
| `Access` | tenants, users, grants, roles and keys under concurrent requests, the principal set read from them, the gateway that decides from it | `apiserver/tenancy.go`, `roles.go`, `principals.go`, `auth.go`, `store/store.go`, `roles.go`, `snapshotstate.go` |
| `Schedule` | replicas, rows, cadences, claims | `scheduler/scheduler.go`, `cadence.go`, `store/schedules.go`, `apiserver/schedules.go` |
| `Turns` | abstract: what the scheduler promises of a job's turns, however many replicas take them | `store/schedules.go` |
| `Catalog` | builds of a snapshot from a document, and the catalogs composed from it | `registry/spec.go`, `snapshotter/snapshotter.go`, `dataplane/snapshot/view.go` |
| `EdgeCatalog` | calls, snapshot swaps and principal-set replacements inside one gateway | `edge/edge.go`, `snapshot/store.go` |
| `Dispatch` | tools/call and its round trips | `edge/dispatch.go`, `requeststate.go` |
| `PluginHosts` | which plugins are loaded and what code runs for them | `plugins/wasm.go`, `wiring/hosts.go` |
| `Pipeline` | hooks, budgets, breakers, verdicts, patches | `pipeline/engine.go`, `breaker.go`, `patch.go`, `verdict.go` |
| `BackendPool` | calls, probes and Sync on one target: entry, breaker, shared session | `backends/pool.go`, `breaker.go` |
| `Health` | sweeps, conditions, drift, blocked tools | `health/prober.go`, `state.go`, `drift.go` |
| `MC*` | values for the checker, one module per checked module | |
| `*Proofs` | theorems about the module they are named after, `ControlPlaneProofs` about `Schedule` and `Catalog` | |

`Publisher` EXTENDS `CredentialStore`, `Distribution` EXTENDS `Publisher`; `Schedule`
INSTANCEs `Turns`, with `On`, `Busy` and the rows' `due` for its variables;
`Access` and `Catalog` EXTEND `Authz`; `Pipeline` EXTENDS
`PluginHosts`. The others stand alone, each with what it needs of its neighbours as an
input: a snapshot is an identity to `EdgeCatalog`, a list of manifests to `Pipeline`
and a list of admitted definitions to `Health`; a plugin is what it does to a call in
`Dispatch`, and a call is a goroutine in `BackendPool`.

### State and actions against the code

*CredentialStore.* `keyRow`, `userStatus`, `revokedAt`, `supersededBy`, `listVersion`,
`prunedThrough` and `principalVersion` are columns. `dbNow` is Postgres's clock,
which is only read by upserts, so it ticks with them. `retiredAt`, `addedAt` and
`prunedBefore` are history: what the counters were when a row changed. They let
a property speak of "newer than"; no action is guarded by them.

*Publisher.* A handler or a job is a goroutine: `plan[w]` holds the steps its body
has left, and the registers `todo`, `set`, `list`, `build` hold its locals. A
step is one statement or one file operation, so every other worker may move
between any two. `HandleDisableUser(u)`, for instance, is UPDATE, then RevokeUser
(list the keys, one upsert per key, bump), then publishRevocations (read the
version, read the entries, write the file), then publishPrincipals (bump, list
users, list keys, write). `Abandon` ends a plan anywhere (a 500, a crash);
`PublishFails` drops one publish and goes on, as the handlers do with its problem
string; `BuildUnchanged` is the early return of a build that would publish the
same bytes; `RowMissing` the one when the row is gone. `snapshotFile`,
`principalFile` and `listFile` are what is on disk, version 0 standing for no file. A
file is replaced by rename, so it is never seen half written.

*Distribution.* `phase` walks through the boot order of `main.go`. The polls are
`checkOnce`; `rewritten` holds the files whose stat differs from what the gateway
last recorded; `ReadFails` is a poll whose stat was recorded and whose read then
failed, or a boot load that failed; `Restart` loses everything held.
`Authenticates(k)` is the decision of `serveMCP`: the resolver finds the key in
the set, the list does not name it. Gateways do not influence each other or the
control plane, so one stands for all.

*Access.* Six tables - `tenants`, `users`, `grants`, `roles`, `catalog`
(role_permissions) and `keys` with what they declare - and the principal version. A
request begins with its route's permission and, where the handler has one, the
delegation rule, decided for a caller with a session, a key or the static token;
`step` and `arg` then say which statement comes next and what it is about. Statements
the store wraps in a transaction are one step. `draft` is the principal set a publication
has read so far, table by table; `file`, `gateway` and `serving` are the set on disk, the
set a gateway holds and the tenants of its snapshot. `Dies` ends a request anywhere.
`held` is history: every grant a user ever had.

*Schedule.* `row` and `due` are the columns (`next_run_at` in five-second ticks from
now); `stage`, `job`, `every`, `ticked` and `result` are where a replica is in
`Scheduler.Run`, what it has read, and whether its ticker's channel holds a tick.
`Refused` is a statement that fails. `wanted` and `turn` are history: what operators last
said, and what is left of the turn the last claim took.

*Catalog.* `document`, `tenants` and `published` are the world a build reads, one piece
at a time: `StartBuild` reads and validates the document and lists the tenants,
`Discover` asks one primary, `Publish` and `Refuse` are the end of the build,
`EditDocument`, `ChangeTenants` and `Release` change the world at any moment. `Compose`
and what it is made of (`Listed`, `TTL`, `PluginsFor`) are `View.composePrincipal`; `InOrder`
and `Ascending` stand for the sorts.

*EdgeCatalog.* Every step is one atomic load, one atomic store or one critical
section. The snapshot source runs `Activate` (purge, announce, store), the
principal source runs `ApplyPrincipals` (store, clear the memo, purge), and calls
run `serverFor`: look up, load the view, compose through the memo, put. A call
loads the serving view twice, once in `serverFor` and once in `PrincipalView`,
and the two may differ.

*Dispatch.* `call` is a request in the hands of the handler, `token` the last envelope
its client was given, `key` the signing key of the running gateway, `config` which of
a masking plugin, a confirming plugin and an asking backend take part. `Begin` and
`Retry` are what a proper client does, `MixUp` one that sends an envelope with another
call. A step is everything a handler does between two calls into the pipeline or
the pool.

*PluginHosts, Pipeline.* `declared` is the serving snapshot's manifests; `Activate`
swaps it and starts the observer that loads them one by one (`todo`, `ready`) and then
replaces the registry's map (`loaded`); `compiled` is what the WASM host keeps by plugin.
`run[w]` is one `Engine.Run`: the list it goes through, its trace, its decision and its
payload as "who wrote this field last". The list is what a view lists at the hook, and the
view is the one captured when the caller's server was built (`edge.go:317`,
`dispatch.go:148` and `262`): the list of any snapshot activated so far (`served`, history),
which may be older than what is served and loaded. `sampled` holds the canaries of the list
that are in, each with its own percentage of the request's hash; `settled` is history: no
swap since the hook began with the serving snapshot's plugins loaded. An invocation and what its goroutine does with the
answer are one step, a breaker's `Allow` another.

*BackendPool.* `entry` is what `Pool.entries` holds for the target, `breaker` and
`session` the fields of each entry ever made, and a worker's registers are the locals
of `CallTool` or `ListTools`. A step is one section of a lock, one exchange, or a change
of the backend. `cooled` stands for "the cooldown has passed since `openedAt`". A
session is named by the entry and the goroutine that dialled it; `open` holds those
nobody closed, `lost` those the backend no longer knows, or whose context the dial's
watchdog cancelled, which the pool keeps all the same. A worker whose entry was retired
goes on using it, as in the code. One `up` stands for the old and the new endpoint: it
may change between any two steps, so each call sees any answer.

*Health.* `serving` is the store's snapshot, `view` the one the running sweep began with,
`left` the bindings that have not reported, `answer` what a probe was told and has
still to report; `registry` is what is known, `backend` what is really deployed. A
definition is a schema and a prose, which is what the two digests tell apart. A snapshot
gives each tool a qualified name, a drift keeps the name its tool had in the sweep's view
(`drift.go:112`), and it is names that are blocked (`BlockedTools`).

### Abstractions

- In `Distribution` a key is in a set or not, and a grant is one of two values in
  `EdgeCatalog`; what decides it - grants, roles, tenants - is `Access`'s, which leaves
  the revocation list and races of versions to `Distribution`. Key expiry is in neither.
- Signatures verify: files are written by the control plane only. In `Dispatch` an
  envelope verifies under the key it was signed with and no other.
- A poll's stat, read and apply are one step, save for the read that fails: a
  file replaced between the stat and the read has a new stat the next poll sees.
- A snapshot's version is the number of builds begun; builds that overlap may
  share it, as builds within one second do. A clock that steps back is not modelled.
- Time is a choice: a cooldown, a grace window, an expiry or a spent budget may come at
  any moment after it is possible. `Schedule` alone counts, in ticks.
- Names, prefixes and tenants in `Catalog` are numbers in the order of their strings;
  ids that a type makes unique are functions' domains. Effect classes, token exchange
  and health settings, which a build copies, are left out.
- In `Catalog` a principal whose tenant is missing lists nothing; the code refuses to
  compose for it (`view.go:621-628`), and no property tells the two apart.
- A due row that another statement has locked is skipped by a claim (`FOR UPDATE SKIP
  LOCKED`): in `Schedule` that is a statement that finds nothing due, or that is refused.
- In `Dispatch` a call that does not get to its admission - the caller is unknown by now,
  may list the tool but not call it, or the tool is blocked - is refused by one action,
  `Refuse`, whichever of the three it is.
- "Recorded before the build read the tables" compares two clocks in the code and
  one here.

## Runs

| Run | Instance | Shows |
|---|---|---|
| `distribution` | 1 key, 1 handler, 1 timer, 1 admin request of any kind, 1 build, any number of heartbeats, 1 fault; 2.4 million states | `ArtifactsDescribeTheirVersions` |
| `distribution_live` | the same with a snapshot present at the start, under fairness; 0.33 million | `WithdrawnEventuallyRefused`, `PublishedEventuallyWorks` |
| `pruned_denial` | 1 key, 1 handler, 1 timer, 2 admin requests, a snapshot at the start and 1 build; stops at the violation, 26 states deep | the finding below, `DenialsKeptUntilAbsorbed` |
| `access` | 2 users, 1 key, 1 tenant that may be deleted and made again, 3 roles, a key that declares one grant, 2 requests of any kind beside the heartbeat, 1 death; 1.1 million | `NoKeyOutgrowsItsOwner`, `RolesAreServedWhole`, `GatewayComesToAgree` |
| `schedule` | 2 replicas that come and go, 2 jobs, one with a seed below the floor, 1 refused statement; 0.18 million | `TheRowWins`, `TurnsAreKept`, `ReplicasTakeTurns` (refinement of `Turns`), `EnabledJobsRun`, `CadenceTakesEffect` |
| `catalog` | 2 tenants, 2 backends, 3 names, 6 documents, 2 builds, 1 change, 8 principals; 0.10 million | `ToolsLeaveForACause`, `CatalogsKeepTheirOrder` |
| `edge` | 1 principal, 2 calls, 2 snapshots, unbounded replacements of a set granting one of two catalogs or nothing; 3.4 million | `ComposedMatchesKey`, `OneServerPerPrincipal` |
| `edge_live` | the same with 1 call, under fairness | `CatalogsCatchUp` |
| `dispatch` | 2 clients, 1 tool, every combination of plugins and backend, 1 upset; 0.31 million | `ApprovalsBindTheCall`, `AnswersReachWhoAsked`, `OneAskerIsAnswered` |
| `pipeline` | 2 goroutines, 2 plugins, 2 snapshots, 2 codes, threshold 2; 0.86 million | `EveryPluginAccountedFor`, `ResultFollowsOutcomes`, `PayloadWithinScopes`, `RunsWhatIsDeclared`, `BreakersClose` |
| `pool` | 2 goroutines, each in a call or a probe, threshold 2, 2 entries in a row, 1 client that disconnects, any number of outages and lost sessions; 1.15 million | `HalfOpenAwaitsItsProbe`, `OneSessionPerEntry`, `BackendsRecover` |
| `health` | 1 binding, 2 tools, 3 definitions, 5 admissions, one under another name, any number of publishes, deployments and outages; 0.42 million | `OnlySweptTargets`, `BlocksAreLiftedByCatalogs`, `SettlesOnTheTruth` |

One run of each checked module also checks its type invariant, `TypeOK` (`CatalogTypeOK` in
`Catalog`).

*Why the bounds are enough.*

- `distribution`: the hazards of publishing are between a writer that read early and
  one that read late: a handler and a timer are two writers of each file, and either
  can be overtaken anywhere. One key suffices because no statement relates two keys
  except `RevokeUser`'s loop, whose body is the single-key upsert. One fault covers
  each single loss; the theorems cover any number of them. `MaxPrincipalVersion` is 0,
  which bounds only idle heartbeats: past it, a principal heartbeat starts exactly when
  it would change something other than the version (`RepublishNeeded`).
- `access`: what can go wrong is a table changed between two reads of the publication,
  which one handler beside the heartbeat does at every point, or left half changed,
  which one death does. What the key declares is narrower than the administrator's grants
  and wider than anybody else's. The second request finds what the first left, and what a
  tenant deleted and made again makes of it. Two handlers at once are the theorems'.
- `schedule`: two replicas race each claim; a third adds no kind of step. Cadences of one
  and two ticks and one below the floor are the three ways a cadence can compare.
- `catalog`: two builds are a before and an after; the change may fall before, between or
  during them. The documents differ in whatever validation, admission and order read:
  moved servers and plugins, a shared namespace, a curated toolset, and one that each
  rule refuses.
- `edge`: two calls race on the memo and the cache. Set versions are compared for equality
  only, so a generation nothing refers to is reused and heartbeats are unbounded;
  `MaxGen` = 4 leaves a free one whatever two calls, the memo and the held set refer to.
- `dispatch`: the gateway relates two clients through one envelope only; one upset is each
  single thing that goes wrong, in conversations of any length.
- `pipeline`: two hooks that share an enforced plugin race its breaker; the canary behind
  it is what a refusal or a spent budget cuts off. Of two snapshots, going
  there and back, one plugin gets other code and back, the other is dropped and comes
  back, and a hook may carry the list of the one not served.
- `pool`: two goroutines are a dial race, a probe with a late outcome, or a call with a
  health probe; two entries are one in use and one retired that is still being called;
  the count of failures stops at `Threshold`, past which no decision depends on it.
- `health`: conditions of bindings never influence each other except through the set of
  blocked names, which is their union. One publish of the five gives a tool another
  name, before, during or after an outage.

*Fairness and why.* Handlers and jobs run to completion (weak, per worker). The
scheduler goes through all due jobs on every tick, so a job whose timer is free
again and again starts again and again (in `Distribution` strong, per timer, and only
for the principal heartbeat: the liveness properties rely on no other job; in `Access`,
where the heartbeat only starts when there is something to publish, weak, and so for the
rebuild of the snapshot). The sources poll on tickers and a supervisor
starts a gateway that is down (weak, per step). In `Schedule` the ticker ticks and a replica
goes on (weak); `EnabledJobsRun` supposes that some replica stays up. In `EdgeCatalog` calls
run to their end and swaps that have begun are finished (weak). In `Dispatch` a client that
was asked answers, one whose state was refused begins again, a handler runs to its end
(weak). In `Pipeline` an invocation ends by its deadline, a cooldown passes, an activation's
observer runs to its end (weak), and calls from servers of the serving snapshot, which the
heartbeats purge the cache for (`CatalogsCatchUp`), come again
and again, whatever older ones come in between (strong). In `BackendPool` calls run to
their end (the HTTP client has a timeout), a cooldown passes (weak), and each goroutine
comes by with another call again and again, whatever probes it makes in between (strong).
In `Health` the ticker begins sweeps, a probe answers or times out, time passes (weak).
Admin requests, edits, builds begun by hand, faults, swaps, deployments and outages are
never forced. Jobs are assumed to return, see `scheduler.go:108` under hazards.

*Deadlock* is checked in every run but two: `access` and `catalog` stop after their last
request or build, and say `CHECK_DEADLOCK FALSE`.

## Findings

`pruned_denial`: a gateway may drop a denial its snapshot has not absorbed. `ApplyRevocations`
refuses a list pruned against a newer snapshot than the one served, since "Accepting it would
silently drop denials this snapshot has not absorbed" (`dataplane/snapshot/store.go:249-251`,
and ADR 0023: "it refuses the list and keeps its previous one"). It tells by the list's
watermark. But `PruneRevocations` supersedes the entries (`store/revocations.go:186`) before
it records the watermark (`:191`), and `RevocationList` reads the version and the watermark
before the entries, with no transaction around either. In the run a key is revoked a second
time while build 2 prunes: the second request's list reads version 2 and watermark 0, then no
entries. A gateway that serves snapshot 1 takes it up and forgets the key's denial. No
later list brings it back: the next one carries the watermark and is refused until snapshot 2
is served. Until then only the principal set refuses the key, once that of either request is in
(`WithdrawnEventuallyRefused`).

Other places where the code does something else than a comment or what a reader may
expect. The models follow the code; where a property has an exception, this is why.

*Publishing and distribution.*
- The revocation heartbeat does not bump, so what it publishes is refused as not newer
  (`jobs.go:27-32` against `store/revocations.go:113-115`): no property speaks of age.
- A list at version 0 is stamped 1, and the first bump gives 1 as well
  (`store/revocations.go:162-168`): `CarriesRevocations` sets version 1 aside.
- Revoking again what a snapshot had superseded leaves it superseded
  (`db/queries/revocations.sql:4` against `tenancy.go:416-417`): "until superseded".
- A key minted without grants of its own is published with everything its owner holds
  (`store/snapshotstate.go:126-130`), while `ResolveAPIKey` gives it nothing on the control
  plane, as `store/store.go:597-598` says ("A key that declares nothing carries nothing") and
  `store/authz_test.go:243-245` repeats; `cli/inspector.go:156` expects the former.
  `NoKeyOutgrowsItsOwner` holds all the same; `GatewayComesToAgree` sets such keys aside.
- A list is pruned because the snapshot omits the key (`snapshots.go:405-407`), but since
  ADR 0024 principals travel in another file: an older principal set may meet a pruned list.
- Snapshots are versioned in Unix seconds, and `readAt` is the control plane's clock where
  `revoked_at` is Postgres's: skew between the two is not modelled.

*Accounts and roles.*
- `PutRole` accepts `tool:call` without `tool:list` (`store/roles.go:66`), and every gateway
  then refuses every later principal set (`snapshot/principals.go:217`), revocations in them
  included: `GatewayComesToAgree` assumes that such a role does not stay.
- `SeedRoles` restores, on each boot, what an operator took from a built-in role
  (`cmd/mcpdoll-cp/main.go:137-141`). A `SeedPlatformAdmin` that dies after creating its
  tenant leaves a deployment without an administrator, which no later boot repairs.
- Two concurrent `SetGrants` of one user can leave neither's set; `DeleteRole` counts and
  then deletes; `PutGrants` can race the deletion of the tenant it names, and a recreated
  slug inherits what is left. `DeleteGrantsInTenant` matches with LIKE, where `_` is a wildcard.
- `PutRole` never replaces a description, and a role without permissions is unknown to
  `PutGrants`. Deleting a tenant revokes the keys of every user whose grants reach it.
- A sign-in racing a disable leaves a session that works again once the user is enabled.
- A request's authority is decided from grants and a catalog read at different moments.

*Schedules.*
- A rebuild interval below the five-second floor is not refused at start, and the job it
  seeds never runs: `EnabledJobsRun` speaks of cadences that parse.
- The outcome of an older, slow run overwrites a newer one's, and a run longer than its
  cadence overlaps the next on another replica: `TurnsAreKept` is about claims.

*Catalogs.*
- `exclude` in one toolset also removes a tool that another toolset names.
- A scope names a toolset by its name, which is not checked to be unique, and a tool by its
  bare backend name: `ToolScope` may cover more than "exactly one tool" (`authz/scope.go:47`).
- A plugin limited to a toolset runs on every call of a principal whose catalog has a tool of
  it, and the TTL of any policy's rule applies to everybody's catalog.
- A document that still binds a deleted tenant makes every later build fail. One tenant's
  tool without a schema, collision or toolset over budget refuses the build for all.
- The server cache is purged before the swap, not with it (`edge.go:263`), so a call can
  refill it from the old snapshot: `CatalogsCatchUp` says for how long.

*Hooks.*
- A plugin without a host is skipped and lets the call pass (`engine.go:92-94` and
  `wiring/hosts.go:28-30` speak of the failure policy), and a half-open breaker whose probe
  finds no host waits for ever: `BreakersClose` is about plugins that keep their host.
- The observers that load plugins run after the view is stored: in between, hooks find
  what was loaded before. Plugins that were removed stay compiled.
- A call goes through both its hooks with the view its server was built from
  (`edge.go:317`, `dispatch.go:262`), and `WASMHost.Invoke` finds code by plugin id alone
  (`wasm.go:284`). A call that spans a swap runs its result hook with the manifests of the
  old snapshot - order, rollout, failure policy, writes - over the code of the new one:
  `RunsWhatIsDeclared` is about what the serving snapshot declares.
- A canary's sample is a hash of the request's id (`engine.go:550-553`), and the wiring makes
  a new id at each hook, so a call may be in at one and out at the other. The budget "for one
  request" (`engine.go:62-63`) is counted per hook.
- A plugin that names a hook twice runs twice. `IdentityFiltered` at the catalog hook has no
  effect. An invocation still running when its plugin is replaced returns its instance to a
  pool nobody drains any more (`wasm.go:405`).

*Round trips.*
- An envelope carries one asker's state. With a confirming plugin and an asking backend on
  one call a conversation may never end, and a backend's question behind a plugin that
  masks arguments is never redeemable: `OneAskerIsAnswered` has one asker and nobody who
  changes what it asked about.
- A deferral with nothing to ask, and one at the result's hook, pass for an answer.
- The "unbindable" digest (`requeststate.go:232-236`) is never reached.

*Backends and health.*
- A client that disconnects counts against the backend's breaker (`pool.go:387-391`).
- A stored session the backend has forgotten is never redialled: `BackendsRecover` excepts it.
- A dial that ends after its entry was retired is stored with that entry (`pool.go:527`), and
  nothing closes its connection until the whole pool is closed.
- Drift that is kept through an outage or a garbled answer is kept under the name it was
  found by (`drift.go:112`, `prober.go:253-256`): when a publish renames the tool meanwhile,
  the old name stays blocked and the new one is open until the backend answers.
  `BlocksAreLiftedByCatalogs` is about names, `SettlesOnTheTruth` about the end of it.
- What blocks a tool for one tenant blocks its name for all of them: the set of blocked
  names has no tenant. `Replica.Routable` is kept by the prober and read by nobody.

## Proofs

The theorems hold for any values of the constants that satisfy the named assumptions of
the modules, which say that constants have the shape of what they stand for (`Owner` a
function from keys to users, a hook's list made of plugins its snapshot declares, sentinels
different from what they stand beside, bounds natural numbers) and which TLC evaluates on each
run. Bounds are arbitrary too, so what is proved holds of behaviours of any length.

| Module | Theorem | States |
|---|---|---|
| `DistributionProofs` | `TypeCorrect`, `ArtifactsAreTrue` | `[]TypeOK`, `[]ArtifactsDescribeTheirVersions` |
| | `WithdrawalsLast` | a key withdrawn from gateway, file and publications under way stays out until the store would publish it again |
| | `PublicationsLast` | a good key that gateway, files and publications under way let in stays in while the gateway runs |
| `AccessProofs` | `TypeCorrect`, `KeysStayWithinTheirOwners`, `RolesStayWhole` | `[]TypeOK`, `[]NoKeyOutgrowsItsOwner`, `[]RolesAreServedWhole` |
| | `GatewayStaysWithinOwners` | whatever a gateway allows a key, grants its owner has held allow |
| | `PublishedSetsDecideAlike` | a gateway whose set says what the tables say decides as the control plane does, for every permission and scope |
| | `AgreementLasts` | a gateway in agreement with the tables stays so, and decides alike, as long as no table changes |
| | `IntersectionNeverWidens`, `GrantingNeverEscalates` | of the operators: intersecting never widens, and a grant that withholds nothing confers nothing new |
| `EdgeCatalogProofs` | `TypeCorrect`, `CatalogsMatchTheirKeys`, `CallsShareTheirServer` | `[]TypeOK`, `[]ComposedMatchesKey`, `[]OneServerPerPrincipal` |
| | `CatalogsStayCurrent` | a principal of whom nothing stale is left keeps it so while snapshot and grants stay |
| `BackendPoolProofs` | `TypeCorrect`, `ProbesAreUnderWay`, `OneConnectionRemains` | `[]TypeOK`, `[]HalfOpenAwaitsItsProbe`, `[]OneSessionPerEntry` |
| | `RecoveriesLast` | a closed breaker that is owed no failure stays closed while backend, session and clients do |
| `ControlPlaneProofs` | `TypeCorrect`, `OperatorsHaveTheLastWord`, `ClaimsKeepTheTurns` | `[]TypeOK`, `[]TheRowWins`, `TurnsAreKept` |
| | `CadencesLast` | a cadence that is in effect stays so until the row asks for another |
| | `ReplicasActAsOne` | `ReplicasTakeTurns`: `Schedule` implements `Turns` |
| | `CatalogTypeCorrect`, `ToolsAreLostForACause`, `CatalogsStayInOrder` | `[]CatalogTypeOK`, `ToolsLeaveForACause`, `CatalogsKeepTheirOrder` |
| `DispatchProofs` | `TypeCorrect`, `ApprovalsStayBound`, `AnswersStayWithTheAsker` | `[]TypeOK`, `[]ApprovalsBindTheCall`, `[]AnswersReachWhoAsked` |
| | `RetriesAreForTheCall` | a repeated call's envelope fails for its age, its key or a masked question, and nothing else |
| `HealthProofs` | `TypeCorrect`, `NothingOutlivesItsBinding`, `BlocksOutliveOutages` | `[]TypeOK`, `[]OnlySweptTargets`, `BlocksAreLiftedByCatalogs` |
| | `ReportsTellTheTruth`, `TruthLasts` | a sweep that sees a backend as it is concludes rightly about it, and nothing undoes that while it stays so |
| `PipelineProofs` | `TypeCorrect`, `TracesAreComplete`, `DecisionsFollowTraces`, `PatchesStayInScope`, `CodeIsDeclared` | `[]TypeOK`, `[]EveryPluginAccountedFor`, `[]ResultFollowsOutcomes`, `[]PayloadWithinScopes`, `[]RunsWhatIsDeclared` |

### The inductive invariants

*Distribution.* `ArtifactsDescribeTheirVersions` says what holds of an artifact that is
about to be written, on disk or held. Before the write, its register must already have been
on its way to the truth. `Inv` adds `PlansOK` (a plan that starts with a write was reached
through the reads before it), `RegisterOK(w)` (the version in a register never exceeds
the counter in the table, and what has been read so far is true of that version) and
`TrueSet`, `TrueList` for files and gateway. "Never exceeds the counter" is what makes truth
last: a key that retires now is stamped with the present principal version, which no
existing set exceeds (`SetStaysTrue`), a revocation with the present list version
(`ListStaysTrue`). With these lemmas every action writes nothing, reads what is true now, or
copies what was true; failures and restarts only forget. *Withdrawals*: a set
can only bring a key back by listing it, so `Withdrawn(k)` says of every place a set passes
through that it has not, and of a publication that has yet to filter by live keys that the
filter will drop it (`LiveOnlyOnce`: a minted key never comes to life again). *Publications*
are the other way round: `Delivered(k)` says that every set a publication has read far enough
carries the key and no list it has read names it. `PlansOK` is what makes this last: a
publish that fails is dropped whole (`FailureSkipsToAStart`), so nothing is ever written from
registers that were not read for it.

*Access.* `TypeOK` is itself inductive, with a lemma per statement for what the foreign keys
cascade to. `HeldInv` extends `NoKeyOutgrowsItsOwner` to the file and to the sets being read:
a set that is half read remembers grants that may be gone by the time its keys are read,
but never one its owner did not hold. `WholeInv` extends `RolesAreServedWhole` to the table, the drafts
and the file. `GatewayStaysWithinOwners` combines the first with the transitivity of
`ScopeCovers`. `PublishedSetsDecideAlike` needs of the tables only that they are well typed: a
key's intersected grants, resolved through the roles of the set and the tenants of the
snapshot, are what `ResolveAPIKey` resolves. `InAgreement` adds the file and, worker by worker
(`Faithful`), that what a publication has read so far is what the tables still say: then
it does not matter which publication is written last.

*EdgeCatalog.* An entry of the memo comes from registers of a call, which may be older than
the set in effect. `Keyed` adds that versions identify sets: a call whose set has the
version in effect has that set. `Shared` says that a call served since the last purge has
what the cache holds for its principal. `CaughtUp(i)` speaks of the cache, the memo and the
registers of every call about `i`, since a call may store late what it read early.

*BackendPool.* `Probing` adds to the half-open breaker's promise that only `CallTool` asks the
breaker and that it keeps the slot until it reports. `Shared` adds that a session belongs to
the entry it was dialled for, that nobody has dialled for an entry that is not made yet, and
that who is about to store holds what it dialled. `Connected` says that a stored session is
open and that who dials for an entry has not stored there: a session that is closed is always
the loser of a dial race, never the one the entry keeps, which is why a call through a
recovered entry succeeds (`AlwaysShared`, `FinishEnds`).

*Schedule.* `Kept` adds to `TheRowWins` what is true of a row before it exists, and that the
turn of the last claim is what `next_run_at` says, which makes `TurnsAreKept` a fact about the
claim alone: what was read before it decides nothing. *Refinement*: in `Turns` a job is on or
off, has ticks left, and a run starts by taking a turn in one step. Every registration that
finds a row, read, refused claim, failed record and boot is a stutter there; a first
registration and what operators do arm a job; a replica that records or dies ends its run.
`TurnsAreKept` is about who may bring a turn forward, which `Turns` leaves open; `Turns` adds
that nothing else moves `next_run_at` and that a replica has one run at a time. *Cadences*: a
claim writes the cadence its replica read before it, so `InEffect` asks of each claim under
way that it holds none longer than the row's.

*Catalog.* `CatalogKept` adds to the types that the build under way is of a valid document
and that its reports are listings of the bindings it may ask. Everything else is about
operators. `AdmittedProperties`: what `Admitted` makes of a document and its reports is exactly
what its servers offer and the primaries that answered list - which with the guards of
`Publish` gives `ToolsAreLostForACause`. For the order, `Serving` says that a
served document is valid, its tools collide nowhere and its plugins patch in distinct
priorities. `ListedProperties` then has a principal's catalog in strictly rising order of tenant
and `Rank`: what two catalogs share they order alike, whatever else each lists
(`ListingsKeep`), a minimum over more toolsets is no longer (`LeastOfMore`), and no two plugins
that patch at a hook compare equal (`OnePatchPerSlot`). Underneath are lemmas about the
sequences of the community modules: what `FlattenSeq`, `SetToSeq` and the two sorts contain
and how they are ordered. `FlattenSeq` is recursive, and the library's induction theorems
cannot be instantiated here, so `FlattenSeqProperties` takes the least length at which it would
fail, from the set of such lengths (`Least`), and finds a smaller one.

*Dispatch.* All the gateway knows of an earlier round is in the envelope. `Sound(t)` says that
an envelope carries its asker's memory of the call it is bound to and nobody else's, and that
what a backend remembers was masked if a plugin masked it; `Handled(c, r)` that a request
past its admission holds just what a sound envelope for this very call carried;
`Remembers(c)` that who was asked has an envelope, and the call it is about.
`Fresh(c)` says that the envelope of who was asked is for the call it holds, save for the
arguments a plugin masked before the backend asked.

*Health.* `Swept` adds to `OnlySweptTargets` that what a sweep has left are bindings of its
view. `BlocksAreLiftedByCatalogs` then follows action by action: only `Report` changes a
drift, and only a catalog that compares well empties it. `Graceful` says that a backend held
unavailable was not reached within the grace, so no later failure takes it for a passing
one; `Settled(t)` adds to a right conclusion that no older snapshot is being swept and no
older answer is waiting.

*Pipeline.* One invariant per hook: `Accounted` (the trace follows the list, and is as long
once the hook has ended), `Told` (nothing enforced so far refuses and the decision is what was
enforced, or one enforced outcome ended the hook and only skips follow it) and `Written` (a
field's writer is the last whose enforced patch has it). For the code, `HostsMatched` says that
outside a sync what is loaded is compiled as declared, and during one what is ready is, and
`Matched` that a settled hook sees no sync. Neither asks what list the hook carries.

### Only model-checked

- *Liveness*, which is out of the prover's reach (it has no rule for ENABLED):
  `WithdrawnEventuallyRefused`, `PublishedEventuallyWorks`, `GatewayComesToAgree`,
  `EnabledJobsRun`, `CadenceTakesEffect`, `CatalogsCatchUp`, `OneAskerIsAnswered`,
  `BreakersClose`, `BackendsRecover`, `SettlesOnTheTruth`. What eight of them say without
  progress is proved: withdrawals, publications, agreement, cadences in effect, caught-up
  catalogs, recoveries and settled conditions last (the `...Last` theorems and
  `CatalogsStayCurrent`), and an answer is never refused but for its age, its key or a masked
  question. That these states are ever reached is TLC's.
- That a violation of the code's own statement (`DenialsKeptUntilAbsorbed`) is reachable.

## Plan

Written: every part of the inventory that keeps state or decides something, its runs, and
the safety theorems above: every invariant and every action property that a passing run
checks is proved.

Next, in order of weight:

1. Abstract specifications for the components that have none: an approval that is redeemed
   once asked under `Dispatch` (which wants older envelopes than a client's last in the model
   first), a memo that is a function of its key under `EdgeCatalog`, each shown to be
   implemented by the detailed module.
2. Action properties that need no further run: versions a gateway holds never go back, a
   trace is never rewritten, a breaker opens only on failures.
3. Lasting conditions for the two liveness properties that have none: a plugin that was put
   back, a schedule that keeps running.

## Not modelled

Sign-in, sessions' expiry and the console's cookies; the inspector's one-shot calls;
signatures, artifact verification, the canonical form and ids; configuration, logging and
telemetry; the command line and the console; generated code; the WASM runtime and its
instance pooling; credentials towards backends, which `cmd/mcpdoll-dp` does not configure;
`Rollback`, its history and `SetUserStatus`, which only tests call; replica probes and
latency smoothing; clocks behind snapshot versions; listing handlers. `PROJECT.json` says for
each component what is left out of it.
