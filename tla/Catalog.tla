------------------------------ MODULE Catalog ------------------------------
(***************************************************************************)
(* How a registry document and what the backends publish become the        *)
(* catalog a principal is served: the snapshotter reads the document and   *)
(* the tenants, asks the primary of every binding, admits what a toolset   *)
(* contributes and publishes it if every gateway could serve it; a gateway *)
(* composes each principal's catalog from the newest snapshot.             *)
(*                                                                         *)
(* Tenants, prefixes and tool names are numbers, in the order of the       *)
(* strings they stand for. How a snapshot reaches a gateway is             *)
(* Distribution's, and so is the order of builds that overlap.             *)
(***************************************************************************)
EXTENDS Authz, SequencesExt

CONSTANTS
    Tenants,        \* tenant slugs
    Servers,        \* server ids
    Names,          \* the names backends give their tools
    Schemaless,     \* the tools that declare no input schema
    Listings,       \* what a release of a backend may list
    Documents,      \* what an operator may save as the registry document
    Principals,     \* tenant, spans_tenants and grants
    RoleCatalog,    \* what the roles in the grants permit
    Failed,         \* the report of a primary that could not be discovered
    MaxBuilds,      \* bound: builds started
    MaxChanges      \* bound: changes of the world around them

Qualified == Nat \X Names

ServerSpec == [id : Servers, namespace : STRING, bindings : Seq(Tenants), exclude : SUBSET Names]
ToolsetSpec == [name : STRING, priority : Int, namespaces : SUBSET STRING, tools : SUBSET Qualified,
                exclude : SUBSET Qualified, budget : Nat, ttl : Nat]
PolicyRuleSpec == [namespaces : SUBSET STRING, maxTtl : Nat]
PluginSpec == [id : STRING, priority : Int, hooks : Seq(STRING), toolsets : SUBSET STRING,
               writes : BOOLEAN, rollout : {"shadow", "canary", "enforce"}, percent : Int,
               runtime : {"wasm", "grpc"}, given : SUBSET {"endpoint", "artifact_ref", "artifact_digest"}]

(* What decoding leaves of a document. Its namespaces are their prefixes, its *)
(* toolsets and policies functions of their ids.                              *)
Parsed(d) ==
    /\ d.ttl \in Nat
    /\ \A ns \in DOMAIN d.namespaces : d.namespaces[ns] \in Nat
    /\ d.servers \in Seq(ServerSpec) /\ d.plugins \in Seq(PluginSpec)
    /\ IsFiniteSet(DOMAIN d.toolsets) /\ DOMAIN d.toolsets \subseteq STRING
    /\ \A ts \in DOMAIN d.toolsets : d.toolsets[ts] \in ToolsetSpec
    /\ \A policy \in DOMAIN d.policies : d.policies[policy] \in Seq(PolicyRuleSpec)

ASSUME TenantsAssumption == Tenants \subseteq Nat /\ IsFiniteSet(Tenants)
ASSUME NamesAssumption == Names \subseteq Nat /\ Schemaless \subseteq Names
ASSUME DocumentsAssumption == \A d \in Documents : Parsed(d)
ASSUME ListingsAssumption == \A listed \in Listings : listed \subseteq Names /\ IsFiniteSet(listed)
ASSUME BoundsAssumption == MaxBuilds \in Nat /\ MaxChanges \in Nat

VARIABLES
    document,   \* the file at RegistryPath
    tenants,    \* the tenants SnapshotState would read
    published,  \* what each primary lists, by server and tenant
    build,      \* the build in progress
    view,       \* the snapshot the gateway serves, with what it was built from
    builds, changes

catalogVars == <<document, tenants, published, build, view, builds, changes>>

(* Where a document's servers are bound, and so what is ever asked. *)
BindingsOf(d) ==
    UNION {{<<d.servers[i].id, t>> : t \in ToSet(d.servers[i].bindings)} : i \in DOMAIN d.servers}

Binding == UNION {BindingsOf(d) : d \in Documents}

Tool == [tenant : Tenants, server : Servers, prefix : Nat, name : Names,
         toolset : STRING, priority : Int]

NoBuild == [version |-> 0, allow |-> FALSE, document |-> <<>>, tenants |-> {}, reports |-> <<>>]
NoView == [version |-> 0, allow |-> FALSE, document |-> CHOOSE d \in Documents : TRUE,
           tenants |-> {}, reports |-> <<>>, tools |-> <<>>]

-----------------------------------------------------------------------------
(* Sorting: the members of a finite set, in the order that the pairs of a      *)
(* relation give them.                                                        *)
InOrder(S, before) ==
    [k \in 1..Cardinality(S) |->
        CHOOSE x \in S : Cardinality({y \in S : <<y, x>> \in before}) = k - 1]

Ascending(S) == InOrder(S, {r \in S \X S : r[1] < r[2]})

-----------------------------------------------------------------------------
(* registry.Spec.Validate. A document's namespaces and toolsets are functions *)
(* of their ids: it refuses an id that appears twice.                         *)

ValidNamespaces(d) == IsInjective(d.namespaces)

ValidServers(d) ==
    \A i \in DOMAIN d.servers :
        LET srv == d.servers[i] IN
        /\ srv.namespace \in DOMAIN d.namespaces
        /\ srv.bindings # <<>> /\ IsInjective(srv.bindings)
        /\ \A j \in DOMAIN d.servers : d.servers[j].id = srv.id => i = j

ValidToolsets(d) ==
    \A ts \in DOMAIN d.toolsets :
        /\ d.toolsets[ts].namespaces \subseteq DOMAIN d.namespaces
        /\ d.toolsets[ts].namespaces # {} \/ d.toolsets[ts].tools # {}
        /\ d.toolsets[ts].ttl <= d.ttl

(* A policy is the sequence of its rules; only a rule's TTL reaches a catalog. *)
ValidPolicies(d) ==
    \A policy \in DOMAIN d.policies :
        /\ d.policies[policy] # <<>>
        /\ \A rule \in ToSet(d.policies[policy]) :
             rule.namespaces \subseteq DOMAIN d.namespaces /\ rule.maxTtl <= d.ttl

ValidPlugins(d) ==
    \A i \in DOMAIN d.plugins :
        LET g == d.plugins[i] IN
        /\ \A j \in DOMAIN d.plugins : d.plugins[j].id = g.id => i = j
        /\ g.hooks # <<>>
        /\ g.percent \in IF g.rollout = "canary" THEN 1..100 ELSE {0}
        /\ g.runtime = "grpc" => "endpoint" \in g.given
        /\ g.runtime = "wasm" => "artifact_ref" \in g.given
        /\ "artifact_ref" \in g.given => "artifact_digest" \in g.given
        /\ g.toolsets \subseteq DOMAIN d.toolsets

Validate(d) ==
    /\ d.ttl > 0
    /\ ValidNamespaces(d) /\ ValidServers(d) /\ ValidToolsets(d)
    /\ ValidPolicies(d) /\ ValidPlugins(d)

-----------------------------------------------------------------------------
(* resolveToolsets: two toolsets that claim one namespace, or name one tool,  *)
(* would give it two authorization scopes.                                    *)
ToolsetsResolve(d) ==
    \A ts, other \in DOMAIN d.toolsets :
        ts # other =>
            /\ d.toolsets[ts].namespaces \cap d.toolsets[other].namespaces = {}
            /\ d.toolsets[ts].tools \cap d.toolsets[other].tools = {}

(* toolsetIndex.For: no toolset contributes what any toolset excludes, and    *)
(* naming a tool wins over claiming its namespace.                            *)
ToolsetsFor(d, ns, qualified) ==
    LET naming == {ts \in DOMAIN d.toolsets : qualified \in d.toolsets[ts].tools}
        claiming == {ts \in DOMAIN d.toolsets : ns \in d.toolsets[ts].namespaces}
    IN  IF \E ts \in DOMAIN d.toolsets : qualified \in d.toolsets[ts].exclude THEN {}
        ELSE IF naming # {} THEN naming ELSE claiming

(* What a tool is admitted as: nothing when no toolset would contribute it.   *)
Entries(d, srv, tenant, n) ==
    LET prefix == d.namespaces[srv.namespace]
    IN  {[tenant |-> tenant, server |-> srv.id, prefix |-> prefix, name |-> n,
          toolset |-> ts, priority |-> d.toolsets[ts].priority] :
            ts \in ToolsetsFor(d, srv.namespace, <<prefix, n>>)}

(* One binding's tools, by name, without those the server's overrides exclude. *)
AdmitBinding(d, srv, tenant, listed) ==
    LET names == Ascending(listed \ srv.exclude)
    IN  FlattenSeq([k \in DOMAIN names |-> SetToSeq(Entries(d, srv, tenant, names[k]))])

Answered(reports, srv, tenant) == reports[<<srv, tenant>>] # Failed

Admitted_WholeServer(d, reports) ==
    FlattenSeq([i \in DOMAIN d.servers |->
        LET srv == d.servers[i] IN
        FlattenSeq([j \in DOMAIN srv.bindings |->
            IF \A t \in ToSet(srv.bindings) : Answered(reports, srv.id, t)
            THEN AdmitBinding(d, srv, srv.bindings[j], reports[<<srv.id, srv.bindings[j]>>])
            ELSE <<>>])])

(* Only the tenant whose primary did not answer loses the tools. *)
Admitted(d, reports) ==
    FlattenSeq([i \in DOMAIN d.servers |->
        LET srv == d.servers[i] IN
        FlattenSeq([j \in DOMAIN srv.bindings |->
            IF Answered(reports, srv.id, srv.bindings[j])
            THEN AdmitBinding(d, srv, srv.bindings[j], reports[<<srv.id, srv.bindings[j]>>])
            ELSE <<>>])])

(* A name denotes one tool in a tenant. *)
NoCollision(tools) ==
    \A i, j \in DOMAIN tools :
        /\ tools[i].tenant = tools[j].tenant
        /\ tools[i].prefix = tools[j].prefix /\ tools[i].name = tools[j].name
        => i = j

(* A toolset's tools cost a token each, in each tenant. *)
WithinBudgets(d, tools) ==
    \A t \in Tenants, ts \in DOMAIN d.toolsets :
        \/ d.toolsets[ts].budget = 0
        \/ Len(SelectSeq(tools, LAMBDA e : e.tenant = t /\ e.toolset = ts))
             <= d.toolsets[ts].budget

(* checkMutatingPluginConflicts: two plugins that both patch, at one hook with  *)
(* one priority, would do so in no particular order. One that names a hook      *)
(* twice is in its own way.                                                     *)
PatchOrderSpecified(d) ==
    LET patching == {i \in DOMAIN d.plugins : d.plugins[i].writes}
        slots == UNION {{i} \X DOMAIN d.plugins[i].hooks : i \in patching}
        at(slot) == <<d.plugins[slot[1]].hooks[slot[2]], d.plugins[slot[1]].priority>>
    IN  \A slot, other \in slots : at(slot) = at(other) => slot = other

(* A schema that is nil, empty or `null` is none, and no tool goes without.   *)
EverySchema(tools) == \A i \in DOMAIN tools : tools[i].name \notin Schemaless

(* snapshot.Build, which the builder runs before the snapshot is signed. *)
Servable(d, tools) ==
    /\ PatchOrderSpecified(d)
    /\ NoCollision(tools)
    /\ WithinBudgets(d, tools)
    /\ EverySchema(tools)

-----------------------------------------------------------------------------
(* The control plane *)

CatalogInit ==
    /\ document \in {d \in Documents : Validate(d)}
    /\ tenants = Tenants
    /\ \E listed \in Listings : published = [b \in Binding |-> listed]
    /\ build = NoBuild
    /\ view = NoView
    /\ builds = 0 /\ changes = 0

Idle == build = NoBuild

NewBuild(number, allow) ==
    [version |-> number, allow |-> allow, document |-> document, tenants |-> tenants,
     reports |-> <<>>]

(* buildSnapshot: the document, the tenants, and a version of its own. *)
StartBuild(allow) ==
    /\ Idle
    /\ builds < MaxBuilds
    /\ Validate(document)
    /\ builds' = builds + 1
    /\ build' = NewBuild(builds', allow)
    /\ UNCHANGED <<document, tenants, published, view, changes>>

Asked == DOMAIN build.reports

(* A primary lists its tools, or cannot be discovered in time. *)
Reports(binding) == {published[binding], Failed}

(* Every primary is asked by a goroutine of its own. *)
Discover(binding) ==
    /\ ~Idle
    /\ binding \in BindingsOf(build.document) \ Asked
    /\ \E report \in Reports(binding) :
         build' = [build EXCEPT !.reports =
                     [b \in Asked \cup {binding} |-> IF b = binding THEN report ELSE build.reports[b]]]
    /\ UNCHANGED <<document, tenants, published, view, builds, changes>>

AllDiscovered == ~Idle /\ Asked = BindingsOf(build.document)

Acceptable_AnyTenant ==
    /\ build.allow \/ \A binding \in Asked : build.reports[binding] # Failed
    /\ ToolsetsResolve(build.document)
    /\ Servable(build.document, Admitted(build.document, build.reports))

(* A primary that did not answer fails the build, unless asked otherwise.     *)
Acceptable ==
    LET d == build.document IN
    /\ build.allow \/ \A binding \in Asked : build.reports[binding] # Failed
    /\ ToolsetsResolve(d)
    /\ \A binding \in Asked : binding[2] \in build.tenants
    /\ Servable(d, Admitted(d, build.reports))

(* A gateway serves it. *)
Publish ==
    /\ AllDiscovered /\ Acceptable
    /\ view' = [version |-> build.version, allow |-> build.allow, document |-> build.document,
                tenants |-> build.tenants, reports |-> build.reports,
                tools |-> Admitted(build.document, build.reports)]
    /\ build' = NoBuild
    /\ UNCHANGED <<document, tenants, published, builds, changes>>

Refuse ==
    /\ AllDiscovered /\ ~Acceptable
    /\ build' = NoBuild
    /\ UNCHANGED <<document, tenants, published, view, builds, changes>>

-----------------------------------------------------------------------------
(* What changes while a build runs. What comes after the last is built into   *)
(* nothing.                                                                   *)

Changes ==
    /\ changes < MaxChanges
    /\ builds < MaxBuilds \/ ~Idle
    /\ changes' = changes + 1
    /\ UNCHANGED <<build, view, builds>>

EditDocument ==
    /\ Changes
    /\ document' \in Documents \ {document}
    /\ UNCHANGED <<tenants, published>>

ChangeTenants ==
    /\ Changes
    /\ \E t \in Tenants : tenants' = IF t \in tenants THEN tenants \ {t} ELSE tenants \cup {t}
    /\ UNCHANGED <<document, published>>

Release(binding) ==
    /\ Changes
    /\ \E listed \in Listings \ {published[binding]} :
         published' = [published EXCEPT ![binding] = listed]
    /\ UNCHANGED <<document, tenants>>

CatalogNext ==
    \/ \E allow \in BOOLEAN : StartBuild(allow)
    \/ \E binding \in Binding : Discover(binding)
    \/ Publish
    \/ Refuse
    \/ EditDocument
    \/ ChangeTenants
    \/ \E binding \in Binding : Release(binding)

CatalogSpec == CatalogInit /\ [][CatalogNext]_catalogVars

-----------------------------------------------------------------------------
(* The gateway: View.composePrincipal *)

(* What a catalog is ordered by. *)
Rank(e) == <<e.priority, e.prefix, e.name>>

Precedes(r, s) ==
    \E k \in DOMAIN r : r[k] < s[k] /\ \A m \in 1..(k - 1) : r[m] = s[m]

ToolsForTenant_AsAdmitted(tools, t) == SelectSeq(tools, LAMBDA e : e.tenant = t)

(* A stable sort of one tenant's tools. *)
ToolsForTenant(tools, t) ==
    LET own == {i \in DOMAIN tools : tools[i].tenant = t}
        first(i, j) == Precedes(Rank(tools[i]), Rank(tools[j]))
        before(i, j) == first(i, j) \/ (~first(j, i) /\ i < j)
        order == InOrder(own, {r \in own \X own : before(r[1], r[2])})
    IN  [k \in DOMAIN order |-> tools[order[k]]]

(* The principal's tenant, or every tenant its grants reach, by slug. One whose *)
(* tenant the snapshot lacks is refused by the code, and lists nothing here.    *)
TenantsFor(v, p) ==
    LET reached == IF ~p.spans THEN {p.tenant}
                   ELSE {t \in Tenants : \E g \in p.grants : g.scope = Global \/ g.scope[1] = t}
    IN  Ascending(reached \cap v.tenants)

Scope(v, e) == <<e.tenant, v.document.toolsets[e.toolset].name, e.name>>

(* Every name a spanning credential sees says the tenant, needed or not. *)
DisplayName(p, e) ==
    IF p.spans THEN <<e.tenant, e.prefix, e.name>> ELSE <<e.prefix, e.name>>

Listed(v, p) ==
    LET slugs == TenantsFor(v, p)
        tools == FlattenSeq([k \in DOMAIN slugs |-> ToolsForTenant(v.tools, slugs[k])])
        may(permission, e) == Allows(p.grants, RoleCatalog, permission, Scope(v, e))
        shown == Ascending({i \in DOMAIN tools : may("tool:list", tools[i])})
        entry(e) == [name |-> DisplayName(p, e), tool |-> e, scope |-> Scope(v, e),
                     callable |-> may("tool:call", e)]
    IN  [k \in DOMAIN shown |-> entry(tools[shown[k]])]

Toolsets(listed) == {listed[i].tool.toolset : i \in DOMAIN listed}

(* The tightest of the deployment's TTL, its toolsets' and every policy's. *)
TTL(d, contributing) ==
    LET rules == UNION {ToSet(d.policies[policy]) : policy \in DOMAIN d.policies}
    IN  Min({d.ttl} \cup (({d.toolsets[ts].ttl : ts \in contributing}
                            \cup {rule.maxTtl : rule \in rules}) \ {0}))

PluginAppliesTo(g, contributing) == g.toolsets = {} \/ g.toolsets \cap contributing # {}

(* pluginManifest: what a catalog takes of the plugin in the snapshot. *)
Manifest(g) == [id |-> g.id, priority |-> g.priority, hooks |-> g.hooks,
                toolsets |-> g.toolsets, writes |-> g.writes]

(* A stable sort of the plugins that run at a hook, each as often as it names it. *)
PluginsFor(d, contributing, hook) ==
    LET naming(g) == IF PluginAppliesTo(g, contributing)
                     THEN {n \in DOMAIN g.hooks : g.hooks[n] = hook} ELSE {}
        all == FlattenSeq([i \in DOMAIN d.plugins |->
                 [n \in DOMAIN Ascending(naming(d.plugins[i])) |-> Manifest(d.plugins[i])]])
        before(i, j) == \/ all[i].priority < all[j].priority
                        \/ all[i].priority = all[j].priority /\ i < j
        order == InOrder(DOMAIN all, {r \in (DOMAIN all) \X (DOMAIN all) : before(r[1], r[2])})
    IN  [k \in DOMAIN order |-> all[order[k]]]

Hooks == UNION {ToSet(g.hooks) : g \in UNION {ToSet(d.plugins) : d \in Documents}}

(* A PrincipalView. *)
Compose(v, p) ==
    LET listed == Listed(v, p)
        contributing == Toolsets(listed)
    IN  [tools |-> listed, ttl |-> TTL(v.document, contributing),
         plugins |-> {<<hook, PluginsFor(v.document, contributing, hook)>> : hook \in Hooks}]

-----------------------------------------------------------------------------
(* Properties *)

(* The types, and that what is served was asked of nobody but the tenants and *)
(* the bindings the build read (view.go:199-205, snapshotter.go:198-207).     *)
CatalogTypeOK ==
    /\ document \in Documents
    /\ tenants \subseteq Tenants
    /\ published \in [Binding -> Listings]
    /\ view.tools \in Seq(Tool)
    /\ view.version \in 0..MaxBuilds /\ builds \in 0..MaxBuilds /\ changes \in 0..MaxChanges
    /\ Idle \/ /\ build.version \in 1..builds
               /\ Validate(build.document)
               /\ Asked \subseteq BindingsOf(build.document)
    /\ \A i \in DOMAIN view.tools :
         LET e == view.tools[i] IN
         /\ e.tenant \in view.tenants
         /\ <<e.server, e.tenant>> \in BindingsOf(view.document)
         /\ e.name \in view.reports[<<e.server, e.tenant>>]

(* "Silently shipping a catalog with a backend's tools missing is exactly the *)
(* prompt-cache-invalidating change the grace window exists to prevent", and  *)
(* "only *this tenant* loses the tools" (snapshotter.go:107-110, 237-239): a  *)
(* tool is gone from a newer catalog only when its tenant or its place in the *)
(* document is, when a primary that would serve it to this tenant answered    *)
(* without it, or when the build was allowed to do without that primary.      *)
Offering(d, e) ==
    {i \in DOMAIN d.servers :
        LET srv == d.servers[i] IN
        /\ e.tenant \in ToSet(srv.bindings)
        /\ d.namespaces[srv.namespace] = e.prefix
        /\ e.name \notin srv.exclude
        /\ ToolsetsFor(d, srv.namespace, <<e.prefix, e.name>>) # {}}

Carries(v, e) ==
    \E i \in DOMAIN v.tools : /\ v.tools[i].tenant = e.tenant
                              /\ v.tools[i].prefix = e.prefix /\ v.tools[i].name = e.name

ToolsLeaveForACause ==
    [][\A k \in DOMAIN view.tools :
         LET e == view.tools[k] IN
         \/ Carries(view', e)
         \/ e.tenant \notin view'.tenants
         \/ \A i \in Offering(view'.document, e) :
              LET report == view'.reports[<<view'.document.servers[i].id, e.tenant>>]
              IN  IF report = Failed THEN view'.allow ELSE e.name \notin report]_catalogVars

(* ADR 0010 and 0027: whatever is published, removed or granted in addition,  *)
(* the tools a principal keeps keep their names and their order, unless an    *)
(* operator moved one of them, no call in a scope it had is taken from it, and *)
(* a grant lets nobody cache a catalog for longer; plugins patch in one order.*)
Keeps(before, after) ==
    LET now(i) == {k \in DOMAIN after : /\ after[k].tool.tenant = before[i].tool.tenant
                                        /\ Rank(after[k].tool) = Rank(before[i].tool)}
        unmoved == {i \in DOMAIN before : now(i) # {}}
    IN  /\ \A i, j \in unmoved : i < j => \A k \in now(i), m \in now(j) : k < m
        /\ \A i \in unmoved : \A k \in now(i) :
             /\ after[k].name = before[i].name
             /\ before[i].callable /\ after[k].scope = before[i].scope => after[k].callable

(* Whoever calls, and however a document lists them, the plugins that patch at *)
(* a hook do so in one order, until an operator moves one of them.             *)
PatchInOrder(before, after) ==
    LET at(g) == {k \in DOMAIN after : after[k].id = g.id /\ after[k].priority = g.priority}
    IN  \A i, j \in DOMAIN before :
           i < j /\ before[i].writes /\ before[j].writes
             => \A k \in at(before[i]), m \in at(before[j]) :
                  after[k].writes /\ after[m].writes => k < m

GrantedMore(p, q) == p.spans = q.spans /\ p.tenant = q.tenant /\ p.grants \subseteq q.grants

CatalogsKeepTheirOrder ==
    [][view # NoView =>
         \A was \in {[p \in Principals |-> Compose(view, p)]},
            now \in {[p \in Principals |-> Compose(view', p)]} :
             \A p, q \in Principals :
                 GrantedMore(p, q) =>
                     /\ Keeps(was[p].tools, now[q].tools)
                     /\ (/\ view.document = view'.document
                         /\ Toolsets(was[p].tools) \subseteq Toolsets(now[q].tools))
                          => now[q].ttl <= was[p].ttl
                     /\ \A x \in was[p].plugins, y \in now[q].plugins :
                          x[1] = y[1] => PatchInOrder(x[2], y[2])]_view
=============================================================================
