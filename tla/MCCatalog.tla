----------------------------- MODULE MCCatalog -----------------------------
EXTENDS Catalog

(* Two backends of two namespaces; the second also of the first, once moved.  *)
Srv(id, ns, bindings, exclude) ==
    [id |-> id, namespace |-> ns, bindings |-> bindings, exclude |-> exclude]

Ts(name, priority, namespaces, tools, exclude, budget) ==
    [name |-> name, priority |-> priority, namespaces |-> namespaces, tools |-> tools,
     exclude |-> exclude, budget |-> budget, ttl |-> priority]

Patching(id, priority, hooks, toolsets) ==
    [id |-> id, priority |-> priority, hooks |-> hooks, toolsets |-> toolsets, writes |-> TRUE,
     rollout |-> "enforce", percent |-> 0, runtime |-> "wasm",
     given |-> {"artifact_ref", "artifact_digest"}]

\* A remote observer names a hook twice.
Observing(id) ==
    [Patching(id, 1, <<"call", "call">>, {}) EXCEPT !.writes = FALSE, !.rollout = "canary",
        !.percent = 5, !.runtime = "grpc", !.given = {"endpoint"}]

Rule(maxTtl) == [namespaces |-> {"crm"}, maxTtl |-> maxTtl]

PrefixOf == [crm |-> 1, hr |-> 2]

Plain == [namespaces |-> PrefixOf,
          servers |-> <<Srv("s1", "crm", <<1, 2>>, {}), Srv("s2", "hr", <<1>>, {})>>,
          toolsets |-> [all |-> Ts("all", 1, {"crm", "hr"}, {}, {}, 3)],
          ttl |-> 3, policies |-> [none \in {} |-> <<>>],
          plugins |-> <<Patching("redact", 1, <<"call", "result">>, {}),
                        Patching("entitle", 2, <<"call">>, {"all"})>>]

\* The servers change places, and the plugins; they share a namespace, or a tool
\* is curated.
Shared == [Plain EXCEPT !.policies = [short |-> <<Rule(2), Rule(0)>>],
                        !.plugins = <<Observing("meter"),
                                      Patching("entitle", 2, <<"call", "result">>, {}),
                                      Patching("redact", 1, <<"call", "result">>, {})>>,
                        !.servers = <<Srv("s2", "crm", <<1>>, {}), Srv("s1", "crm", <<2, 1>>, {})>>]
Curated == [Plain EXCEPT !.servers = <<Srv("s2", "hr", <<1>>, {3}), Srv("s1", "crm", <<2, 1>>, {})>>,
                         !.toolsets = [all |-> Ts("all", 1, {"crm", "hr"}, {}, {<<2, 2>>}, 0),
                                       few |-> Ts("few", 0, {}, {<<1, 2>>}, {}, 1)]]
\* Refused: one prefix for both, a namespace claimed twice, two patches with no order.
Clashing == [Plain EXCEPT !.plugins = <<Patching("entitle", 1, <<"call">>, {}),
                                        Patching("redact", 1, <<"call">>, {})>>]
OnePrefix == [Plain EXCEPT !.namespaces = [crm |-> 1, hr |-> 1]]
TwoClaims == [Plain EXCEPT !.toolsets = [all |-> Ts("all", 1, {"crm"}, {}, {}, 0),
                                         few |-> Ts("few", 0, {"crm"}, {}, {}, 0)]]

DocumentsOverTime == {Plain, Shared, Curated, OnePrefix, TwoClaims, Clashing}

\* The last release has a tool no snapshot can carry.
Releases == {{1}, {1, 2}, {2, 3}}

Reading == {<<"tool_user", "tool:list">>, <<"tool_user", "tool:call">>, <<"viewer", "tool:list">>}

G(role, scope) == [role |-> role, scope |-> scope]

Readers == {[tenant |-> 1, spans |-> spans, grants |-> grants] :
              spans \in BOOLEAN,
              grants \in {{G("tool_user", <<1, "all">>)},
                          {G("tool_user", <<1, "all">>), G("tool_user", <<2>>)},
                          {G("viewer", <<1>>)}, {G("viewer", <<1>>), G("tool_user", <<>>)}}}
=============================================================================
