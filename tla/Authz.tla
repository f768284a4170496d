------------------------------- MODULE Authz -------------------------------
(***************************************************************************)
(* The decisions of internal/platform/authz, which the control plane makes *)
(* about its callers and a gateway about its keys. A scope is the sequence *)
(* of the names it goes through: `*` is <<>>, `t/acme/ts/crm` is           *)
(* <<"acme", "crm">>. A grant is a role at a scope; a catalog is the set of*)
(* <<role, permission>> rows.                                              *)
(***************************************************************************)
EXTENDS Naturals, Sequences

Global == <<>>

(* A prefix test on whole names. *)
ScopeCovers(granted, requested) ==
    /\ Len(granted) <= Len(requested)
    /\ \A i \in 1..Len(granted) : granted[i] = requested[i]

(* Global, or somewhere in the tenant. *)
AnyReaches(held, tenant) ==
    \E g \in held : ScopeCovers(g.scope, <<tenant>>) \/ ScopeCovers(<<tenant>>, g.scope)

(* BuiltinEngine.Prepare and the decider it returns: a role the catalog does *)
(* not define authorizes nothing.                                            *)
Allows(held, catalog, permission, scope) ==
    \E g \in held :
        <<g.role, permission>> \in catalog /\ ScopeCovers(g.scope, scope)

(* Caller.CanAnywhere *)
AllowsAnywhere(held, catalog, permission) ==
    \/ Allows(held, catalog, permission, Global)
    \/ \E g \in held : Allows(held, catalog, permission, g.scope)

(* A key's grant survives where its owner holds the role at a covering scope. *)
Intersect(declared, held) ==
    {d \in declared : \E h \in held : h.role = d.role /\ ScopeCovers(h.scope, d.scope)}

(* What granting `role` at `scope` would confer beyond what the issuer holds, *)
(* whose own grants mean what another catalog says.                           *)
WithheldBy(held, means, catalog, role, scope) ==
    {row \in catalog : row[1] = role /\ ~Allows(held, means, row[2], scope)}

(* Calling a tool that is never listed would be a hidden capability. *)
ValidateCatalog(catalog) ==
    \A row \in catalog :
        row[2] = "tool:call" => <<row[1], "tool:list">> \in catalog
=============================================================================
