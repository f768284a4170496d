------------------------------ MODULE MCAccess ------------------------------
EXTENDS Access

\* What a user may be granted, and what a key declares: for a key of the
\* administrator narrower than its owner's grants, for any other key wider.
Owned == {[role |-> "tool_user", scope |-> <<"acme">>],
          [role |-> "helper", scope |-> <<"acme", "crm">>]}
Declared == {[role |-> "platform_admin", scope |-> <<"acme">>]}
MCGrants == Owned \cup Declared \cup {RootGrant}
MCGrantSets == {{}, Owned}
MCDeclaredSets == {Declared}

Tool == {"tool:list", "tool:call"}
MCCatalog ==
    {"platform_admin"} \X (Tool \cup {"tenant:manage", "user:manage", "role:manage", "key:manage"})
        \cup ({"tool_user"} \X Tool)
MCRoleSets == {Tool, {"tool:call"}}
=============================================================================
