\* One key and one tenant, two requests after the other beside the heartbeat,
\* one of them dying anywhere. After them the system stops.
SPECIFICATION FairSpec
CONSTANTS
    u1 = u1
    root = root
    Users = {root, u1}
    Root = root
    Keys = {k1}
    Slugs = {"acme"}
    PlatformSlug = "acme"
    Grants <- MCGrants
    GrantSets <- MCGrantSets
    DeclaredSets <- MCDeclaredSets
    DefaultCatalog <- MCCatalog
    CustomRole = "helper"
    EditedRoles = {"helper", "platform_admin"}
    RoleSets <- MCRoleSets
    Handlers = {h1}
    Timers = {t1}
    MaxRequests = 2
    MaxFaults = 1
CHECK_DEADLOCK FALSE
INVARIANTS
    TypeOK
    NoKeyOutgrowsItsOwner
    RolesAreServedWhole
PROPERTIES
    GatewayComesToAgree
