\* One key revoked twice, and a build that absorbs the revocation while the second
\* request publishes.
SPECIFICATION Spec
CONSTANTS
    u1 = u1
    Keys = {k1}
    Users = {u1}
    Owner <- OneOwner
    Handlers = {h1}
    Timers = {t1}
    FirstSnapshot = 1
    MaxAdminOps = 2
    MaxSnapshots = 2
    MaxPrincipalVersion = 0
    MaxFaults = 0
INVARIANT
    DenialsKeptUntilAbsorbed
