\* One key, one request handler, one scheduler: every interleaving of one admin
\* request, one snapshot build, the heartbeats, the gateway and one failure.
SPECIFICATION Spec
CONSTANTS
    u1 = u1
    Keys = {k1}
    Users = {u1}
    Owner <- OneOwner
    Handlers = {h1}
    Timers = {t1}
    FirstSnapshot = 0
    MaxAdminOps = 1
    MaxSnapshots = 1
    MaxPrincipalVersion = 0
    MaxFaults = 1
INVARIANTS
    TypeOK
    ArtifactsDescribeTheirVersions
