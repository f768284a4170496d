\* One binding and two tools: every mix of publishes, one of which renames a tool,
\* deployments and outages around the sweeps.
SPECIFICATION FairSpec
CONSTANTS
    acme = acme
    lookup = lookup
    Down = down
    Garbled = garbled
    None = none
    Targets = {acme}
    search = search
    Tools = {lookup, search}
    renamed = renamed
    Names <- AllNames
    Definitions <- AllDefinitions
    Snapshots <- SomeSnapshots
    Catalogs <- AllCatalogs
INVARIANTS
    TypeOK
    OnlySweptTargets
PROPERTIES
    BlocksAreLiftedByCatalogs
    SettlesOnTheTruth
