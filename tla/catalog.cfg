\* Two builds over two tenants and two backends, and a change before, between or
\* during them: the document edited, a tenant deleted, a backend released. When
\* the builds are spent the system stops.
SPECIFICATION CatalogSpec
CONSTANTS
    Tenants = {1, 2}
    Servers = {"s1", "s2"}
    Names = {1, 2, 3}
    Schemaless = {3}
    Listings <- Releases
    Documents <- DocumentsOverTime
    Principals <- Readers
    RoleCatalog <- Reading
    Failed = failed
    MaxBuilds = 2
    MaxChanges = 1
CHECK_DEADLOCK FALSE
INVARIANT
    CatalogTypeOK
PROPERTIES
    ToolsLeaveForACause
    CatalogsKeepTheirOrder
