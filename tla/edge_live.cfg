\* One call at a time for one principal whose grants change or disappear, two
\* snapshots, and principal heartbeats without end.
SPECIFICATION FairSpec
CONSTANTS
    Ids = {k1}
    Grants = {wide, narrow}
    Absent = absent
    None = none
    Calls = {c1}
    MaxGen = 4
    MaxSnapshot = 2
PROPERTY
    CatalogsCatchUp
