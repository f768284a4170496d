\* Two concurrent calls for one principal whose grants change or disappear, two
\* snapshots, and principal heartbeats without end.
SPECIFICATION Spec
CONSTANTS
    Ids = {k1}
    Grants = {wide, narrow}
    Absent = absent
    None = none
    Calls = {c1, c2}
    MaxGen = 4
    MaxSnapshot = 2
SYMMETRY CallSymmetry
INVARIANTS
    TypeOK
    ComposedMatchesKey
    OneServerPerPrincipal
