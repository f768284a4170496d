\* Two calls or probes at a time on a target that is moved or dropped once, with
\* outages without end, one disconnecting client and sessions lost at any time.
SPECIFICATION FairSpec
CONSTANTS
    Workers = {w1, w2}
    None = none
    Threshold = 2
    MaxEntries = 2
    MaxCancels = 1
INVARIANTS
    TypeOK
    HalfOpenAwaitsItsProbe
    OneSessionPerEntry
PROPERTY
    BackendsRecover
