\* Two hooks at a time on plugins that fail, recover, are unloaded and come back,
\* under endless snapshot swaps.
SPECIFICATION FairSpec
CONSTANTS
    w1 = w1
    w2 = w2
    p1 = p1
    p2 = p2
    args = args
    tool = tool
    old = old
    new = new
    Codes = {old, new}
    Snapshots <- SomeSnapshots
    Workers = {w1, w2}
    Plugins = {p1, p2}
    None = none
    Fields = {args, tool}
    HookOf <- TwoHooks
    Rollout <- OneEnforces
    FailsClosed = {p1}
    Writes <- WriteArguments
    Threshold = 2
INVARIANTS
    TypeOK
    EveryPluginAccountedFor
    ResultFollowsOutcomes
    RunsWhatIsDeclared
    PayloadWithinScopes
PROPERTY
    BreakersClose
