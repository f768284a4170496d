\* Two clients in conversations with every combination of plugins and backend, one
\* skipped plugin, one envelope on the wrong call, one expiry or restart.
SPECIFICATION FairSpec
CONSTANTS
    Clients = {c1, c2}
    Tools = {x}
    Plain = plain
    Masked = masked
    None = none
    MaxUpsets = 1
INVARIANTS
    TypeOK
    ApprovalsBindTheCall
    AnswersReachWhoAsked
PROPERTY
    OneAskerIsAnswered
