CONSTANTS
    w1 = w1
    w2 = w2
    a1 = a1
    NoWorker = NoWorker
    NoAgent = NoAgent
    NoTx = NoTx
    Agents = {a1}
    SessionAgent <- AllForA1
    Workers = {w1, w2}
    Sessions = {1, 2, 3}
    Jobs = {1, 2}
    Tasks = {1, 2}
    Pulls = {p1}
    Requests = {r1}
    Workflow <- InboxAndOthers
    LoopN = 1
    MaxReclaims = 0
    MaxIterations = 1
    LeaseEnabled = FALSE
SPECIFICATION Spec
SYMMETRY Interchangeable
INVARIANTS
    PromotedOnce
    ListenersRegistered
PROPERTIES
    ReplacesWhatItJudged
