CONSTANTS
    w1 = w1
    w2 = w2
    a1 = a1
    NoWorker = NoWorker
    NoAgent = NoAgent
    NoTx = NoTx
    NoJob = NoJob
    Agents = {a1}
    SessionAgent <- AllForA1
    Workers = {w1, w2}
    Reliable = {}
    InboxAgent <- AllListen
    Lossy = TRUE
    MaxLate = 1
    Sessions = {1}
    Jobs = {1}
    Tasks = {1}
    Pulls = {p1, p2}
    Requests = {r1}
    Workflow <- InboxSession
    LoopN = 1
    MaxReclaims = 1
    MaxIterations = 1
    LeaseEnabled = FALSE
SPECIFICATION ProcessSpec
SYMMETRY Interchangeable
INVARIANTS
    ProcessTypeOK
    RunnersBounded
