CONSTANTS
    w1 = w1
    w2 = w2
    a1 = a1
    NoWorker = NoWorker
    NoAgent = NoAgent
    NoTx = NoTx
    NoJob = NoJob
    Agents = {a1}
    SessionAgent <- AllForA1
    Workers = {w1, w2}
    Reliable = {w1}
    InboxAgent <- NoInbox
    Lossy = TRUE
    MaxLate = 0
    Sessions = {1}
    Jobs = {1}
    Tasks = {}
    Pulls = {p1, p2}
    Requests = {r1}
    Workflow <- ChatSession
    LoopN = 1
    MaxReclaims = 1
    MaxIterations = 1
    LeaseEnabled = TRUE
SPECIFICATION LiveSpec
PROPERTIES
    JobsEnd
    WorkerComesBack
