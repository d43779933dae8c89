CONSTANTS
    w1 = w1
    w2 = w2
    a1 = a1
    NoWorker = NoWorker
    NoAgent = NoAgent
    NoTx = NoTx
    NoJob = NoJob
    Agents = {a1}
    SessionAgent <- AllForA1
    Workers = {w1}
    Reliable = {w1}
    InboxAgent <- AllListen
    Lossy = TRUE
    MaxLate = 0
    Sessions = {1}
    Jobs = {1}
    Tasks = {}
    Pulls = {p1}
    Requests = {r1}
    Workflow <- InboxSession
    LoopN = 1
    MaxReclaims = 0
    MaxIterations = 1
    LeaseEnabled = FALSE
SPECIFICATION LiveSpec
PROPERTIES
    InboxWorkerComesBack
