CONSTANTS
    w1 = w1
    w2 = w2
    a1 = a1
    NoWorker = NoWorker
    NoAgent = NoAgent
    NoTx = NoTx
    Agents = {a1}
    SessionAgent <- AllForA1
    Workers = {w1, w2}
    Sessions = {1}
    Jobs = {1, 2}
    Tasks = {}
    Pulls = {p1}
    Requests = {r1, r2}
    Workflow <- LoopNSession
    LoopN = 2
    MaxReclaims = 1
    MaxIterations = 1
    LeaseEnabled = FALSE
SPECIFICATION Spec
SYMMETRY Interchangeable
INVARIANTS
    ExhaustedLoopIsCompleted
