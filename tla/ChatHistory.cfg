CONSTANTS
    w1 = w1
    w2 = w2
    a1 = a1
    NoWorker = NoWorker
    NoAgent = NoAgent
    NoTx = NoTx
    Agents = {a1}
    SessionAgent <- AllForA1
    Workers = {w1}
    Sessions = {1, 2}
    Jobs = {1, 2, 3, 4}
    Tasks = {}
    Pulls = {p1}
    Requests = {r1, r2}
    Workflow <- ChatAndSentinel
    LoopN = 1
    MaxReclaims = 0
    MaxIterations = 2
    LeaseEnabled = FALSE
    MaxTurns = 1
SPECIFICATION ChatSpec
SYMMETRY Interchangeable
INVARIANTS
    ChatTypeOK
    IterationsBounded
    PendingMeansUntouched
    KnowsTheConversation
    WarnsWhenCut
    RepliesFollowMessages
PROPERTIES
    ImplementsTurnTaking
