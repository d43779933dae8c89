CONSTANTS
    LogJobs = {"j1", "j2"}
    Ending = {"j1"}
    TheSession = "session"
    Keepable = {"j2"}
    Batches = {1, 2}
    JobOf <- BatchJobs
    Size <- BatchSizes
    Stamp <- BatchStamps
    MaxCutoff = 1
    AllJobs = "all"
    Kinds = {"console", "tail", "last", "attach"}
    Filters = {"all", "j1"}
    PageSize = 1
    LastN = 2
    ChannelCap = 1
SPECIFICATION LiveSpec
INVARIANTS
    TypeOK
    NumberedOnce
    OnlyCommittedShown
    NothingDueIsLost
PROPERTIES
    CatchesUp
CHECK_DEADLOCK FALSE
