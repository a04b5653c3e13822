\* Two threads on c1's FileIO running single-chunk writes.
CONSTANTS
    c1 = c1
    c2 = c2
    Clients <- MCClients
    ThreadsPerClient = 2
    MaxOps <- BudgetThreads
    LockDuration = 2
    IdleTimeout = 1
    NumChunks = 2
    OpKinds = {"write"}
    WriteSpans = {1}
    HasInline = FALSE
    StoreErrors = FALSE
    ClockRuns = TRUE
    NoLocker = NoLocker
    NoThread = NoThread

SPECIFICATION Spec
PROPERTY IdleReleaseOnlyWhenIdle
