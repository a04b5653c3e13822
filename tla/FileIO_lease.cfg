\* Two-chunk writes on two clients, each long enough to re-lock its chunk.
CONSTANTS
    c1 = c1
    c2 = c2
    Clients <- MCClients
    ThreadsPerClient = 1
    MaxOps <- BudgetOneOne
    LockDuration = 3
    IdleTimeout = 1
    NumChunks = 2
    OpKinds = {"write"}
    WriteSpans = {2}
    HasInline = FALSE
    StoreErrors = FALSE
    ClockRuns = TRUE
    NoLocker = NoLocker
    NoThread = NoThread

SPECIFICATION Spec
INVARIANT FreshLockIsHeld
