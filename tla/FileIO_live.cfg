\* One thread per client: every operation returns (the lock loops, the
\* OpsManager sync and the wait for completions included).
CONSTANTS
    c1 = c1
    c2 = c2
    Clients <- MCClients
    ThreadsPerClient = 1
    MaxOps <- BudgetTwoOne
    LockDuration = 2
    IdleTimeout = 1
    NumChunks = 2
    OpKinds = {"write", "truncate", "remove"}
    WriteSpans = {1, 2}
    HasInline = TRUE
    StoreErrors = TRUE
    ClockRuns = TRUE
    NoLocker = NoLocker
    NoThread = NoThread

SPECIFICATION Spec
INVARIANT TypeOK
PROPERTY EveryOpReturns
