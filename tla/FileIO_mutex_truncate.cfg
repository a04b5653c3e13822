\* A single-chunk write followed by a truncate on client c1, against a
\* No time passes: every step happens within one lease.
\* single-chunk write on client c2.
CONSTANTS
    c1 = c1
    c2 = c2
    Clients <- MCClients
    ThreadsPerClient = 1
    MaxOps <- BudgetTwoOne
    LockDuration = 2
    IdleTimeout = 1
    NumChunks = 2
    OpKinds = {"write", "truncate"}
    WriteSpans = {1}
    HasInline = FALSE
    StoreErrors = FALSE
    ClockRuns = FALSE
    NoLocker = NoLocker
    NoThread = NoThread

SPECIFICATION Spec
\* With no time, a client spinning on EBUSY never gets the lock: that stop
\* is not the question of this run.
CHECK_DEADLOCK FALSE
INVARIANT MutualExclusion
