\* Under SpecInvalidCalls writeSync may get invalid parameters (its op is registered and
\* never ready); the owner stalls in the next sync(), and the destructor
\* in sync(false). The run stops there, so deadlock is not checked.
CONSTANTS
    NumOps = 3
    Calls = {"write", "sync"}
    EraseOutcomes = {"next", "end"}
SPECIFICATION SpecInvalidCalls
CHECK_DEADLOCK FALSE
PROPERTY DestructorReturns
