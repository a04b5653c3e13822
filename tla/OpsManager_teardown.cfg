\* The owner writes (async and sync), syncs and syncs single ops, starts a
\* backlink update, then destroys the FileIO while jobs may still run; ++it
\* after erase either moves on or ends the pass.
CONSTANTS
    NumOps = 3
    Calls = {"write", "writeSync", "sync", "syncOp", "backlink"}
    EraseOutcomes = {"next", "end"}
SPECIFICATION Spec
INVARIANT TypeOK
PROPERTY DestructorReturns
