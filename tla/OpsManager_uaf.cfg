\* The owner writes asynchronously and calls sync() (as read, truncate and
\* remove do), then drops the FileIO: a job whose op sync() erased may
\* still be inside syncAndResetLocker when the object is freed.
CONSTANTS
    NumOps = 3
    Calls = {"write", "sync"}
    EraseOutcomes = {"next"}
SPECIFICATION Spec
INVARIANT NoUseAfterDestroy
