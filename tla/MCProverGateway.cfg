SPECIFICATION Spec
CONSTANTS
    None = None
    Workers = {w1, w2}
    MaxJobs = 3
INVARIANTS
    FinishedKeepsResult
PROPERTIES
    KeepsJobsPromise
CHECK_DEADLOCK FALSE
