\* Two jobs and two processes: one that was stopped may still be executing a job when
\* the next one takes the lock.
SPECIFICATION Spec
CONSTANTS
    Job = {a, b}
    Inventory = {}
    Proc = {p, q}
    NoProc = NoProc
    NoJob = NoJob
    ListLimit = 2
    MaxRequests = 2
    MaxFaults = 1
INVARIANTS
    ResultMatchesStatus
    EventsContiguous
    NoStrandedQueuedJob
PROPERTIES
    FeedSpec
SYMMETRY WorkerSymmetry
\* A worker whose request budget is spent and whose job thread is lost stops.
CHECK_DEADLOCK FALSE
