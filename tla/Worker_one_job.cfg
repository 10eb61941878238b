\* One job, one process at a time: every order of three requests or heartbeats, the
\* threads of the worker, one crash or failure and the restarts.
SPECIFICATION FairSpec
CONSTANTS
    Job = {a}
    Inventory = {a}
    Proc = {p}
    NoProc = NoProc
    NoJob = NoJob
    ListLimit = 2
    MaxRequests = 3
    MaxFaults = 1
INVARIANTS
    TypeOK
    CompleteHasReport
    RunningHasRunner
PROPERTIES
    CompleteStays
    JobsSettle
\* A worker whose request budget is spent and whose job thread is lost stops.
CHECK_DEADLOCK FALSE
