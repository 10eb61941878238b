\* An accepted cancel request is forgotten by the claim.
SPECIFICATION Spec
CONSTANTS
    Job = {a}
    Inventory = {}
    Proc = {p}
    NoProc = NoProc
    NoJob = NoJob
    ListLimit = 2
    MaxRequests = 2
    MaxFaults = 0
PROPERTIES
    AcceptedCancelKept
\* A worker whose request budget is spent and whose job thread is lost stops.
CHECK_DEADLOCK FALSE
