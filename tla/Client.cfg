\* A command and a direct one, with a fault or a Ctrl-C: every restart between two
\* polls, and launches that compete for the lock and the socket path.
SPECIFICATION FairSpec
CONSTANTS
    Job = {a, b}
    Direct = {b}
    Proc = {p, q}
    NoProc = NoProc
    NoJob = NoJob
    ListLimit = 2
    StartAttempts = 2
    MaxFaults = 1
INVARIANTS
    CommandOK
    ExitMatchesRow
    ServingIsReachable
    OneChildAtATime
PROPERTIES
    CommandsEnd
\* Every command may have ended and every worker left.
CHECK_DEADLOCK FALSE
