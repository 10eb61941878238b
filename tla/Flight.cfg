\* The worker's coordinator and request threads and a command that runs the engine
\* itself: appends that race appends and a purge, with one failure or crash.
SPECIFICATION Spec
CONSTANTS
    coordinator = coordinator
    handler = handler
    direct = direct
    worker = worker
    command = command
    small = small
    large = large
    Thread = {coordinator, handler, direct}
    Appender = {coordinator, direct}
    Purger = {handler}
    Owner <- TwoProcesses
    NoThread = NoThread
    Record = {small, large}
    NoRecord = NoRecord
    Size <- Sizes
    MaxBytes = 2
    Retention = 2
    MaxClock = 4
    MaxPurges = 1
    MaxFaults = 1
INVARIANTS
    TypeOK
    NoOrphanFile
    RowsHaveFiles
    CapacityHeld
PROPERTIES
    PurgeErases
\* When the bounds are spent nothing more is asked of the recorder.
CHECK_DEADLOCK FALSE
