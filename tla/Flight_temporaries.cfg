\* One process whose append dies before its rename, and a purge after it.
SPECIFICATION Spec
CONSTANTS
    coordinator = coordinator
    handler = handler
    direct = direct
    worker = worker
    command = command
    small = small
    large = large
    Thread = {coordinator, handler}
    Appender = {coordinator}
    Purger = {handler}
    Owner <- OneProcess
    NoThread = NoThread
    Record = {small, large}
    NoRecord = NoRecord
    Size <- Sizes
    MaxBytes = 2
    Retention = 2
    MaxClock = 4
    MaxPurges = 1
    MaxFaults = 1
PROPERTIES
    PurgeLeavesNothing
\* When the bounds are spent nothing more is asked of the recorder.
CHECK_DEADLOCK FALSE
