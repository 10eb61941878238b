\* A user's commands racing the automatic update of the engine.
SPECIFICATION Spec
CONSTANTS
    old = old
    new = new
    other = other
    v1 = v1
    v2 = v2
    Command = {command}
    Engine = {engine}
    Pack = {old, new, other}
    Version <- Versions
    Expires <- Expiries
    NoPack = NoPack
    NoVersion = NoVersion
    Kept = 1
    Interval = 2
    MaxClock = 4
    MaxChanges = 4
INVARIANTS
    StateOK
PROPERTIES
    LedgerSteps
\* When the bounds are spent nothing more is asked.
CHECK_DEADLOCK FALSE
