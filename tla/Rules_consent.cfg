\* Consent withdrawn while the engine updates last_checked.
SPECIFICATION Spec
CONSTANTS
    old = old
    new = new
    other = other
    v1 = v1
    v2 = v2
    Command = {command}
    Engine = {engine}
    Pack = {old, new, other}
    Version <- Versions
    Expires <- Expiries
    NoPack = NoPack
    NoVersion = NoVersion
    Kept = 1
    Interval = 2
    MaxClock = 4
    MaxChanges = 4
PROPERTIES
    ConsentIsGiven
\* When the bounds are spent nothing more is asked.
CHECK_DEADLOCK FALSE
