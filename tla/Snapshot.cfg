\* Two files, one crash or failed write.
SPECIFICATION Spec
CONSTANTS
    p = p
    q = q
    Proc = {p, q}
    File = {1, 2}
    None = None
    Link = Link
    Torn = Torn
    Skipped = Skipped
    Settings <- Both
    MaxFaults = 1
INVARIANTS
    TypeOK
    ReportIsReal
    StoreSound
    KeysAgree
\* Every process ends its check.
CHECK_DEADLOCK FALSE
