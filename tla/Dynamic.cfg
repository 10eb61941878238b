\* Two skills in one engine, whose names may collide; a plan that is edited; the deeper depths;
\* a container left by a crash.
SPECIFICATION FairSpec
CONSTANTS
    p = p
    q = q
    None = None
    r = r
    a = a
    b = b
    Proc = {p, q, r}
    Char <- Characters
    Dash = Dash
    Control = Control
    Version = Version
    Kept = 7
    SkillOf <- Names
    CaseIds <- Ids
    Content = {1, 2}
    Settings <- All
INVARIANTS
    TypeOK
    OnlyApprovedRuns
    UsesAsPlanned
    LeavesNothing
    NoPartialVerdict
PROPERTIES
    NobodyElseEnds
    ChecksEnd
\* The checks end.
CHECK_DEADLOCK FALSE
