\* What the documentation says of baselines, against three checks of one skill.
SPECIFICATION Spec
CONSTANTS
    t1 = t1
    t2 = t2
    t3 = t3
    qa = qa
    qb = qb
    p = p
    None = None
    Broken = Broken
    Unlimited = Unlimited
    Place <- MCPlace
    PlatformOf <- MCPlatformOf
    SourceOf <- MCSourceOf
    DirectoryOf <- MCDirectoryOf
    PluginOf <- MCPluginOf
    Key <- MCKey
    Sorted <- MCSorted
    Name = {1, 2}
    Target = {t1, t2, t3}
    Content = {1, 2, 3}
    Ruleset = {1, 2}
    RuleId = {"ASD011", "ASD101", "ASD600", "ASD700", "ASD701", "ASD702"}
    Heavy = {2}
    Context = {1, 2}
    RuleFindings <- MCRuleFindings
    Unreadable = {3}
    Declares <- MCDeclares
    TitleOf <- MCTitleOf
    Id = {1}
    World = {"history"}
    Start <- MCStart
    Asks <- MCAsks
    Loads <- MCLoads
    Budgets <- MCBudgets
    Bounds <- MCBounds
INVARIANT
    BaselinesSucceed
\* The diagnoses end.
CHECK_DEADLOCK FALSE
