\* Five workspaces: empty, at the edge of limited beta, ready, and two with a full backlog;
\* two requests.
SPECIFICATION MCSpec
CONSTANTS
    p1 = p1
    p2 = p2
    h1 = h1
    Products = {p1, p2}
    Hosts = {h1}
    RunForms <- SomeRuns
    FeedbackForms <- SomeFeedback
    OutcomeForms <- SomeOutcomes
    EventForms <- SomeEvents
    IntentForms <- SomeIntents
    PatchForms <- SomePatches
    Limit = 8
    BacklogLimit = 8
    BacklogProducts = 1
    GateProducts = 1
    SiteUrl = TRUE
    Patchers = {q1, q2}
    Ledgers <- SomeLedgers
    Days = {1, 2, 100}
    MaxSteps = 2
    Unreadable = Unreadable
    None = None
INVARIANTS
    TypeOK
    GoMeansClean
    OverdueBlocks
    SignUpNeverHurts
SYMMETRY PatchersAlike
CHECK_DEADLOCK FALSE
