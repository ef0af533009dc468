\* Two overlapping requests for a page whose host may hang; a narrower policy is not approved.
SPECIFICATION Spec
CONSTANTS
    s1 = s1
    s2 = s2
    p1 = p1
    p2 = p2
    Sources = {s1}
    Active = {s1}
    Snapshots = {}
    Overridden = {s1}
    Responsive = {}
    Policies = {p1, p2}
    Matches <- DomainAndHost
    PatternLength <- HostIsLonger
    Approved = {p1}
    Quota <- OneEach
    Fetches = {f1, f2, f3, f4}
    Keys = {k1}
    Prices = {low}
    Threads = {t1, t2}
    Limit = 2
    Cadence = 1
    Hour = 1
    None = None
SYMMETRY Symmetry
INVARIANTS
    TypeOK
    QuotaOvershootBounded
    RunHasReviewItem
PROPERTIES
    DecisionsStand
