\* Two requests through one policy.
SPECIFICATION Spec
CONSTANTS
    s1 = s1
    s2 = s2
    p1 = p1
    p2 = p2
    Sources = {s1, s2}
    Active = {s1, s2}
    Snapshots = {}
    Overridden = {}
    Responsive = {s1, s2}
    Policies = {p1}
    Matches <- DomainAndHost
    PatternLength <- HostIsLonger
    Approved = {p1}
    Quota <- OneEach
    Fetches = {f1, f2, f3, f4}
    Keys = {k1}
    Prices = {low}
    Threads = {t1, t2}
    Limit = 2
    Cadence = 1
    Hour = 1
    None = None
SYMMETRY Symmetry
INVARIANTS
    HourlyQuota
