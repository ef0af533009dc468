\* Two pages that differ after the first 120 characters.
SPECIFICATION Spec
CONSTANTS
    s1 = s1
    s2 = s2
    p1 = p1
    p2 = p2
    Sources = {s1}
    Active = {s1}
    Snapshots = {s1}
    Overridden = {s1}
    Responsive = {s1}
    Policies = {p1}
    Matches <- DomainAndHost
    PatternLength <- HostIsLonger
    Approved = {p1}
    Quota <- OneEach
    Fetches = {f1, f2, f3, f4}
    Keys = {k1}
    Prices = {low, high}
    Threads = {t1}
    Limit = 2
    Cadence = 1
    Hour = 1
    None = None
SYMMETRY Symmetry
INVARIANTS
    EvidenceIsReviewed
