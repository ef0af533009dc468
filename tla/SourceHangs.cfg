\* A monitor whose host accepts and does not answer.
SPECIFICATION FairSpec
CONSTANTS
    s1 = s1
    s2 = s2
    p1 = p1
    p2 = p2
    Sources = {s1, s2}
    Active = {s1, s2}
    Snapshots = {s1}
    Overridden = {}
    Responsive = {s1}
    Policies = {p1}
    Matches <- DomainAndHost
    PatternLength <- HostIsLonger
    Approved = {p1}
    Quota <- OneEach
    Fetches = {f1, f2, f3}
    Keys = {k1}
    Prices = {low}
    Threads = {t1}
    Limit = 2
    Cadence = 1
    Hour = 1
    None = None
PROPERTIES
    DueIsRefreshed
