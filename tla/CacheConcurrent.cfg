\* Two threads, four dashboards and room for two.
SPECIFICATION Spec
CONSTANTS
    w1 = w1
    w2 = w2
    hub = hub
    proof = proof
    smoke = smoke
    pulse = pulse
    Workspaces = {w1, w2}
    Dashboards = {hub, proof, smoke, pulse}
    WorkspaceOf <- Owner
    DependsOn <- Graph
    Level <- Levels
    Threads = {t1, t2}
    TTL = 1
    MaxItems = 2
    MaxClock = 3
    MaxWrites = 1
    None = None
INVARIANTS
    TypeOK
    CacheBounded
    StaleByLevel
