\* One thread: requests do not overlap.
SPECIFICATION Spec
CONSTANTS
    w1 = w1
    w2 = w2
    hub = hub
    proof = proof
    smoke = smoke
    pulse = pulse
    Workspaces = {w1, w2}
    Dashboards = {hub, proof, smoke, pulse}
    WorkspaceOf <- Owner
    DependsOn <- Graph
    Level <- Levels
    Threads = {t1}
    TTL = 1
    MaxItems = 4
    MaxClock = 2
    MaxWrites = 2
    None = None
INVARIANTS
    FreshAfterWrite
