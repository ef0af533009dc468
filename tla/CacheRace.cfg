\* A write while a dashboard is being computed.
SPECIFICATION Spec
CONSTANTS
    w1 = w1
    w2 = w2
    hub = hub
    proof = proof
    smoke = smoke
    pulse = pulse
    Workspaces = {w1, w2}
    Dashboards = {hub, proof}
    WorkspaceOf <- Owner
    DependsOn <- Graph
    Level <- Levels
    Threads = {t1, t2}
    TTL = 1
    MaxItems = 4
    MaxClock = 1
    MaxWrites = 1
    None = None
INVARIANTS
    FreshAfterWrite
