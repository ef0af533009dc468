\* Two workspaces, two reports, two concurrent shares, a revoke, two visits.
SPECIFICATION Spec
CONSTANTS
    Workspaces = {w1, w2}
    Analyses = {a1}
    Saves = {s1, s2}
    Shares = {h1, h2}
    Revokes = {k1}
    Views = {v1, v2}
    None = None
SYMMETRY Symmetry
INVARIANTS
    TypeOK
    TokenOpensOneReport
    SharedReportOpens
    ViewsMatchVisits
PROPERTIES
    OnlyOwnerChangesSharing
    GoneTokenNeverReturns
