\* Two shares and a revocation of one report.
SPECIFICATION Spec
CONSTANTS
    Workspaces = {w1}
    Analyses = {a1}
    Saves = {s1}
    Shares = {h1, h2}
    Revokes = {k1}
    Views = {v1}
    None = None
PROPERTIES
    RevokedTokenIs404
