--------------------------- MODULE MCReportSharing ---------------------------
(* Small instances of ReportSharing for TLC.                                *)
EXTENDS ReportSharing, TLC

\* Requests of one kind are interchangeable, and so are the workspaces.
Symmetry ==
    Permutations(Workspaces) \cup Permutations(Analyses) \cup Permutations(Saves)
        \cup Permutations(Shares) \cup Permutations(Revokes) \cup Permutations(Views)
=============================================================================
