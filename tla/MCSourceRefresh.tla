--------------------------- MODULE MCSourceRefresh ---------------------------
(* Small instances of SourceRefresh for TLC.                                *)
EXTENDS SourceRefresh, TLC

CONSTANTS s1, s2, p1, p2

\* One policy for a shop's whole domain, one for the host of the first page.
DomainAndHost == [s \in Sources |-> IF s = s1 THEN {p1, p2} \cap Policies ELSE {p1}]
HostIsLonger  == [p \in Policies |-> IF p = p2 THEN 2 ELSE 1]
OneEach       == [p \in Policies |-> 1]

Symmetry == Permutations(Fetches) \cup Permutations(Threads)
=============================================================================
