----------------------- MODULE MCObservabilityOutbox -----------------------
(* A small instance of ObservabilityOutbox for TLC.                         *)
EXTENDS ObservabilityOutbox, TLC

Symmetry == Permutations(Exports) \cup Permutations(Dispatchers)
=============================================================================
