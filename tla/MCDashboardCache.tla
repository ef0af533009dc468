--------------------------- MODULE MCDashboardCache ---------------------------
(* Small instances of DashboardCache for TLC: three dashboards of the source *)
(* in a chain, and the smoke dashboard that uses all of them.                *)
EXTENDS DashboardCache, TLC

CONSTANTS w1, w2, hub, proof, smoke, pulse

\* public_acquisition_hub is computed from the tables, public_proof_hub from the
\* hub, public_launch_smoke from both; launch_pulse stands apart, in a workspace
\* of its own.
Inputs(k) == CASE k = hub   -> {}
              [] k = proof -> {hub}
              [] k = smoke -> {hub, proof}
              [] k = pulse -> {}
Graph == [k \in Dashboards |-> Inputs(k)]
Levels == [k \in Dashboards |-> CASE k = smoke -> 3 [] k = proof -> 2 [] OTHER -> 1]
Owner == [k \in Dashboards |-> IF k = pulse THEN w2 ELSE w1]
=============================================================================
