---------------------------- MODULE MCAlertOutbox ----------------------------
(* Small instances of AlertOutbox for TLC.                                  *)
EXTENDS AlertOutbox, TLC

CONSTANTS s1, s2, c1, c2

\* One subscription on one channel each, and one subscription on two channels.
OneChannelEach == [s \in Subscriptions |-> {c1}]
TwoChannels    == [s \in Subscriptions |-> {c1, c2}]

\* The second subscription asks for no channel at all.
TwoChannelsOrNone == [s \in Subscriptions |-> IF s = s1 THEN {c1, c2} ELSE {}]

Symmetry == Permutations(Dispatchers) \cup Permutations(Evaluations)
=============================================================================
