------------------------------ MODULE Verdicts ------------------------------
(* The three verdicts that gates, dashboards and decision kits share, and   *)
(* the arithmetic of their scores.                                          *)
EXTENDS Integers

\* CheckStatus.
Verdict == {"ok", "warning", "blocker"}
Rank(v) == CASE v = "ok" -> 0 [] v = "warning" -> 1 [] v = "blocker" -> 2

\* The status of a list of checks: its worst.
Worst(verdicts) ==
    CASE "blocker" \in verdicts -> "blocker"
      [] "blocker" \notin verdicts /\ "warning" \in verdicts -> "warning"
      [] OTHER -> "ok"

\* The status of a value that should be large.
AtLeast(value, warning, ok) ==
    CASE value >= ok -> "ok"
      [] value < ok /\ value >= warning -> "warning"
      [] OTHER -> "blocker"

AtMost(n, bound) == IF n > bound THEN bound ELSE n
NotBelow(n, bound) == IF n < bound THEN bound ELSE n
Clamp(n, low, high) == NotBelow(AtMost(n, high), low)

\* 1 where the code adds a bool, or something `if p else 0'.
One(p) == IF p THEN 1 ELSE 0
=============================================================================
