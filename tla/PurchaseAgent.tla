---------------------------- MODULE PurchaseAgent ----------------------------
(* workflows/purchase_agent.py: the analysis of a request, one operator for *)
(* each node of the graph and one for each part of the report.  The graph   *)
(* is a line: every node runs once, in this order, on what the nodes before *)
(* it left in the state.                                                    *)
(*                                                                          *)
(* A request names a budget (in 10,000 won, or None), what the computer is  *)
(* for, what it needs to have and what it must not.  Scores are in tenths,  *)
(* prices in 1,000 won as in the catalog, targets in 10 won.                *)
EXTENDS AgentCatalog

\* A budget of 0 counts as none for the scores.
Limit(r) == IF OrZero(r.budget) = 0 THEN 2000 ELSE 10 * r.budget

\* clarifier: what it would have asked.
Clarified(r) ==
    When(r.budget = None, "budget") \o When(r.category = "desktop_pc" /\ r.needs = <<>>, "musts")

\* scoring_engine.
PurposeFit(p, r) ==
    LET s == p.specs
        gaming == IF s.gpu \in {"RTX4070", "RTX4080"} THEN 14 ELSE 8
        editing == (IF s.ram >= 32 THEN 12 ELSE 3) + (IF s.gpu \in {"RX7600", "Arc", "integrated"} THEN 2 ELSE 10)
        body == IF s.category = "laptop" THEN 6 * One(s.weight <= 180) ELSE 5 * One(s.psu >= 650)
        light == s.category = "laptop" /\ "portable" \in Elements(r.needs) /\ s.weight <= 160
    IN  AtMost(70 + gaming * One("game" \in r.purpose) + editing * One("edit" \in r.purpose) + body
                  + 2 * s.slots * One("upgrade" \in Elements(r.needs)) + 8 * One(light), 100)

TotalScore(p, r) ==
    LET budget == Limit(r)
        preference == 78 + AtMost(3 * Len(r.needs), 12)
        rest == 35 * PurposeFit(p, r) + 15 * p.trust + 10 * PurchaseStability(p) + 8 * preference
                + 10 * CompatibilityScore(p.specs)
    IN  Round(budget * rest + 22 * PriceCompetitiveness(p.price, budget), 10 * budget)

\* The products by their score; the first is the one that the report picks.
Ranked(r) == ByScore(Products(r.category), LAMBDA p : TotalScore(p, r))

\* compatibility_checker and verifier: the latter adds a flag for a price that is not for sale, the
\* other flags that it knows need a catalog without sources.
Compatible(r) == \A p \in Elements(Products(r.category)) : Values(CompatibilityChecks(p.specs)) = {"ok"}
Flags(r) == Clarified(r) \o When(\E p \in Elements(Products(r.category)) : ~p.inStock, "stock")

-----------------------------------------------------------------------------
(* report_writer, part by part.                                             *)

\* Mutant: the target forgets the budget.
AlertTargetWithoutBudget(p, r) == 96 * p.price

\* build_price_alerts: the recommended products are watched until they cost this much.
AlertTarget(p, r) == AtMost(96 * p.price, 97 * Limit(r))
TargetGap(p, r) == 100 * p.price - AlertTarget(p, r)
BudgetGap(p, r) == IF r.budget = None THEN 0 ELSE p.price - 10 * r.budget

ReviewSources(r) == {source \in SourceTrust(Products(r.category)) : RequiresHumanReview(source)}

\* _purchase_decision on the pick.
ToReview(r, pick) == "blocker" \in Values(CompatibilityChecks(pick.specs)) \/ ReviewSources(r) # {}
ToWait(r, pick) ==
    BudgetGap(pick, r) > 0 \/ TargetGap(pick, r) > NotBelow((5 * pick.price) \div 2, 3000)
Decision(r, pick) ==
    CASE ToReview(r, pick) -> "blocker" [] ~ToReview(r, pick) /\ ToWait(r, pick) -> "warning" [] OTHER -> "ok"

RiskFlags(r, pick) ==
    LET checks == CompatibilityChecks(pick.specs)
    IN  Tally(checks, "blocker") + AtMost(Tally(checks, "warning"), 2)
        + AtMost(Cardinality(ReviewSources(r)), 2) + AtMost(pick.risks, 2)
DecisionConfidence(r, pick) == Clamp(TotalScore(pick, r) - 40 * RiskFlags(r, pick), 350, 980)

\* _criteria_matches: how a product meets the conditions, in the order of the code's tests.
MustHave(must, p) ==
    LET s == p.specs
    IN  CASE must = "ram32" -> MatchVerdict(s.ram >= 32)
          [] must = "qhd" -> FoundVerdict(s.gpu \in {"RTX4070", "RTX4080"})
          [] must = "upgrade" -> AtLeast(s.slots, 1, 2)
          [] must = "portable" ->
                IF s.category = "laptop" THEN AtLeast(-s.weight, -220, -180) ELSE "blocker"
          [] must = "externalGPU" -> FoundVerdict(s.gpu \notin {"RX7600", "Arc", "integrated"})
          [] OTHER -> FoundVerdict(must \in s.tags)
Excluded(exclusion, p) ==
    CASE exclusion = "8GB" -> MatchVerdict(p.specs.ram > 8)
      [] exclusion \in {"used", "noSource"} -> "ok"
      [] OTHER -> MatchVerdict(exclusion \notin p.specs.tags)
Matches(r, p) ==
    {MustHave(must, p) : must \in Elements(r.needs)} \cup {Excluded(e, p) : e \in Elements(r.refuses)}

\* _stress_tests: a budget of 90 % buys the best ranked product that it pays for.  One of 110 % is
\* always said to be fine.
StressBase(r, pick) == IF OrZero(r.budget) = 0 THEN pick.price ELSE 10 * r.budget
ReducedStatus(r, ranked) ==
    LET affordable == SelectSeq(ranked, LAMBDA p : 10 * p.price <= 9 * StressBase(r, ranked[1]))
    IN  CASE affordable = <<>> -> "blocker"
          [] affordable # <<>> /\ affordable[1] # ranked[1] -> "warning"
          [] OTHER -> "ok"
StressTests(r, ranked) ==
    [reduced |-> ReducedStatus(r, ranked), expanded |-> "ok", strict |-> Worst(Matches(r, ranked[1]))]

\* _deal_windows, for the product at a rank.
DealWindow(r, rank, p, decision) ==
    LET now == rank = 1 /\ decision = "ok" /\ TargetGap(p, r) <= 6000
        wait == BudgetGap(p, r) > 0 \/ TargetGap(p, r) > NotBelow(3 * p.price, 5000)
    IN  IF ~now /\ (wait \/ p.limited \/ p.risks > 0) THEN "warning" ELSE "ok"

\* _evidence_packs: whether a person has to look at the evidence of a product.
PackReview(p) ==
    \/ Values(CompatibilityChecks(p.specs)) # {"ok"}
    \/ p.risks > 0
    \/ \E source \in {p.source, "review_signal", "benchmark"} : RequiresHumanReview(source)

\* _execution_plan: pay today, wait for the price, or have it reviewed.
PlanUrgency(decision, matches) ==
    CASE decision = "ok" /\ "blocker" \notin matches -> "ok"
      [] decision = "warning" -> "warning"
      [] OTHER -> "blocker"
PriceRecheck(r, pick, decision) == decision # "ok" \/ TargetGap(pick, r) > 0

\* What the trace says of the nodes that may warn, and quality.py on the finished report.
Trace(r) ==
    [clarifier |-> FoundVerdict(Clarified(r) = <<>>), compatibility_checker |-> FoundVerdict(Compatible(r)),
     verifier |-> FoundVerdict(Flags(r) = <<>>)]
LaunchBlocked(r) == Tally(Trace(r), "warning") >= 4 \/ Cardinality(ReviewSources(r)) >= 3

\* run_analysis.
AgentKit(r) ==
    LET ranked == Ranked(r)
        pick == ranked[1]
        decision == Decision(r, pick)
        trace == Trace(r)
        tests == StressTests(r, ranked)
        checks == [clarifier |-> trace.clarifier, compatibility |-> trace.compatibility_checker,
                   verifier |-> trace.verifier, launch |-> MatchVerdict(~LaunchBlocked(r)),
                   reduced |-> tests.reduced, expanded |-> tests.expanded, strict |-> tests.strict,
                   first |-> DealWindow(r, 1, pick, decision), second |-> DealWindow(r, 2, ranked[2], decision),
                   third |-> DealWindow(r, 3, ranked[3], decision),
                   evidence |-> FoundVerdict(~PackReview(pick)),
                   price |-> FoundVerdict(~PriceRecheck(r, pick, decision)),
                   urgency |-> PlanUrgency(decision, Matches(r, pick))]
    IN  Answer(decision, DecisionConfidence(r, pick), checks, {})
=============================================================================
