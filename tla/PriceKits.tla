----------------------------- MODULE PriceKits -----------------------------
(* The public kits about what a price is worth: the negotiation with a      *)
(* seller, the stress test of a budget, the trust in compared prices and    *)
(* the cost of a mistake.                                                   *)
EXTENDS KitText, FiniteSetsExt, Functions, SequencesExt

-----------------------------------------------------------------------------
(* Mistakes the kits could make; no specification uses them.                *)

\* What may be paid at most forgets the budget.
MaxAcceptableWithoutBudget(r) ==
    100 * r.current

-----------------------------------------------------------------------------
(* seller_negotiation.  The offer is in units of 100 won: percent of 10,000.*)

HardTerms(r) == AllOf(r.risks) \cap {"noReturn", "noSupport", "nosupport", "imported", "used"} # {}
Pressed(r) == r.urgency = "today"
Fees(r) == r.ship + r.bundle

Anchor(r) ==
    LET anchors == {p \in {r.wish, r.budget, r.competing} : OrZero(p) > 0}
    IN  IF anchors = {} THEN r.current ELSE Min(anchors)

Capped(price, cap) == IF cap = None THEN price ELSE AtMost(price, 100 * cap)

FairOffer(r) ==
    LET condition == AtMost(NotBelow(100 * (r.current - Anchor(r)), 0), NotBelow(6 * r.current, 200))
        fees == AtMost(100 * Fees(r), 4 * r.current)
        buffer == IF Pressed(r) THEN 0 ELSE 200
    IN  NotBelow(Capped(Capped(100 * r.current - condition - fees - buffer, r.wish), r.budget), 0)

MaxAcceptable(r) ==
    LET wished == IF r.wish = None THEN 100 * r.current
                  ELSE 100 * r.wish + NotBelow(2 * r.current, 200)
    IN  NotBelow(Capped(AtMost(100 * r.current, wished), r.budget), FairOffer(r))

Saving(r) == NotBelow(100 * r.current - FairOffer(r), 0)
Undercut(r) == r.competing # None /\ r.competing < r.current
FewLeft(r, stock) == r.stock # None /\ r.stock <= stock

NegotiationScore(r) ==
    Score(55 + 18 * One(Saving(r) >= NotBelow(3 * r.current, 500)) + 12 * One(Undercut(r))
          + 8 * One(Fees(r) > 0) - 10 * One(FewLeft(r, 3)) - 8 * One(Pressed(r))
          - 24 * One(HardTerms(r)) - 5 * One(r.keep = 0))

NegotiationPriority(r) ==
    IF HardTerms(r) THEN "blocker" ELSE FoundVerdict(NegotiationScore(r) >= 60 /\ ~FewLeft(r, 3))

Levers(r) ==
    LET levers == [price_match |-> "ok", shipping_waiver |-> "warning", assembly_os_bundle |-> "warning",
                   condition_lock |-> MatchVerdict(~HardTerms(r)), stock_hold |-> "warning"]
        held == {"condition_lock"} \cup {l \in {"price_match"} : Undercut(r)}
                \cup {l \in {"shipping_waiver"} : r.ship > 0}
                \cup {l \in {"assembly_os_bundle"} : r.bundle > 0}
                \cup {l \in {"stock_hold"} : FewLeft(r, 5)}
    IN  [l \in held |-> levers[l]]

NegotiationKit(r) == Answer(NegotiationPriority(r), NegotiationScore(r), Levers(r), {})

-----------------------------------------------------------------------------
(* budget_stress.                                                           *)

Gap(r) == r.target - r.budget

BaselineStatus(r) ==
    IF Gap(r) <= 0 THEN "ok"
    ELSE IF 100 * Gap(r) <= 8 * NotBelow(r.budget, 1) /\ r.tolerance # "low" THEN "warning"
    ELSE "blocker"

SmallRaise(r) == Round(NotBelow(5 * r.budget, 800), 100)

StressScenarios(r) ==
    [hold_budget     |-> FoundVerdict(Gap(r) <= 0),
     raise_small     |-> FoundVerdict(Gap(r) <= SmallRaise(r)),
     raise_quality   |-> "ok",
     relax_condition |-> IF r.flexible THEN "warning" ELSE "blocker",
     wait_target     |-> FoundVerdict(r.wait >= 7)]

StressKit(r) == Answer(BaselineStatus(r), None, StressScenarios(r), {})

-----------------------------------------------------------------------------
(* price_trust.  A candidate is a price that somebody has seen; age is in   *)
(* minutes, proof what was captured of it.                                  *)

FallbackCandidate ==
    [listed |-> 200, shipping |-> 0, discount |-> 0, age |-> None, stock |-> None, affiliate |-> FALSE,
     alternative |-> FALSE, proof |-> {}, conditions |-> {}, source |-> "compared", seller |-> "seller"]
Candidates(r) == First(Or(r.candidates, <<FallbackCandidate>>), 6)

SeenPrice(c) == NotBelow(c.listed + c.shipping - c.discount, 0)

FreshnessStatus(c) ==
    IF c.age = None THEN "warning" ELSE IF c.age > 180 THEN "blocker" ELSE FoundVerdict(c.age <= 45)
AffiliateOnly(c) == c.affiliate /\ ~c.alternative

CandidateStatus(c) ==
    IF FreshnessStatus(c) = "blocker" \/ c.stock = 0 \/ AffiliateOnly(c) THEN "blocker"
    ELSE FoundVerdict(/\ FreshnessStatus(c) = "ok" /\ c.proof = {"screenshot", "checkout", "url"}
                      /\ ~FewLeft(c, 3) /\ c.conditions \cap {"noReturn", "imported", "used", "conditional"} = {})

\* The reason that is shown for a candidate: an affiliate link hides a stale price.
Recommendation(c) ==
    CASE AffiliateOnly(c) -> "no affiliate"
      [] ~AffiliateOnly(c) /\ FreshnessStatus(c) = "blocker" -> "stale"
      [] OTHER -> IF CandidateStatus(c) = "warning" THEN "capture again" ELSE "other"

\* The candidate of the named seller, or the cheapest of the clean ones, or the cheapest.
Selected(r) ==
    LET candidates == Candidates(r)
        named == SelectSeq(candidates, LAMBDA c : c.seller = r.seller)
        clean == SelectSeq(candidates, LAMBDA c : CandidateStatus(c) = "ok")
        among == Or(clean, candidates)
        cheapest == Min({SeenPrice(among[i]) : i \in DOMAIN among})
    IN  IF named # <<>> THEN named[1]
        ELSE SelectSeq(among, LAMBDA c : SeenPrice(c) = cheapest)[1]

TrustChecks(r) ==
    LET candidates == Elements(Candidates(r))
        shown == {Recommendation(c) : c \in candidates}
        status == {CandidateStatus(c) : c \in candidates}
        checks ==
            [freshness            |-> IF "stale" \in shown THEN "blocker" ELSE FoundVerdict("capture again" \notin shown),
             source_diversity     |-> FoundVerdict(/\ Len(Candidates(r)) >= 2
                                                   /\ Cardinality({c.source : c \in candidates}) >= 2
                                                   /\ Cardinality({c.seller : c \in candidates}) >= 2),
             affiliate_neutrality |-> IF \E c \in candidates : AffiliateOnly(c) THEN "blocker"
                                      ELSE FoundVerdict(\A c \in candidates : ~c.affiliate),
             evidence             |-> Worst(status),
             selected_price       |-> CASE r.report = None -> "warning"
                                        [] r.report # None ->
                                              MatchVerdict(100 * (SeenPrice(Selected(r)) - r.report)
                                                             <= NotBelow(3 * r.report, 300))]
    IN  checks

TrustStatus(r) == Worst(Values(TrustChecks(r)))

TrustScore(r) ==
    LET checks == TrustChecks(r)
        candidates == Candidates(r)
        count(status) == Len(SelectSeq(candidates, LAMBDA c : CandidateStatus(c) = status))
    IN  Score(100 - 20 * Tally(checks, "blocker") - 8 * Tally(checks, "warning")
              - 12 * count("blocker") - 5 * count("warning")
              + 4 * One(Len(candidates) >= 3)
              + 3 * One(\E c \in Elements(candidates) : c.alternative))

TrustKit(r) == Answer(TrustStatus(r), TrustScore(r), TrustChecks(r), {})

-----------------------------------------------------------------------------
(* mistake_cost.                                                            *)

Weights == [performance_mismatch |-> 18, compatibility_blocker |-> 22, price_timing_loss |-> 8,
            return_delay |-> 10, approval_rework |-> 12]
UrgencyPercent == [low |-> 86, normal |-> 100, urgent |-> 118, team_rollout |-> 135]
UrgencyPoints == [low |-> 0, normal |-> 40, urgent |-> 80, team_rollout |-> 100]

DefaultRisks(r) ==
    <<"performance_mismatch">> \o When(r.category = "desktop_pc", "compatibility_blocker")
    \o <<"price_timing_loss", "return_delay">> \o When(r.quantity >= 3, "approval_rework")
SelectedRisks(r) ==
    Or(SelectSeq(r.selected, LAMBDA risk : risk \in DOMAIN Weights), DefaultRisks(r))

\* What each risk costs: a percentage of what is bought, more for urgent, desktop and large orders,
\* rounded to 10,000 won.
LineCost(r, risk) ==
    LET factor == (UrgencyPercent[r.urgency] * (IF r.category = "desktop_pc" THEN 108 ELSE 100)
                   * AtMost(1000 + 35 * (r.quantity - 1), 1750)) \div 10000
    IN  Round(r.budget * r.quantity * Weights[risk] * factor, 100000)
LineItems(r) == Each(SelectedRisks(r), LAMBDA risk : LineCost(r, risk))

\* In tenths of a point.
MistakeScore(r) ==
    AtMost(AtMost((1000 * SumFunction(LineItems(r))) \div (r.budget * r.quantity), 880)
           + AtMost(9 * (r.quantity - 1), 80) + UrgencyPoints[r.urgency], 1000)

MistakeLevel(r) ==
    IF MistakeScore(r) >= 550 THEN "blocker" ELSE FoundVerdict(MistakeScore(r) < 320)

MistakeKit(r) ==
    Answer(MistakeLevel(r), MistakeScore(r) \div 10, [risk \in Elements(SelectedRisks(r)) |-> "warning"], {})
=============================================================================
