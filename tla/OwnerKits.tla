----------------------------- MODULE OwnerKits -----------------------------
(* The public kits for what comes with and after a purchase: the warranty   *)
(* and return policy, the cost of ownership, the aftercare, the first boot, *)
(* the claim of a defect and the card that shares the outcome.              *)
(*                                                                          *)
(* Days are counted from the day of the answer.                             *)
EXTENDS KitText

\* A word of several is found in one of the texts.
Says(texts, words) == AllOf(texts) \cap words # {}

-----------------------------------------------------------------------------
(* warranty_return.                                                         *)

RefusesReturns(r) == r.returns <= 0 \/ r.policy \cap {"noReturn", "noOpened"} # {}
OtherSupport(r) == r.provider = "seller" \/ r.policy \cap {"parallel", "noSupport"} # {}

\* The return shipping and the restocking fee, in percent of 10,000 won.
ReturnCost(r) == 100 * r.fee + r.cost * r.restocking

PolicyChecks(r) ==
    [return_window     |-> IF RefusesReturns(r) THEN "blocker" ELSE FoundVerdict(r.returns >= 7),
     dead_on_arrival   |-> AtLeast(r.doa, 1, 7),
     opened_box        |-> FoundVerdict(r.openedBox = TRUE /\ "noOpened" \notin r.policy),
     warranty_provider |-> IF OtherSupport(r) THEN IF "noSupport" \in r.policy THEN "blocker" ELSE "warning"
                           ELSE FoundVerdict(r.months >= 12),
     warranty_transfer |-> FoundVerdict(r.transferable = TRUE),
     return_cost       |-> FoundVerdict(r.fee <= 8 /\ r.restocking < 10)]

ProtectionScore(r) ==
    LET checks == PolicyChecks(r)
    IN  Score(100 - 24 * Tally(checks, "blocker") - 10 * Tally(checks, "warning")
              - 10 * One(ReturnCost(r) > 5 * r.cost) + 4 * One(r.returns >= 14) + 4 * One(r.months >= 24))

WarrantyPriority(r) == Worst(Values(PolicyChecks(r)) \cup {AtLeast(ProtectionScore(r), 60, 84)})

WarrantyKit(r) == Answer(WarrantyPriority(r), ProtectionScore(r), PolicyChecks(r), {})

-----------------------------------------------------------------------------
(* ownership_cost.                                                          *)

ResaleRate(r) ==
    LET laptop == r.category = "laptop"
        base == CASE r.signal = "high" -> IF laptop THEN 48 ELSE 42
                  [] r.signal = "low"  -> IF laptop THEN 28 ELSE 24
                  [] OTHER             -> IF laptop THEN 38 ELSE 32
    IN  IF r.rate # None THEN r.rate
        ELSE Clamp(base - 5 * NotBelow(r.years - 3, 0)
                        - 10 * One(Says(r.conditions, {"used", "imported", "noSupport", "nosupport"})), 5, 70)

\* What the computer costs until it is sold at a rate, in units of 100 won.
NetCost(r, rate) ==
    NotBelow(100 * (r.cost + r.upkeep * r.years + r.upgrade + r.downtime * r.daily) - r.cost * rate, 0)
MonthlyOver(r, amount) == NetCost(r, ResaleRate(r)) > 100 * amount * 12 * r.years

ShortWarranty(r) == r.months < AtMost(12 * r.years, 24)
DearUpgrade(r) == 100 * r.upgrade > 18 * r.cost

\* The conditions that the buyer names, of which four are read.
Conditions(r) == First(r.conditions, 4)
OwnershipFlags(r) ==
       {f \in {"resale"} : ResaleRate(r) < 25} \cup {f \in {"short"} : ShortWarranty(r)}
    \cup {f \in {"upgrade"} : DearUpgrade(r)} \cup {f \in {"downtime"} : r.downtime > 0 /\ r.daily > 0}
    \cup {f \in {"condition"} : Conditions(r) # <<>>}
    \cup {f \in {"monthly"} : MonthlyOver(r, IF r.category = "laptop" THEN 15 ELSE 12)}

OwnershipScore(r) ==
    LET rate == ResaleRate(r)
    IN  Score(100 - (CASE rate < 25 -> 24 [] rate \in 25..34 -> 12 [] rate > 34 -> 0)
              - (IF r.months < 12 THEN 16 ELSE 8 * One(ShortWarranty(r)))
              - 12 * One(DearUpgrade(r)) - 10 * One(Conditions(r) # <<>>)
              - (IF MonthlyOver(r, 15) THEN 12 ELSE 6 * One(MonthlyOver(r, 12))))

\* The text that says that there is no risk has the word for risk in it: it counts as one.
NoRiskTakenForRisk(r) == OwnershipFlags(r) = {}

OwnershipPriority(r) ==
    IF OwnershipScore(r) < 60 \/ Says(Conditions(r), {"noSupport"}) THEN "blocker"
    ELSE FoundVerdict(/\ OwnershipScore(r) >= 82
                      /\ OwnershipFlags(r) \cap {"condition", "short"} = {}
                      /\ ~NoRiskTakenForRisk(r))

\* What it costs a month if the computer is sold for less or for more.
Scenarios(r) ==
    LET status(delta) ==
            FoundVerdict(NetCost(r, Clamp(ResaleRate(r) + delta, 5, 80)) <= 1400 * 12 * r.years)
    IN  [conservative |-> status(-10), expected |-> status(0), optimistic |-> status(8)]

OwnershipKit(r) == Answer(OwnershipPriority(r), OwnershipScore(r), Scenarios(r), {})

-----------------------------------------------------------------------------
(* purchase_aftercare.  A month has 30 days.                                *)

Bought(r) == IF r.purchase = None THEN 0 ELSE r.purchase
Delivered(r) == IF r.delivered = None THEN Bought(r) ELSE r.delivered
ReturnDeadline(r) == Delivered(r) + r.returns
WarrantyEnd(r) == Bought(r) + 30 * r.months

Issues(r) == First(r.issues, 8)
PriceDelta(paid, planned) == IF None \in {paid, planned} THEN None ELSE paid - planned

AftercarePriority(r) ==
    LET issues == Issues(r)
        delta == PriceDelta(r.paid, r.expected)
    IN  IF \/ Says(issues, {"defect"})
           \/ ReturnDeadline(r) < 0 /\ issues # <<>>
           \/ WarrantyEnd(r) < 0
        THEN "blocker"
        ELSE FoundVerdict(issues = <<>> /\ ReturnDeadline(r) > 2 /\ ~(delta # None /\ delta > 0))

AftercareDeadline(deadline, issues) ==
    IF deadline < 0 /\ issues # <<>> THEN "blocker" ELSE FoundVerdict(deadline > 2)
AftercareDeadlines(r) ==
    [return_window |-> AftercareDeadline(ReturnDeadline(r), Issues(r)),
     warranty_end |-> MatchVerdict(WarrantyEnd(r) >= 0), outcome_capture |-> "warning"]

AftercareKit(r) == Answer(AftercarePriority(r), None, AftercareDeadlines(r), {})

-----------------------------------------------------------------------------
(* first_boot_setup.  A missing driver is named by its task, or otherwise.  *)

SevereBoot(issues) == Says(issues, {"defect", "crash"})

FirstBootScore(r) ==
    Score(100 - AtMost(18 * Len(Issues(r)), 54) - AtMost(10 * Cardinality(r.missingDrivers), 30)
          - 8 * One(~r.registered) - 6 * One(~r.bios /\ r.category = "desktop_pc")
          - 4 * One(~r.connected /\ r.category = "laptop"))

FirstBootPriority(r) ==
    IF SevereBoot(Issues(r)) \/ FirstBootScore(r) < 60 THEN "blocker"
    ELSE FoundVerdict(Issues(r) = <<>> /\ r.missingDrivers = {} /\ FirstBootScore(r) >= 82)

FirstBootTasks(r) ==
    LET tasks == [power_display |-> MatchVerdict(~SevereBoot(Issues(r))),
                  os_activation |-> FoundVerdict(r.os # "FreeDOS"),
                  display_profile |-> FoundVerdict(r.resolution),
                  battery_thermal |-> FoundVerdict(~Says(Issues(r), {"heat"})),
                  bios_memory_storage |-> FoundVerdict(r.bios)]
    IN  [t \in DOMAIN tasks \ {IF r.category = "laptop" THEN "bios_memory_storage" ELSE "battery_thermal"}
           |-> tasks[t]]

DriverTasks(r) ==
    [t \in {"chipset", "graphics", "network"} \cup (IF r.category = "laptop" THEN {"vendor_utility"} ELSE {})
        |-> FoundVerdict(t \notin r.missingDrivers)]

FirstBootChecks(r) ==
    [t \in DOMAIN FirstBootTasks(r) \cup DOMAIN DriverTasks(r) |->
        IF t \in DOMAIN DriverTasks(r) THEN DriverTasks(r)[t] ELSE FirstBootTasks(r)[t]]

FirstBootKit(r) == Answer(FirstBootPriority(r), FirstBootScore(r), FirstBootChecks(r), {})

-----------------------------------------------------------------------------
(* defect_claim.                                                            *)

ClaimDeadline(r) == IF r.deadline # None THEN r.deadline ELSE Delivered(r) + 7
ClaimWarrantyEnd(r) == IF r.warrantyEnd # None THEN r.warrantyEnd ELSE Delivered(r) + 365

ClaimIssues(r) == First(r.issues, 6)
FailedChecks(r) == First(r.failed, 6)
SevereClaim(issues, failed) == Says(issues \o failed, {"defect", "crash"})

EvidenceGaps(r) ==
    LET evidence == AllOf(First(r.proofs, 8))
        gaps == When("receipt" \notin evidence, "receipt") \o When("photo" \notin evidence, "photo")
             \o When("serial" \notin evidence, "serial")
             \o When((FailedChecks(r) # <<>> \/ r.benchmark # "ok") /\ "log" \notin evidence, "log")
             \o When(r.responses = 0, "response") \o When(~r.policyKnown, "policy")
             \o When(ClaimIssues(r) = <<>> /\ FailedChecks(r) = <<>>, "symptom")
    IN  First(gaps, 6)

ClaimStatus(r) ==
    IF \/ r.benchmark = "blocker"
       \/ SevereClaim(ClaimIssues(r), FailedChecks(r))
       \/ ClaimDeadline(r) < 0 /\ ClaimIssues(r) # <<>>
    THEN "blocker"
    ELSE FoundVerdict(/\ ClaimIssues(r) = <<>> /\ FailedChecks(r) = <<>> /\ EvidenceGaps(r) = <<>>
                      /\ ClaimDeadline(r) > 3)

ClaimScore(r) ==
    LET inTime == ClaimDeadline(r) >= 0
    IN  Score(62 + AtMost(6 * Len(r.proofs), 24) + AtMost(4 * r.responses, 12)
              + 6 * One(r.order) + 4 * One(r.paid # None) + 5 * One(r.policyKnown)
              + 6 * One(inTime) - 12 * One(~inTime) - AtMost(8 * Len(EvidenceGaps(r)), 36)
              - 7 * One(SevereClaim(ClaimIssues(r), r.failed)) - 8 * One(r.benchmark = "blocker"))

DeadlineStatus(deadline, warning) ==
    IF deadline < 0 THEN "blocker" ELSE FoundVerdict(deadline > warning)
Timeline(r) ==
    [evidence_freeze   |-> IF ClaimDeadline(r) <= 0 THEN "blocker" ELSE "warning",
     return_deadline   |-> DeadlineStatus(ClaimDeadline(r), 3),
     seller_response   |-> FoundVerdict(r.responses > 0),
     warranty_deadline |-> DeadlineStatus(ClaimWarrantyEnd(r), 30)]

DefectKit(r) == Answer(ClaimStatus(r), ClaimScore(r), Timeline(r), {})

-----------------------------------------------------------------------------
(* outcome_share_card.                                                      *)

OutcomeDelta(r) == PriceDelta(r.paid, IF r.plan # None THEN r.plan ELSE r.budget)
OutcomeIssues(r) == First(r.issues, 6)
SevereOutcome(r) == Says(OutcomeIssues(r), {"defect", "noReturn", "noSupport", "nosupport"})

ProofStatus(r) ==
    LET delta == OutcomeDelta(r)
    IN  IF r.outcome = "returned" \/ r.satisfaction <= 4 \/ SevereOutcome(r) THEN "blocker"
        ELSE FoundVerdict(/\ r.outcome = "purchased" /\ r.satisfaction > 7
                          /\ OutcomeIssues(r) = <<>> /\ r.regrets = 0
                          /\ ~(delta # None /\ delta > 10))

ProofScore(r) ==
    LET delta == OutcomeDelta(r)
        points == [purchased |-> 8, delayed |-> -8, abandoned |-> -12, returned |-> -28]
    IN  Score(10 * r.satisfaction + points[r.outcome] + AtMost(4 * r.reasons, 12)
              - AtMost(8 * Len(OutcomeIssues(r)), 24) - AtMost(6 * r.regrets, 18)
              + (IF delta = None THEN 0 ELSE IF delta <= 0 THEN 7 ELSE IF delta <= 5 THEN -2 ELSE -8)
              - 18 * One(SevereOutcome(r)))

ProofMetrics(r) ==
    [outcome |-> ProofStatus(r),
     price_delta |-> FoundVerdict(OutcomeDelta(r) # None /\ OutcomeDelta(r) <= 0),
     satisfaction |-> AtLeast(r.satisfaction, 5, 8), decision_time |-> "ok"]

OutcomeKit(r) == Answer(ProofStatus(r), ProofScore(r), ProofMetrics(r), {})
=============================================================================
