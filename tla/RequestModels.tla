--------------------------- MODULE RequestModels ---------------------------
(* core/models.py: the amounts, counts and scores that the model of each    *)
(* kit's request accepts.  Amounts are in units of 10,000 won.  A value     *)
(* outside raises when the request is built, whoever builds it.             *)
EXTENDS KitText

Amount == 0..20000
Total == 0..3000
Budget == 30..3000
WideBudget == 30..20000
Cost == 0..5000
Fee == 0..500
Discount == 0..5000
Count == 0..20
ReviewCount == 0..1000000
Days == 0..365
Hours == 0..8760
Months == 0..120
Stock == 0..100000
RamSize == 0..1024
DiskSize == 0..16384

ReplyModel == [budget |-> WideBudget, price |-> Amount]
JourneyModel == [budget |-> WideBudget, price |-> Amount]
FinalModel == [budget |-> WideBudget, price |-> Amount]
LockModel == [budget |-> Budget, price |-> Amount, quantity |-> 1..50]
ExecutionModel == [budget |-> Amount, price |-> Amount, blockers |-> Count, warnings |-> Count]
ReviewerModel == [budget |-> Amount, price |-> Amount, confidence |-> 0..100,
                  blockers |-> Count, warnings |-> Count]
TriageModel == [budget |-> Budget, total |-> Total]
ReviewModel == [budget |-> Budget, rating |-> 0..50, count |-> ReviewCount]
ScannerModel == [budget |-> Budget, total |-> Total, ram |-> RamSize, storage |-> DiskSize]
DecoderModel == [budget |-> Budget, total |-> Total]
NudgeModel == [blockers |-> Count, warnings |-> Count]
TermsModel == [budget |-> Budget]
CartItemModel == [price |-> Total, quantity |-> 1..99]
CartModel == [budget |-> Budget]
\* What the extraction finds in the text of a page counts only within these bounds.
PageModel == [budget |-> Budget, ram |-> RamSize, storage |-> DiskSize, shipping |-> 0..30, discount |-> 1..500]
SellerModel == [budget |-> Budget, total |-> Total]
ApprovalModel == [budget |-> Budget, total |-> Total, blockers |-> Count, warnings |-> Count]
DealModel == [budget |-> Amount, listed |-> Amount, reference |-> Amount, lowest |-> Amount,
              shipping |-> 0..1000, coupon |-> Discount, points |-> Discount, warranty |-> Months,
              returns |-> Days, stock |-> Stock, hours |-> Hours, rating |-> 0..100,
              count |-> ReviewCount]
BreakdownModel == [budget |-> Amount, listed |-> Cost, reference |-> Amount, quantity |-> 1..200,
                   shipping |-> Fee, fees |-> 0..1000, coupon |-> 0..4000, points |-> 0..2000,
                   hours |-> Hours, stock |-> Stock]
SetupModel == [budget |-> Budget, ram |-> RamSize, storage |-> DiskSize, psu |-> 0..3000,
               weight |-> 0..100, battery |-> 0..200]
BlueprintModel == [budget |-> Budget]
UpgradeModel == [ram |-> 0..512, ramSlots |-> 0..16, ramUsed |-> 0..16, diskSlots |-> 0..12,
                 diskUsed |-> 0..12, psu |-> 0..3000, years |-> 1..8]
BenchmarkModel == [cpuTemp |-> 0..130, gpuTemp |-> 0..130]
WarrantyModel == [cost |-> Cost, returns |-> Days, doa |-> Days, months |-> Months, fee |-> Fee,
                  restocking |-> 0..100]
OwnershipModel == [cost |-> Cost, years |-> 1..8, rate |-> 0..100, upkeep |-> 0..1000, upgrade |-> Total,
                   months |-> Months, downtime |-> Days, daily |-> Fee]
AftercareModel == [paid |-> Total, expected |-> Total, returns |-> Days, months |-> Months]
DefectModel == [paid |-> Amount]
OutcomeModel == [plan |-> Amount, paid |-> Amount, budget |-> Amount, satisfaction |-> 0..10]
NegotiationModel == [current |-> Amount, wish |-> Amount, budget |-> Amount,
                     competing |-> Amount, ship |-> Fee, bundle |-> 0..1000, stock |-> Stock]
StressModel == [budget |-> Amount, target |-> Amount, wait |-> Days]
SeenPriceModel == [listed |-> Amount, shipping |-> 0..1000, discount |-> 0..15000, age |-> 0..525600,
                   stock |-> Stock]
TrustModel == [report |-> Amount]
MistakeModel == [budget |-> Budget, quantity |-> 1..200]
RescueModel == [budget |-> Budget, blockers |-> Count, warnings |-> Count]
CustomModel == [budget |-> Budget]
OfferModel == [listed |-> Amount, fees |-> 0..1500, discount |-> Discount, ram |-> RamSize,
               storage |-> DiskSize, warranty |-> Months, returns |-> Days]
ConsensusModel == [budget |-> Amount]
StakeholderModel == [budget |-> Amount]
DefenseModel == [budget |-> Budget, price |-> Amount, confidence |-> 0..100]

\* A budget of the agent is not negative.
AgentModel == [budget |-> Nat]

\* A budget in the address of a page that chooses from the catalog may be anything.
CatalogModel == [budget |-> Int]

\* The first boot and the quiz.
Unbounded == [c \in {} |-> {}]

\* The kits, by their routes.
Kits == {"reply", "journey", "final", "lock", "execution", "reviewer", "triage", "review", "scanner", "decoder",
         "nudge", "terms", "cart", "page", "seller", "approval", "deal", "breakdown", "setup", "blueprint",
         "upgrade", "benchmark", "warranty", "ownership", "aftercare", "boot", "defect", "outcome", "negotiation",
         "stress", "trust", "mistake", "analyze", "compare", "timing", "watch", "rescue", "checklist", "quiz",
         "custom", "consensus", "defense"}

Model(kit) ==
    CASE kit = "reply"     -> ReplyModel
      [] kit = "journey"   -> JourneyModel
      [] kit = "final"     -> FinalModel
      [] kit = "lock"      -> LockModel
      [] kit = "execution" -> ExecutionModel
      [] kit = "reviewer"  -> ReviewerModel
      [] kit = "triage"    -> TriageModel
      [] kit = "review"    -> ReviewModel
      [] kit = "scanner"   -> ScannerModel
      [] kit = "decoder"   -> DecoderModel
      [] kit = "nudge"     -> NudgeModel
      [] kit = "terms"     -> TermsModel
      [] kit = "cart"      -> CartModel
      [] kit = "page"      -> PageModel
      [] kit = "seller"    -> SellerModel
      [] kit = "approval"  -> ApprovalModel
      [] kit = "deal"      -> DealModel
      [] kit = "breakdown" -> BreakdownModel
      [] kit = "setup"     -> SetupModel
      [] kit = "blueprint" -> BlueprintModel
      [] kit = "upgrade"   -> UpgradeModel
      [] kit = "benchmark" -> BenchmarkModel
      [] kit = "warranty"  -> WarrantyModel
      [] kit = "ownership" -> OwnershipModel
      [] kit = "aftercare" -> AftercareModel
      [] kit = "defect"    -> DefectModel
      [] kit = "outcome"   -> OutcomeModel
      [] kit = "negotiation" -> NegotiationModel
      [] kit = "stress"    -> StressModel
      [] kit = "trust"     -> TrustModel
      [] kit = "mistake"   -> MistakeModel
      [] kit = "analyze"   -> AgentModel
      [] kit \in {"compare", "timing", "watch", "checklist"} -> CatalogModel
      [] kit = "rescue"    -> RescueModel
      [] kit = "custom"    -> CustomModel
      [] kit = "consensus" -> ConsensusModel
      [] kit = "defense"   -> DefenseModel
      [] OTHER             -> Unbounded

\* The amounts that need not be given.
Optional(kit) ==
         {"price", "total", "rating", "count", "storage", "reference", "lowest", "hours", "stock", "psu", "weight",
          "battery", "cpuTemp", "gpuTemp", "rate", "paid", "expected", "plan", "wish", "competing", "report"}
    \cup (IF kit = "page" THEN {"shipping", "discount"} ELSE {})
    \cup (IF kit \in {"execution", "reviewer", "deal", "breakdown", "outcome", "negotiation", "consensus",
                     "analyze", "compare", "timing", "watch", "checklist"} THEN {"budget"} ELSE {})
    \cup (IF kit = "deal" THEN {"warranty", "returns"} ELSE {})
    \cup (IF kit = "upgrade" THEN {} ELSE {"ram"})

Fits(r, model, optional) ==
    \A field \in DOMAIN model : r[field] \in model[field] \/ (field \in optional /\ r[field] = None)

\* The lists that carry a decision from kit to kit, and those whose length or items decide.
ListsOf(kit) ==
    CASE kit = "reply" -> {"notes", "ready", "missing"}
      [] kit = "journey" -> {"reviews", "ready", "missing"}
      [] kit = "final" -> {"ready", "missing", "blocking", "doubts"}
      [] kit = "analyze" -> {"needs"}
      [] kit = "custom" -> {"offers"}
      [] kit = "cart" -> {"items"}
      [] kit = "consensus" -> {"stakeholders"}
      [] kit = "quiz" -> {"answers"}
      [] OTHER -> {}
Signals == {"price", "checkout", "compatibility", "review", "warranty", "evidence"}

Accepted(r) ==
    /\ r.kit \in Kits
    /\ Fits(r, Model(r.kit), Optional(r.kit))
    /\ \A list \in ListsOf(r.kit) : List(r[list])
    /\ r.kit = "final" =>
           r.status \in [Signals -> Verdict] /\ r.score \in [Signals \ {"evidence"} -> 0..100]
    /\ r.kit = "cart" => \A item \in Elements(r.items) : Fits(item, CartItemModel, {"price"})
    /\ r.kit = "trust" => \A seen \in Elements(r.candidates) : Fits(seen, SeenPriceModel, {"age", "stock"})
    /\ r.kit = "lock" => r.locked.parts \subseteq {"cpu", "gpu", "os", "warranty", "return"}
    /\ r.kit = "custom" =>
           /\ Len(r.offers) \in 2..6
           /\ \A offer \in Elements(r.offers) :
               /\ Fits(offer, OfferModel, {"ram", "storage", "warranty", "returns"})
               /\ List(offer.risks)
    /\ r.kit = "page" => r.amounts \subseteq Nat
    /\ r.kit = "consensus" =>
           /\ Len(r.stakeholders) <= 8
           /\ \A s \in Elements(r.stakeholders) :
               Fits(s, StakeholderModel, {"budget"}) /\ List(s.musts) /\ List(s.breakers)
    /\ r.kit = "defense" => r.alternatives <= 5
=============================================================================
