---------------------------- MODULE PurchaseCase ----------------------------
(* One purchase, carried through the public decision kits.  The buyer posts *)
(* a request to a kit, reads its answer, and either posts one of the        *)
(* requests that the answer fills in for another kit or posts the same      *)
(* request with one fact changed for the worse.                             *)
(*                                                                          *)
(* The kits keep nothing: a case is the request that was posted last.       *)
EXTENDS CheckoutKits, ListingKits, OfferKits, BuildKits, OwnerKits, PriceKits, ChoiceKits, BuyerKits,
        PurchaseAgent, RequestModels, FiniteSetsExt

CONSTANTS
    Posted,            \* the requests that a case starts with
    Worse(_, _),       \* Worse(field, value): values of the field that speak against a purchase more
    MaxChanges         \* bound on the changes of a case

ASSUME ChangesAssumption == MaxChanges \in Nat
ASSUME PostedAssumption == \A r \in Posted : Accepted(r)

VARIABLES
    request,           \* the request that was posted last
    changes            \* how many facts have changed

vars == <<request, changes>>

-----------------------------------------------------------------------------
(* api/main.py: one route for each kit.                                     *)

KitAnswer(r) ==
    CASE r.kit = "reply"     -> ReplyKit(r)
      [] r.kit = "journey"   -> JourneyKit(r)
      [] r.kit = "final"     -> FinalKit(r)
      [] r.kit = "lock"      -> LockKit(r)
      [] r.kit = "execution" -> ExecutionKit(r)
      [] r.kit = "reviewer"  -> ReviewerKit(r)
      [] r.kit = "triage"    -> TriageKit(r)
      [] r.kit = "review"    -> ReviewKit(r)
      [] r.kit = "scanner"   -> ScannerKit(r)
      [] r.kit = "decoder"   -> DecoderKit(r)
      [] r.kit = "nudge"     -> NudgeKit(r)
      [] r.kit = "terms"     -> TermKit(r)
      [] r.kit = "cart"      -> CartKit(r)
      [] r.kit = "page"      -> PageKit(r)
      [] r.kit = "seller"    -> SellerKit(r)
      [] r.kit = "approval"  -> ApprovalKit(r)
      [] r.kit = "deal"      -> DealKit(r)
      [] r.kit = "breakdown" -> BreakdownKit(r)
      [] r.kit = "setup"     -> SetupKit(r)
      [] r.kit = "blueprint" -> BlueprintKit(r)
      [] r.kit = "upgrade"   -> UpgradeKit(r)
      [] r.kit = "benchmark" -> BenchmarkKit(r)
      [] r.kit = "warranty"  -> WarrantyKit(r)
      [] r.kit = "ownership" -> OwnershipKit(r)
      [] r.kit = "aftercare" -> AftercareKit(r)
      [] r.kit = "boot"      -> FirstBootKit(r)
      [] r.kit = "defect"    -> DefectKit(r)
      [] r.kit = "outcome"   -> OutcomeKit(r)
      [] r.kit = "negotiation" -> NegotiationKit(r)
      [] r.kit = "stress"    -> StressKit(r)
      [] r.kit = "trust"     -> TrustKit(r)
      [] r.kit = "mistake"   -> MistakeKit(r)
      [] r.kit = "analyze"   -> AgentKit(r)
      [] r.kit = "compare"   -> CompareKit(r)
      [] r.kit = "timing"    -> TimingKit(r)
      [] r.kit = "watch"     -> WatchKit(r)
      [] r.kit = "rescue"    -> RescueKit(r)
      [] r.kit = "checklist" -> ChecklistKit(r)
      [] r.kit = "quiz"      -> QuizKit(r)
      [] r.kit = "custom"    -> CustomKit(r)
      [] r.kit = "consensus" -> ConsensusKit(r)
      [] r.kit = "defense"   -> DefenseKit(r)
      [] OTHER               -> Failed

\* A kit that fills in a request that its model rejects raises.
Checked(answer) == IF \A handoff \in answer.handoffs : Accepted(handoff) THEN answer ELSE Failed
AnswerTo(r) == Checked(KitAnswer(r))

Init ==
    /\ request \in Posted
    /\ changes = 0

Follow ==
    /\ request' \in AnswerTo(request).handoffs
    /\ UNCHANGED changes

Worsen ==
    /\ changes < MaxChanges
    /\ changes' = changes + 1
    /\ \E field \in DOMAIN request \ {"kit", "category"} :
           \E value \in Worse(field, request[field]) :
               LET worse == [request EXCEPT ![field] = value]
               IN  /\ Accepted(worse)
                   /\ request' = worse

Next == Follow \/ Worsen

Spec == Init /\ [][Next]_vars

-----------------------------------------------------------------------------
Answers == AnswerTo(request)

\* A request of an ordinary size: what it names stays within the smallest model that it can be
\* carried to, a cart is short and its total as well, and the scanner is told the total.
Smallest == [budget |-> 3000, total |-> 3000, price |-> 3000, listed |-> 5000, shipping |-> 500,
             coupon |-> 4000, points |-> 2000]
Ordinary(r) ==
    /\ \A field \in DOMAIN Model(r.kit) \cap DOMAIN Smallest : ~Over(r[field], Smallest[field])
    /\ r.kit = "cart" => Len(r.items) <= 9 /\ CartTotal(r) \in Total \cup {None}
    /\ r.kit = "scanner" => r.total # None

\* An ordinary request is answered: no kit fills in a request that the model of the next one
\* rejects, such as a negative total or a count beyond its bound.
OrdinaryIsAnswered == Ordinary(request) => Answers.verdict # "failed"

\* A price of the catalog in units of 10,000 won, rounded up.
Rounded(price) == -((-price) \div 10)

\* What a request would cost, for the kits that weigh it against the budget, as they compute it.
CostOf(r) ==
    CASE r.kit \in {"reply", "journey", "final", "lock", "execution"} -> r.price
      [] r.kit \in {"triage", "scanner"} -> r.total
      [] r.kit = "cart" -> CartTotal(r)
      [] r.kit = "page" -> EffectivePrice(r)
      [] r.kit = "deal" -> DealPrice(r)
      [] r.kit = "breakdown" -> Paid(r)
      [] r.kit = "stress" -> r.target
      [] r.kit = "analyze" -> Rounded(Ranked(r)[1].price)
      [] r.kit = "compare" -> Rounded(Compared(r)[1].price)
      [] r.kit = "timing" -> Rounded(Lead(Windows(r)).price)
      [] r.kit = "watch" -> Rounded(Watched(Windows(r)).price)
      [] r.kit = "custom" -> CustomItems(r)[1].price
      [] OTHER -> None

\* What a kit advises to spend, in units of 10 won.
Advised(r) ==
    CASE r.kit = "blueprint" -> 100 * PlannedTotal(Components(r))
      [] r.kit = "negotiation" -> 10 * NotBelow(MaxAcceptable(r), FairOffer(r))
      [] r.kit = "analyze" -> Max({AlertTarget(p, r) : p \in Elements(First(Ranked(r), 3))})
      [] r.kit \in {"timing", "watch"} -> Max({window.target : window \in Elements(Windows(r))})
      [] OTHER -> None

\* The budget that a kit goes by: the catalog's kits take one below 300,000 won for 300,000 won.
GoesBy(r) == IF r.kit \in {"compare", "timing", "watch"} THEN NotBelow(r.budget, 30) ELSE r.budget

\* A kit whose price is in CostOf never recommends a purchase over the budget it goes by, however many
\* other flags it has to show and whatever it cuts from them; the parts that a blueprint plans, the
\* offers that the negotiation proposes and the targets that the agent and the price watch set stay
\* within that budget as well.  The approval, the reviewer and the defence are not in CostOf: they
\* can be ok over the budget.  The watch calls at a price that is at most 1 % over it.  A budget of 0
\* counts as none.
SpendsWithinBudget ==
    "budget" \in DOMAIN Model(request.kit) /\ OrZero(request.budget) > 0 =>
        /\ ~(Over(CostOf(request), GoesBy(request)) /\ Answers.verdict = "ok")
        /\ ~Over(Advised(request), 1000 * GoesBy(request))
        /\ request.kit = "watch" => AlertThreshold(Watched(Windows(request))) <= 1010 * GoesBy(request)

\* The scanner finds its evidence in any mention of a policy, a refusal among them.
TakenForEvidence(r, s) == r.kit = "scanner" /\ MissingEvidence(s) # MissingEvidence(r)

\* The cost of ownership reads its own remark that there is no risk as a risk, until there is one.
TakenForRisk(r) == r.kit = "ownership" /\ NoRiskTakenForRisk(r)

\* The candidate that a kit judges, of those it chooses from.
Chosen(r) ==
    CASE r.kit = "trust" -> Selected(r).seller
      [] r.kit = "custom" -> CustomItems(r)[1].number
      [] r.kit = "compare" -> Compared(r)[1].number
      [] r.kit = "timing" -> Lead(Windows(r)).price
      [] r.kit = "watch" -> Watched(Windows(r)).price
      [] r.kit = "analyze" -> Ranked(r)[1].number
      [] OTHER -> None

\* A kit that chooses judges another candidate when the one it had chosen is no longer the best.
JudgesAnother(r, s) == Chosen(r) # Chosen(s)

NotBetter(after, before) == "failed" \in {before, after} \/ Rank(after) >= Rank(before)

\* The risks that a kit lists, as its verdict reads them, and how many it keeps.
RiskList(r) ==
    CASE r.kit = "reply" -> <<ReplyFlags(r), 8>>
      [] r.kit = "seller" -> <<SellerRisks(r), 8>>
      [] r.kit = "page" -> <<PageFlags(r), 10>>
      [] OTHER -> <<<<>>, 0>>

\* A full list no longer holds a risk that it had held.
PushedOut(old, new, limit) == Len(new) = limit /\ ~(Elements(old) \subseteq Elements(new))

\* The lists of four kits start with the risks that the buyer names: one more of them, however small,
\* pushes out what the kit had found by itself.
PushesOut(r, s) ==
    \/ PushedOut(RiskList(r)[1], RiskList(s)[1], RiskList(s)[2])
    \/ /\ r.kit = "custom"
       /\ \E i \in DOMAIN r.offers : PushedOut(CustomRisks(r.offers[i]), CustomRisks(s.offers[i]), 8)

\* No fact that speaks against a purchase improves the verdict of a kit, except where the kit takes
\* the fact for something else, turns to another candidate, or has no room left for a risk that it
\* had held against the purchase.
WorseIsNeverBetter ==
    [][Worsen =>
           \/ NotBetter(AnswerTo(request').verdict, AnswerTo(request).verdict)
           \/ TakenForEvidence(request, request')
           \/ TakenForRisk(request)
           \/ JudgesAnother(request, request')
           \/ PushesOut(request, request')]_vars

\* The kits that pass a decision on, and those they pass it to.
Decisions ==
    {<<"reply", "journey">>, <<"journey", "final">>, <<"final", "execution">>, <<"final", "reviewer">>,
     <<"lock", "execution">>, <<"cart", "scanner">>, <<"cart", "approval">>, <<"page", "seller">>,
     <<"seller", "approval">>}

\* What speaks against a purchase and is not said to the next kit: the community reply, when it has
\* more to say, keeps a refusal in the usage context to itself, and any beyond its tenth remark, and
\* what a remark says of 8 %; the cart tells the scanner its total, and neither what is missing in
\* it nor what it doubts.
Rest(items) == SubSeq(items, 11, Len(items))
Unsaid(r, next) ==
    \/ /\ r.kit = "reply" /\ r.notes \o r.missing # <<>>
       /\ \/ Refused(r.usage \cup AllOf(Rest(r.notes)) \cup AllOf(Rest(r.missing)))
          \/ "far over budget" \in AllOf(r.notes)
    \/ r.kit = "cart" /\ next = "scanner" /\ ~Over(CartTotal(r), r.budget)

\* A kit that is handed a held purchase holds it too, unless the reason is not said.
HoldIsKept ==
    [][/\ Follow
       /\ <<request.kit, request'.kit>> \in Decisions /\ ~Unsaid(request, request'.kit)
       /\ AnswerTo(request).verdict = "blocker"
       => AnswerTo(request').verdict = "blocker"]_vars
=============================================================================
