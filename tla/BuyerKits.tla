------------------------------ MODULE BuyerKits ------------------------------
(* The public kits that decide among what the buyers bring: candidates that *)
(* they found themselves, the conditions of all who have a say, and the     *)
(* defence of a decision that is made.                                      *)
(*                                                                          *)
(* Amounts are in units of 10,000 won.  Scores that the code rounds to one  *)
(* decimal are in tenths.                                                   *)
EXTENDS AgentCatalog, SequencesExt, FiniteSetsExt

Hardest == {"used", "imported", "noReturn", "noSupport"}
Hard(flag) == flag \cap Hardest # {}

-----------------------------------------------------------------------------
(* services/custom_candidate_decision.py: two to six candidates.  "given"   *)
(* names the texts that a candidate comes with; the card is told by "gpu".  *)

CustomPrice(c) == NotBelow(c.listed + c.fees - c.discount, 0)

NewCards == {"RTX4070", "RTX4080", "RX7800"}
CustomFit(c, purpose) ==
    LET gaming == CASE c.gpu \in NewCards -> 30 [] c.gpu \in {"RTX4060", "RX7600"} -> 16 [] OTHER -> -8
        editing == 14 * One(OrZero(c.ram) >= 32) + 10 * One(OrZero(c.storage) >= 1000)
                   + 12 * One(c.gpu \in {"RTX4070", "RTX4080", "RTX4060"})
        portable == 22 * One("laptop" \in c.title) + 8 * One(OrZero(c.ram) >= 16)
        office == 14 * One(OrZero(c.warranty) >= 24) + 8 * One(OrZero(c.returns) >= 7)
    IN  Score(44 + gaming * One("game" \in purpose) + editing * One("edit" \in purpose)
                 + portable * One("portable" \in purpose) + office * One("office" \in purpose))

\* How the price fits the budget, times the budget and 100.
CustomRoom(price, budget) ==
    IF price <= budget THEN 8200 * budget + AtMost(5500 * (budget - price), 1540 * budget)
    ELSE NotBelow(7600 * budget - 15000 * (price - budget), 1200 * budget)

CustomEvidence(c) ==
    AtMost(35 + 12 * One("url" \in c.given) + 8 * One("seller" \in c.given) + 8 * One("cpu" \in c.given)
              + 8 * One(c.gpu # None) + 7 * One(OrZero(c.ram) > 0) + 7 * One(OrZero(c.storage) > 0)
              + 5 * One("os" \in c.given) + 10 * One(c.evidence # {}), 100)

CustomProtection(c) ==
    LET warranty == IF c.warranty = None THEN 0 ELSE IF c.warranty >= 24 THEN 22
                    ELSE IF c.warranty >= 12 THEN 12 ELSE -8
        returns == IF c.returns = None THEN 0 ELSE IF c.returns >= 7 THEN 18 ELSE -8
    IN  45 + warranty + returns + 10 * One(c.risks = <<>>)

StockScore(stock) ==
    CASE stock = "in_stock" -> 90 [] stock = "limited" -> 55 [] stock = "sold_out" -> 10 [] OTHER -> 42

\* The risks that the candidate names, a label for each risk found in its texts unless the risk is
\* named in the words of the label, and whether it is sold out.
Label(word) == IF word \in {"noReturn", "noSupport"} THEN {word} ELSE {word, "label"}
CustomRisks(c) ==
    LET found == (c.title \cup c.evidence \cup AllOf(c.risks))
        label(word) == When(word \in found /\ ~Contains(c.risks, Label(word)), Label(word))
    IN  First(c.risks \o label("used") \o label("imported") \o label("noReturn") \o label("noSupport")
                  \o label("FreeDOS") \o When(c.stock = "sold_out", {"soldOut"}), 8)

CustomScore(c, budget, purpose) ==
    LET risks == CustomRisks(c)
        known == 34 * CustomFit(c, purpose) + 18 * CustomEvidence(c) + 12 * CustomProtection(c)
                 + 8 * StockScore(c.stock)
        penalty == AtMost(7 * Len(risks), 26) + 18 * One(\E risk \in Elements(risks) : Hard(risk))
    IN  Clamp(Round(25 * budget * known + 7 * CustomRoom(CustomPrice(c), budget) - 2500 * budget * penalty,
                    250 * budget), 0, 1000)

CustomStatus(c, score, budget) ==
    LET risks == CustomRisks(c)
        blocked == score < 580 \/ c.stock = "sold_out" \/ \E risk \in Elements(risks) : Hard(risk)
    IN  CASE blocked -> "blocker"
          [] ~blocked /\ (score < 820 \/ CustomPrice(c) > budget \/ risks # <<>>) -> "warning"
          [] OTHER -> "ok"

CustomItems(r) ==
    LET purpose == IF r.purpose # {} THEN r.purpose
                   ELSE {"edit"} \cup {IF r.category = "laptop" THEN "portable" ELSE "game"}
        item(i) == LET c == r.offers[i]
                       score == CustomScore(c, r.budget, purpose)
                   IN  [number |-> i, price |-> CustomPrice(c), score |-> score,
                        status |-> CustomStatus(c, score, r.budget)]
    IN  ByScore([i \in DOMAIN r.offers |-> item(i)], LAMBDA i : i.score)

\* Mutant: a winner that is only doubtful is bought.
CustomDecisionBlocksOnly(items) == IF items[1].status = "blocker" THEN "blocker" ELSE "ok"

\* _decision: a candidate that is blocked leaves the purchase to verify, even one that has lost.
CustomDecision(items) ==
    CASE items[1].status = "blocker" -> "blocker"
      [] items[1].status # "blocker"
            /\ (items[1].status = "warning" \/ \E i \in Elements(items) : i.status = "blocker") -> "warning"
      [] OTHER -> "ok"

CustomConfidence(items) ==
    Clamp(items[1].score + AtMost(items[1].score - items[2].score, 120)
              - 50 * Cardinality({n \in DOMAIN items : items[n].status = "blocker"}), 350, 960)

CustomKit(r) ==
    LET items == CustomItems(r)
        cheapest == ByRank(items, LAMBDA i : i.price)[1]
        fastest == ByScore(items, LAMBDA i : 20 * i.score + i.price)[1]
        safest == ByScore(items, LAMBDA i : 10000 * One(i.status = "ok") + i.score)[1]
    IN  Answer(CustomDecision(items), CustomConfidence(items),
               [winner |-> items[1].status, budget |-> cheapest.status, performance |-> fastest.status,
                risk |-> safest.status], {})

-----------------------------------------------------------------------------
(* services/requirements_consensus.py                                       *)

PriorityWeight(priority) == CASE priority = "high" -> 3 [] priority = "low" -> 1 [] OTHER -> 2

\* _stakeholders: one buyer when nobody is named, the first eight otherwise.
Stakeholders(r) ==
    IF r.stakeholders # <<>> THEN First(r.stakeholders, 8)
    ELSE <<[priority |-> "high", budget |-> r.budget, musts |-> <<"fit", "support">>, nices |-> <<>>,
            breakers |-> <<"noReturn", "mismatch">>, timeline |-> r.timing, risk |-> "medium"]>>

\* The weight of what some of them have said, by who has said it and where; counted: none weighs
\* more than 3.
TotalWeight(all, said) == Cardinality({w \in said \X (1..3) : w[2] <= PriorityWeight(all[w[1][1]].priority)})

\* All that the eight name, in their order.
Named(all, TermsOf(_)) ==
    LET terms(i) == IF i \in DOMAIN all THEN TermsOf(all[i]) ELSE <<>>
    IN  terms(1) \o terms(2) \o terms(3) \o terms(4) \o terms(5) \o terms(6) \o terms(7) \o terms(8)

\* _budget_krw: the shared budget, or the median of the budgets by the weight of those who have one.
\* A budget of 0 counts as none.
AgreedBudget(r) ==
    LET all == Stakeholders(r)
        paying == {i \in DOMAIN all : OrZero(all[i].budget) > 0}
        weightOf(some) == TotalWeight(all, some \X {1})
        upTo(amount) == weightOf({i \in paying : all[i].budget <= amount})
    IN  CASE OrZero(r.budget) > 0 -> r.budget
          [] OrZero(r.budget) = 0 /\ paying # {} ->
                Min({all[i].budget : i \in {j \in paying : upTo(all[j].budget) > weightOf(paying) \div 2}})
          [] OTHER -> IF r.category = "laptop" THEN 160 ELSE 220

\* _weighted_terms: the conditions of weight 2 or more, the heaviest first; the code breaks ties by
\* the name of the condition, here it is by who comes first.
AgreedMusts(r) ==
    LET all == Stakeholders(r)
        places(i, term) == {j \in DOMAIN all[i].musts : all[i].musts[j] = term}
        weight(term) == TotalWeight(all, UNION {{i} \X places(i, term) : i \in DOMAIN all})
        sorted == ByScore(Distinct(Named(all, LAMBDA s : s.musts)), weight)
    IN  First(Only(sorted, LAMBDA term : weight(term) >= 2), 10)
AgreedExclusions(r) ==
    First(Distinct(Named(Stakeholders(r), LAMBDA s : s.breakers)), 10)

TermConflict(must, breaker) ==
    \/ must = breaker
    \/ must = "externalGPU" /\ breaker = "gaming"
    \/ must = "Windows" /\ breaker = "FreeDOS"

\* _conflicts, each with the status it has, ok when there is none.
Conflicts(r) ==
    LET all == Elements(Stakeholders(r))
        budgets == {s.budget : s \in {s \in all : OrZero(s.budget) > 0}}
        low == Min(budgets)
        high == Max(budgets)
        apart == budgets # {} /\ high - low >= NotBelow(20, Percent(AgreedBudget(r), 18))
    IN  [budget_spread |-> IF ~apart THEN "ok" ELSE IF 100 * high > 135 * low THEN "blocker" ELSE "warning",
         timing |-> FoundVerdict({"urgent", "wait"} \ {s.timeline : s \in all} # {}),
         risk |-> MatchVerdict(~ /\ \E s \in all : s.risk = "low"
                                 /\ \E s \in all : Elements(s.musts \o s.nices) \cap {"used", "imported"} # {}),
         overlap |-> MatchVerdict(\A s, t \in all : \A must \in Elements(s.musts), breaker \in Elements(t.breakers) :
                                      ~TermConflict(must, breaker)),
         single |-> FoundVerdict(Len(Stakeholders(r)) # 1)]

ConsensusScore(r) ==
    LET conflicts == Conflicts(r)
        many == Len(Stakeholders(r))
    IN  Score(88 + 5 * One(many >= 3) - 10 * One(many = 1) + AtMost(2 * Len(AgreedMusts(r)), 6)
                 - 18 * Tally(conflicts, "blocker") - 9 * Tally(conflicts, "warning"))
ConsensusStatus(r) ==
    Worst(Values(Conflicts(r)) \cup {AtLeast(ConsensusScore(r), 58, 82)})

\* _recommended_request: what they agree on goes to the purchase agent.
RecommendedRequest(r) ==
    [kit |-> "analyze", category |-> r.category, budget |-> AgreedBudget(r), purpose |-> r.purpose,
     needs |-> AgreedMusts(r), refuses |-> AgreedExclusions(r)]

ConsensusKit(r) == Answer(ConsensusStatus(r), ConsensusScore(r), Conflicts(r), {RecommendedRequest(r)})

-----------------------------------------------------------------------------
(* services/decision_defense.py                                             *)

HardWatchout(item) == Hard(item) \/ "overBudget" \in item
DefenseWatchouts(r) == First(r.watchouts, 8)

DefensePrice(r) ==
    CASE r.price = None -> -8
      [] r.price # None -> (CASE r.price > r.budget -> IF 100 * (r.price - r.budget) >= 5 * r.budget THEN -18 ELSE -10
                              [] 100 * r.price <= 95 * r.budget -> 6
                              [] OTHER -> 0)
DefenseScore(r) ==
    LET watchouts == DefenseWatchouts(r)
    IN  Score(r.confidence + AtMost(3 * AtMost(r.proven, 8), 12) - AtMost(6 * Len(watchouts), 24)
                 + 8 * One(r.decision = "ready") - 22 * One(r.decision = "hold") + DefensePrice(r)
                 - 18 * One(\E item \in Elements(watchouts) : HardWatchout(item)))

\* The price weighs on the score alone: a defence may stand over the budget.
DefenseStatus(r) ==
    LET watchouts == DefenseWatchouts(r)
        lost == \E item \in Elements(watchouts) : HardWatchout(item)
        given == CASE r.decision = "hold" -> "blocker" [] r.decision = "verify" -> "warning" [] OTHER -> "ok"
    IN  Worst({given, AtLeast(DefenseScore(r), 55, 82), MatchVerdict(~lost), FoundVerdict(watchouts = <<>>)})

\* The six objections; the first blocks a price over the budget.
Objections(r) ==
    LET status == DefenseStatus(r)
        watchouts == DefenseWatchouts(r)
    IN  [price |-> CASE r.price = None -> "warning" [] Over(r.price, r.budget) -> "blocker"
                     [] OTHER -> MatchVerdict(status # "blocker"),
         cheaper |-> FoundVerdict(r.alternatives = 0),
         purpose_fit |-> "ok",
         risk |-> IF watchouts = <<>> THEN "ok" ELSE status,
         timing |-> FoundVerdict(AllOf(watchouts) \cap {"price", "stock"} = {}),
         trust |-> FoundVerdict(AtMost(r.proven, 8) >= 3)]

DefenseKit(r) == Answer(DefenseStatus(r), DefenseScore(r), Objections(r), {})
=============================================================================
