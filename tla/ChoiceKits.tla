----------------------------- MODULE ChoiceKits -----------------------------
(* The public kits that choose from the catalog: the comparison of its      *)
(* candidates, when to buy one, the price to watch for, the rescue from a   *)
(* bad offer, and the checklist and quiz that come first.                   *)
(*                                                                          *)
(* A purpose is the set of the words found in it: qhd, game, edit, portable *)
(* and office.  Scores are in tenths, prices in 1,000 won, targets in 10.   *)
EXTENDS AgentCatalog

\* A budget that is not given, or not above 0, is the usual one; a purpose that is empty as well.
UsualBudget(category) == IF category = "laptop" THEN 2000 ELSE 2200
LimitOf(r) ==
    IF OrZero(r.budget) <= 0 THEN UsualBudget(r.category) ELSE Clamp(10 * r.budget, 300, 30000)
PurposeOf(r) ==
    IF r.purpose # {} THEN r.purpose
    ELSE {"edit"} \cup {IF r.category = "laptop" THEN "portable" ELSE "qhd"}

Tagged(p, tags) == p.specs.tags \cap tags # {}
Editing == {"video_editing", "creator", "portable_creator"}
Portable == {"portable_creator", "lightweight", "student"}

-----------------------------------------------------------------------------
(* services/candidate_compare.py                                            *)

CompareFit(p, purpose) ==
    Score(48 + One(purpose \cap {"qhd", "game"} # {}) * (IF Tagged(p, {"qhd_gaming", "qhd_entry"}) THEN 18 ELSE -4)
             + One("edit" \in purpose) * (IF Tagged(p, Editing) THEN 18 ELSE -3)
             + One("portable" \in purpose) * (IF Tagged(p, Portable) THEN 18 ELSE -5)
             + 14 * One("office" \in purpose /\ Tagged(p, {"office", "business", "developer"}))
             - 10 * One(Tagged(p, {"over_budget"})) + 6 * One(Tagged(p, {"low_risk", "balanced"})))

RoomScore(price, budget) ==
    IF price <= budget
    THEN 820 + Round(AtMost(600 * (budget - price), 180 * budget), budget)
    ELSE NotBelow(Round(760 * budget - 1300 * (price - budget), budget), 150)

CompareScore(p, budget, purpose) ==
    Round(380 * CompareFit(p, purpose) + 26 * RoomScore(p.price, budget) + 220 * p.trust
              + 100 * PurchaseStability(p) + 1000 * (IF p.source \in {"official_store", "price_compare"} THEN 4 ELSE 1),
          100)

CompareStatus(p, score, budget) ==
    CASE p.price - budget > 250 \/ score < 550 -> "blocker"
      [] p.price - budget <= 250 /\ score >= 550
            /\ (p.price > budget \/ p.trust < 82 \/ p.limited \/ Tagged(p, {"over_budget"})) -> "warning"
      [] OTHER -> "ok"

\* The candidates with their scores, the best first.
Compared(r) ==
    LET budget == LimitOf(r)
        item(p) == LET score == CompareScore(p, budget, PurposeOf(r))
                   IN  [number |-> p.number, price |-> p.price, gap |-> p.price - budget, score |-> score,
                        status |-> CompareStatus(p, score, budget)]
    IN  ByScore(Each(Products(r.category), item), LAMBDA i : i.score)

\* The winners of the axes; the scenarios weigh the price of the performance less than the axis does.
Cheapest(items) == ByRank(items, LAMBDA i : i.price)[1]
Fastest(items, weight) == ByScore(items, LAMBDA i : weight * i.score + NotBelow(i.gap, 0))[1]
Safest(items) == ByScore(items, LAMBDA i : 10000 * One(i.status = "ok") + i.score)[1]

CompareKit(r) ==
    LET items == Compared(r)
        checks == [winner |-> items[1].status, cheapest |-> Cheapest(items).status,
                   fastest |-> Fastest(items, 10).status, fast_scenario |-> Fastest(items, 12).status,
                   safest |-> Safest(items).status]
    IN  Answer(items[1].status, items[1].score, checks, {})

-----------------------------------------------------------------------------
(* services/deal_timing.py                                                  *)

TimingRank(p, purpose) ==
    52 * p.trust + 34 * PurchaseStability(p)
    + 1000 * One("qhd" \in purpose /\ Tagged(p, {"qhd_gaming", "qhd_entry"}))
    + 1000 * One("edit" \in purpose /\ Tagged(p, Editing))
    + 900 * One("portable" \in purpose /\ Tagged(p, Portable)) - 1200 * One(Tagged(p, {"over_budget"}))

WindowTarget(price, budget) ==
    IF price <= budget THEN AtMost(96 * price, 97 * budget) ELSE AtMost(94 * price, 100 * budget)
WindowStatus(p, budget) ==
    CASE 100 * p.price > 112 * budget -> "blocker"
      [] 100 * p.price <= 112 * budget /\ (p.price > budget \/ p.limited) -> "warning"
      [] OTHER -> "ok"

Windows(r) ==
    LET budget == LimitOf(r)
        window(p) == [price |-> p.price, target |-> WindowTarget(p.price, budget), status |-> WindowStatus(p, budget)]
    IN  Each(ByScore(Products(r.category), LAMBDA p : TimingRank(p, PurposeOf(r))), window)
WindowGap(window) == NotBelow(100 * window.price - window.target, 0)

\* The window to act on: the best status, of those the one closest to its target.
Lead(windows) ==
    ByRank(windows, LAMBDA w : 10000000 * Rank(w.status) + 100 * w.price - w.target)[1]

TimingKit(r) ==
    LET windows == Windows(r)
        checks == [n \in {"first", "second", "third"} |->
                       windows[CASE n = "first" -> 1 [] n = "second" -> 2 [] n = "third" -> 3].status]
    IN  Answer(Lead(windows).status, None, checks, {})

-----------------------------------------------------------------------------
(* services/price_watch.py                                                  *)

\* The price at which the watch calls: 1 % above the target, so above the budget as well when the
\* target is the budget.
AlertThreshold(window) ==
    IF window.status = "ok" THEN 100 * window.price
    ELSE AtMost(100 * window.price, (101 * window.target) \div 100)

\* The candidate to watch: one to wait for if there is one, the warnings first, the closest of them.
Watched(windows) ==
    LET waiting == Only(windows, LAMBDA w : w.status # "ok")
    IN  ByRank(ByRank(Or(waiting, windows), LAMBDA w : w.price),
               LAMBDA w : 10000000 * One(w.status # "warning") + WindowGap(w))[1]

WatchKit(r) ==
    LET windows == Windows(r)
    IN  Answer(Watched(windows).status, None, [lead |-> Lead(windows).status], {})

-----------------------------------------------------------------------------
(* services/spec_rescue.py                                                  *)

RescuePriority(r) ==
    CASE r.verdict = "hold" \/ r.blockers > 0 -> "blocker"
      [] r.verdict # "hold" /\ r.blockers = 0
            /\ (r.verdict = "verify" \/ r.warnings > 0 \/ r.missing # <<>>) -> "warning"
      [] OTHER -> "ok"

\* What is offered instead: not the product itself, the sound ones first, the cheapest over the
\* budget and then the best of them.  "product" is the number of the product in the catalog, or None
\* when the catalog has no such product.
Alternatives(r) ==
    LET over(i) == NotBelow(i.price - 10 * r.budget, 0)
        others == SelectSeq(Compared(r), LAMBDA i : i.number # r.product)
    IN  First(ByRank(others, LAMBDA i : 100000 * Rank(i.status) + over(i)), 3)

\* _decision_rule: it reads the counts, not the verdict.
RescueRule(r) == CASE r.blockers > 0 -> "blocker"
                   [] r.blockers = 0 /\ (r.warnings > 0 \/ r.missing # <<>>) -> "warning" [] OTHER -> "ok"

RescueKit(r) ==
    LET others == Alternatives(r)
    IN  Answer(RescuePriority(r), None,
               [rule |-> RescueRule(r), first |-> others[1].status, second |-> others[2].status,
                third |-> others[3].status], {})

-----------------------------------------------------------------------------
(* services/buyer_checklist.py                                              *)

ChecklistBudget(r) == AtMost(LimitOf(r), 10000)
MarketStatus(r) ==
    AtLeast(Cardinality({p \in Elements(Products(r.category)) : p.price <= ChecklistBudget(r)}), 1, 2)
ChecklistSections(r) ==
    [purpose |-> "ok", must_haves |-> "ok", exclusions |-> "warning", budget |-> MarketStatus(r),
     price_components |-> "warning", option_name |-> "blocker", seller_questions |-> "warning"]

\* What is open costs points; the state of the market costs them twice.
ReadinessScore(r) ==
    LET sections == ChecklistSections(r)
        market == MarketStatus(r)
    IN  Score(100 - 8 * Tally(sections, "warning") - 18 * Tally(sections, "blocker")
                  - (CASE market = "warning" -> 8 [] market = "blocker" -> 18 [] OTHER -> 0))

ChecklistKit(r) == Answer(MarketStatus(r), ReadinessScore(r), ChecklistSections(r), {})

-----------------------------------------------------------------------------
(* services/buyer_persona_quiz.py                                           *)

Personas == <<"team_buyer", "creator_gamer", "portable_creator", "budget_guard">>

\* _option_weights, in the order of Personas.
OptionWeights(option) ==
    CASE option = "creator_work"       -> <<0, 3, 0, 1>>
      [] option = "portable_work"      -> <<0, 0, 3, 1>>
      [] option \in {"team_refresh", "approval_delay", "rollout_schedule", "budget_team"} -> <<4, 0, 0, 0>>
      [] option = "performance_gap"    -> <<1, 3, 0, 0>>
      [] option = "portability_regret" -> <<0, 0, 3, 0>>
      [] option = "budget_overrun"     -> <<0, 0, 1, 4>>
      [] option = "buy_now"            -> <<0, 2, 1, 0>>
      [] option = "can_wait"           -> <<0, 1, 0, 3>>
      [] option = "budget_tight"       -> <<0, 0, 0, 4>>
      [] option = "budget_balanced"    -> <<0, 2, 2, 0>>
      [] option = "budget_premium"     -> <<0, 3, 1, 0>>
      [] OTHER                         -> <<0, 0, 0, 0>>

\* The weights are counted, answer by answer: none is above 4.
PersonaScore(answers, persona) ==
    Cardinality({w \in (DOMAIN answers) \X (1..4) : w[2] <= OptionWeights(answers[w[1]])[persona]})
ValidWeights(answers) ==
    Cardinality({w \in (DOMAIN answers) \X (1..4) : OptionWeights(answers[w[1]])[w[2]] > 0})

\* _winner: the highest score, the first of Personas among equals; without answers the gamer.
QuizWinner(answers) ==
    IF ValidWeights(answers) = 0 THEN 2
    ELSE ByScore(<<1, 2, 3, 4>>, LAMBDA p : PersonaScore(answers, p))[1]
QuizConfidence(answers) ==
    IF ValidWeights(answers) = 0 THEN 550
    ELSE LET score(p) == PersonaScore(answers, p)
             total == score(1) + score(2) + score(3) + score(4)
         IN  AtMost(520 + Round(440 * PersonaScore(answers, QuizWinner(answers)), total)
                        + 20 * AtMost(ValidWeights(answers), 4), 960)

\* The profile of a persona leads to its checklist.
QuizProfile(persona) ==
    CASE persona = 1 -> [category |-> "laptop", budget |-> 150]
      [] persona = 2 -> [category |-> "desktop_pc", budget |-> 220]
      [] persona = 3 -> [category |-> "laptop", budget |-> 200]
      [] persona = 4 -> [category |-> "laptop", budget |-> 120]
QuizKit(r) ==
    LET profile == QuizProfile(QuizWinner(r.answers))
    IN  Answer("ok", QuizConfidence(r.answers), [c \in {} |-> "ok"],
               {[kit |-> "checklist", category |-> profile.category, budget |-> profile.budget]})
=============================================================================
