---------------------------- MODULE CheckoutKits ----------------------------
(* The public kits that decide on a purchase: the community reply, the      *)
(* purchase journey, the final decision, the checkout lock, the purchase    *)
(* execution and the reviewer's quick card.  A kit is a function from a     *)
(* request to an answer: its verdict, its score, the status of each check   *)
(* it shows, and the requests it fills in for other kits.                   *)
EXTENDS KitText

-----------------------------------------------------------------------------
(* Mistakes the kits could make; no specification uses them.                *)

\* What only warns is asked before what blocks.
MarkWarningsFirst(blockers, warnings) ==
    IF warnings # <<>> THEN "warning" ELSE MatchVerdict(blockers = <<>>)

\* The journey is not told what the reviewers complained of.
ReplyToJourneyWithoutNotes(r) ==
    [kit |-> "journey", category |-> r.category, question |-> r.question, title |-> r.title,
     listing |-> r.summary, reviews |-> <<>>, budget |-> r.budget, price |-> r.price, ready |-> r.ready,
     missing |-> r.missing, stage |-> "community_reply"]

-----------------------------------------------------------------------------
(* community_reply.                                                         *)

ReplyText(r) == r.question \cup r.title \cup r.summary \cup r.usage \cup AllOf(r.notes) \cup AllOf(r.missing)

ReplyFlags(r) ==
    LET text == ReplyText(r)
    IN  First(Distinct(
              First(r.notes, 10) \o RiskTerms(text)
           \o When(FarOver(r.price, r.budget), {"far over budget"})
           \o When(Over(r.price, r.budget) /\ ~FarOver(r.price, r.budget), {"over budget"})
           \o ReviewFlag(text)), 8)

\* How many pieces of evidence it asks for.
ReplyRequests(r) ==
    LET text == ReplyText(r)
    IN    AtMost(Len(r.missing), 4) + One(r.price = None)
        + One(~HasSpec(text)) + One(~HasPolicy(text))

ReplyVerdict(r) ==
    CASE \E flag \in Elements(ReplyFlags(r)) : Refused(flag) \/ "far over budget" \in flag -> "blocker"
      [] OTHER -> IF ReplyFlags(r) # <<>> \/ ReplyRequests(r) > 0 THEN "warning" ELSE "ok"

ReplyScore(r) ==
    LET flags == ReplyFlags(r)
        raw == 94 - 9 * Len(flags) - 6 * ReplyRequests(r) + AtMost(2 * Len(r.ready), 10)
        cap == CASE \E flag \in Elements(flags) : Refused(flag) -> 52
                 [] OTHER -> IF flags # <<>> \/ ReplyRequests(r) > 0 THEN 84 ELSE 100
    IN  Score(AtMost(raw, cap))

ReplyCards(r) ==
    LET verdict == ReplyVerdict(r)
    IN  [primary_comment |-> verdict, short_reply |-> verdict,
         checklist_reply |-> IF verdict = "blocker" THEN "blocker" ELSE "warning"]

ReplyToTriage(r) ==
    [kit |-> "triage", category |-> r.category, question |-> r.question, title |-> r.title,
     listing |-> r.summary, total |-> r.price, budget |-> r.budget, stage |-> "community_reply"]

ReplyToJourney(r) ==
    [kit |-> "journey", category |-> r.category, question |-> r.question, title |-> r.title,
     listing |-> r.summary, reviews |-> First(r.notes, 10), budget |-> r.budget,
     price |-> r.price, ready |-> r.ready, missing |-> Or(r.missing, First(ReplyFlags(r), 3)),
     stage |-> "community_reply"]

ReplyKit(r) ==
    Answer(ReplyVerdict(r), ReplyScore(r), ReplyCards(r), {ReplyToTriage(r), ReplyToJourney(r)})

-----------------------------------------------------------------------------
(* purchase_journey.                                                        *)

JourneyText(r) == r.question \cup r.title \cup r.listing \cup AllOf(r.reviews)

Needed(r) ==
    LET text == JourneyText(r)
    IN     When("asks" \notin r.question, {"need question"})
        \o When("long40" \notin r.listing, {"need listing", "option", "returns"})
        \o When(r.price = None, {"need price", "price"})
        \o When(r.reviews = <<>>, {"need reviews"})
        \o When(~HasSpec(text), {"need specs", "spec"})
        \o When(~HasPolicy(text), {"need policy", "returns", "support"})

JourneyBlockers(r) ==
    First(Distinct(Only(First(r.missing, 10), Refused) \o RiskTerms(JourneyText(r))
                   \o When(FarOver(r.price, r.budget), {"far over budget"})), 8)

JourneyWarnings(r) ==
    First(Distinct(
          Needed(r) \o Each(First(r.missing, 10), Missing)
       \o When(Over(r.price, r.budget), {"over budget"})
       \o ReviewFlag(JourneyText(r))
       \o When(Len(r.ready) < 3, {"few captures"})), 10)

Mark(blockers, warnings) ==
    CASE blockers # <<>> -> "blocker"
      [] blockers = <<>> /\ warnings # <<>> -> "warning"
      [] OTHER -> "ok"

JourneyVerdict(r) == Mark(JourneyBlockers(r), JourneyWarnings(r))

JourneyScore(r) ==
    LET raw == 100 - 18 * Len(JourneyBlockers(r)) - 7 * Len(JourneyWarnings(r))
               - 4 * Len(Needed(r)) + AtMost(3 * Len(r.ready), 12)
    IN  Score(AtMost(raw, CASE JourneyVerdict(r) = "blocker" -> 54
                            [] JourneyVerdict(r) = "warning" -> 86
                            [] JourneyVerdict(r) = "ok" -> 100))

JourneySteps(r) ==
    [question_triage |-> "ok",
     listing_and_cart |-> IF Needed(r) # <<>> THEN "warning" ELSE "ok",
     review_and_policy |-> JourneyVerdict(r),
     final_decision |-> JourneyVerdict(r),
     execution_and_review |-> IF JourneyVerdict(r) = "ok" THEN "ok" ELSE "warning"]

JourneyToTriage(r) ==
    [kit |-> "triage", category |-> r.category, question |-> r.question, title |-> r.title,
     listing |-> r.listing, total |-> r.price, budget |-> r.budget, stage |-> r.stage]

JourneyToReview(r) ==
    [kit |-> "review", category |-> r.category, title |-> r.title, snippets |-> r.reviews,
     rating |-> None, count |-> None, budget |-> r.budget]

\* The statuses and scores that the journey fills in for the final decision.
JourneyStatuses(r) ==
    LET blockers == JourneyBlockers(r)
        warnings == JourneyWarnings(r)
        warnIf(p) == IF p THEN "warning" ELSE "ok"
    IN  [price |-> warnIf(r.price = None \/ Over(r.price, r.budget)),
         checkout |-> JourneyVerdict(r),
         compatibility |-> warnIf("spec" \in AllOf(warnings)),
         review |-> warnIf(r.reviews = <<>> \/ AllOf(r.reviews) \cap ReviewRisks # {}),
         warranty |-> IF blockers # <<>> THEN "blocker" ELSE "warning",
         evidence |-> warnIf(r.missing # <<>> \/ warnings # <<>>)]

JourneyScores(r) ==
    [price |-> IF r.price # None THEN 76 ELSE 58,
     checkout |-> CASE JourneyVerdict(r) = "blocker" -> 55
                    [] JourneyVerdict(r) = "warning" -> 72
                    [] OTHER -> 88,
     compatibility |-> 74,
     review |-> IF r.reviews # <<>> THEN 68 ELSE 52,
     warranty |-> IF JourneyBlockers(r) # <<>> THEN 45 ELSE 70]

JourneyToFinal(r) ==
    [kit |-> "final", category |-> r.category, budget |-> r.budget, price |-> r.price,
     status |-> JourneyStatuses(r), score |-> JourneyScores(r), ready |-> r.ready,
     missing |-> Or(r.missing, First(JourneyWarnings(r), 4)),
     blocking |-> JourneyBlockers(r), doubts |-> JourneyWarnings(r)]

JourneyKit(r) ==
    Answer(JourneyVerdict(r), JourneyScore(r), JourneySteps(r),
           {JourneyToTriage(r), JourneyToReview(r), JourneyToFinal(r)})

-----------------------------------------------------------------------------
(* final_decision.                                                          *)

SignalOrder == <<"price", "checkout", "compatibility", "review", "warranty", "evidence">>
SignalWeight == [price |-> 20, checkout |-> 20, compatibility |-> 18, review |-> 16,
                 warranty |-> 14, evidence |-> 12]
SignalsWith(r, status) == Only(SignalOrder, LAMBDA s : r.status[s] = status)

EvidenceScore(r) ==
    Score((IF r.score.checkout = 0 THEN 70 ELSE r.score.checkout)
          + 4 * AtMost(Len(r.ready), 10) - 12 * AtMost(Len(r.missing), 10))

FinalBlockers(r) ==
    First(Distinct(r.blocking \o Each(SignalsWith(r, "blocker"), LAMBDA s : {"blocker", s})
                   \o When(FarOver(r.price, r.budget), {"far over budget"})), 8)

FinalWarnings(r) ==
    First(Distinct(r.doubts \o Each(SignalsWith(r, "warning"), LAMBDA s : {"warning", s})
                   \o Each(First(r.missing, 10), Missing)
                   \o When(Over(r.price, r.budget), {"over budget"})), 10)

FinalScore(r) ==
    LET weighted ==   20 * r.score.price + 20 * r.score.checkout + 18 * r.score.compatibility
                    + 16 * r.score.review + 14 * r.score.warranty + 12 * EvidenceScore(r)
    IN  Score(Round(weighted, 100) - 13 * Len(FinalBlockers(r)) - 4 * Len(FinalWarnings(r)))

FinalVerdict(r) ==
    CASE FinalBlockers(r) # <<>> \/ FinalScore(r) < 45 -> "blocker"
      [] OTHER -> IF FinalWarnings(r) # <<>> \/ FinalScore(r) < 82 THEN "warning" ELSE "ok"

\* What ought to be at hand, then what is at hand and what is missing.
Checklist(r) ==
    First(Distinct(
           When(FinalVerdict(r) # "ok", {"seller", "captured answer"})
        \o <<{"total"}, {"option"}, {"spec"}, {"delivery"}, {"returns"}, {"support"}, {"complaints"}>>
        \o First(r.ready, 10) \o First(r.missing, 10)), 12)

FinalGates(r) ==
    [blocker_zero |-> IF FinalVerdict(r) = "blocker" THEN "blocker" ELSE "ok",
     evidence_closed |-> IF r.missing # <<>> THEN "warning" ELSE "ok",
     deadline |-> FinalVerdict(r)]

FinalToExecution(r) ==
    [kit |-> "execution", category |-> r.category, verdict |-> Decided(FinalVerdict(r)),
     price |-> r.price, budget |-> r.budget,
     blockers |-> Len(FinalBlockers(r)), warnings |-> Len(FinalWarnings(r)),
     missing |-> First(r.missing, 10), ready |-> First(Checklist(r), 8)]

FinalToReviewer(r) ==
    [kit |-> "reviewer", category |-> r.category, price |-> r.price, budget |-> r.budget,
     confidence |-> FinalScore(r), blockers |-> Len(FinalBlockers(r)),
     warnings |-> Len(FinalWarnings(r)), reasons |-> 1,
     watchouts |-> First(FinalBlockers(r) \o FinalWarnings(r), 6),
     missing |-> Or(First(r.missing, 10), First(Checklist(r), 3))]

FinalKit(r) ==
    Answer(FinalVerdict(r), FinalScore(r), FinalGates(r), {FinalToExecution(r), FinalToReviewer(r)})

-----------------------------------------------------------------------------
(* checkout_lock.  A capacity is found when the screen shows a number that  *)
(* ends in the one that was locked.                                         *)

EndsIn(n, expected) ==
    n % (CASE expected < 10 -> 10 [] expected \in 10..99 -> 100 [] expected \in 100..999 -> 1000
           [] OTHER -> 10000) = expected

Shown(r, expected) ==
    \E word \in r.screen \cap DOMAIN Size :
        IF word = "SSD1TB" THEN expected \in 900..1499 ELSE EndsIn(Size[word], expected)

LockPrice(r) ==
    CASE r.price = None -> "warning"
      [] Over(r.price, r.budget) -> "blocker"
      [] OTHER -> LET delta == r.price - r.locked.price
                  IN  FoundVerdict(~(delta > 7 /\ 1000 * delta > 35 * r.locked.price))

\* The parts that were locked must be on the screen; evidence is words that speak of a policy,
\* whatever they say of it.
LockChecks(r) ==
    LET status == [
            title |-> MatchVerdict("title" \in r.screen),
            seller |-> FoundVerdict(r.locked.seller /\ "seller" \in r.screen),
            quantity |-> MatchVerdict(r.quantity = 1),
            price |-> LockPrice(r),
            cpu |-> MatchVerdict("Ryzen" \in r.screen),
            gpu |-> MatchVerdict("RTX" \in r.screen),
            os |-> MatchVerdict("Windows" \in r.screen),
            ram |-> MatchVerdict(r.locked.ram # None /\ Shown(r, r.locked.ram)),
            storage |-> MatchVerdict(r.locked.storage # None /\ Shown(r, r.locked.storage)),
            warranty |-> FoundVerdict(r.screen \cap {"support", "noSupport"} # {}),
            return |-> FoundVerdict(r.screen \cap {"returns", "noReturn", "noReturnJoined"} # {}),
            delivery_stock |-> FoundVerdict("delivery" \in r.screen)]
    IN  [c \in {"title", "seller", "quantity", "price", "delivery_stock"} \cup r.locked.parts
              \cup {c \in {"ram", "storage"} : r.locked[c] # None} |-> status[c]]

LockCount(r, verdict) == LET checks == LockChecks(r) IN Cardinality({c \in DOMAIN checks : checks[c] = verdict})
LockGaps(r) ==
    LET checks == LockChecks(r)
    IN  {c \in DOMAIN checks \cap {"warranty", "return", "delivery_stock"} : checks[c] # "ok"}

LockScore(r) ==
    Score(100 - 24 * LockCount(r, "blocker") - 8 * LockCount(r, "warning") - 4 * Cardinality(LockGaps(r))
          - (CASE r.price = None -> 6
               [] Over(r.price, r.locked.price) ->
                    AtMost((100 * (r.price - r.locked.price)) \div NotBelow(r.locked.price, 1), 14)
               [] OTHER -> 0))

\* locked, verify or blocked.
LockVerdict(r) ==
    CASE LockCount(r, "blocker") > 0 -> "blocker"
      [] OTHER -> IF LockCount(r, "warning") > 0 \/ LockScore(r) < 88 THEN "warning" ELSE "ok"

LockMissing(r) ==
    LET checks == LockChecks(r)
        label == [seller |-> {"seller"}, price |-> {"locked price"}, warranty |-> {"support"},
                  return |-> {"returns"}, delivery_stock |-> {"delivery"}]
    IN  Each(SelectSeq(<<"seller", "price", "warranty", "return", "delivery_stock">>,
                       LAMBDA c : c \in DOMAIN checks /\ checks[c] # "ok"), LAMBDA c : label[c])

LockToExecution(r) ==
    [kit |-> "execution", category |-> r.category, verdict |-> Decided(LockVerdict(r)),
     price |-> r.price, budget |-> r.budget,
     blockers |-> LockCount(r, "blocker"), warnings |-> LockCount(r, "warning"),
     missing |-> LockMissing(r), ready |-> <<{"option"}, {"price"}, {"seller"}>>]

LockKit(r) == Answer(LockVerdict(r), LockScore(r), LockChecks(r), {LockToExecution(r)})

-----------------------------------------------------------------------------
(* purchase_execution.                                                      *)

ExecutionVerdict(r) ==
    CASE r.verdict = "hold" \/ r.blockers > 0 -> "blocker"
      [] OTHER -> IF \/ r.verdict = "verify" \/ r.warnings > 0 \/ r.missing # <<>>
                     \/ r.budget # None /\ Over(r.price, r.budget)
                  THEN "warning" ELSE "ok"

ExecutionScore(r) ==
    LET over == IF r.budget = None \/ ~Over(r.price, r.budget) THEN 0 ELSE r.price - r.budget
    IN  Score(100 - 22 * r.blockers - 8 * r.warnings - 7 * AtMost(Len(r.missing), 8)
              - (CASE r.verdict = "hold" -> 25 [] r.verdict = "verify" -> 8 [] r.verdict = "ready" -> 0)
              - (CASE over = 0 -> 0
                   [] over > 0 -> IF over > 10 /\ 20 * over > r.budget THEN 24 ELSE 12)
              - 8 * One(ExecutionVerdict(r) = "blocker"))

\* A step or a gate is about a noun.
IfMissing(r, noun, otherwise) ==
    IF noun \in AllOf(First(r.missing, 8))
    THEN IF ExecutionVerdict(r) = "blocker" THEN "blocker" ELSE "warning"
    ELSE otherwise

GateOf(r, noun) ==
    IfMissing(r, noun,
        FoundVerdict(noun \in AllOf(First(r.ready, 8)) \/ ExecutionVerdict(r) = "ok"))

ExecutionGates(r) ==
    [final_price |-> IF r.budget # None /\ Over(r.price, r.budget) THEN "warning" ELSE GateOf(r, "price"),
     option_spec |-> GateOf(r, "option"),
     warranty_return |-> GateOf(r, "support"),
     seller_answer |-> GateOf(r, "seller"),
     reviewer_approval |-> FoundVerdict(ExecutionVerdict(r) = "ok"),
     price_recheck |-> IfMissing(r, "price", "ok"),
     option_capture |-> IfMissing(r, "option", "ok"),
     seller_question |-> IfMissing(r, "seller", "ok"),
     approval_share |-> ExecutionVerdict(r),
     payment_execute |-> MatchVerdict(ExecutionVerdict(r) # "blocker")]

ExecutionKit(r) == Answer(ExecutionVerdict(r), ExecutionScore(r), ExecutionGates(r), {})

-----------------------------------------------------------------------------
(* reviewer_quick_card.                                                     *)

ReviewerVerdict(r) ==
    CASE r.blockers > 0 \/ r.confidence < 55 -> "blocker"
      [] OTHER -> IF r.warnings > 0 \/ r.missing # <<>> \/ r.confidence < 80 THEN "warning" ELSE "ok"

ReviewerScore(r) ==
    LET raw == r.confidence - 18 * r.blockers - 6 * r.warnings - 5 * AtMost(Len(r.missing), 4)
               + (CASE r.price = None \/ r.budget = None -> 0
                    [] OTHER -> IF Over(r.price, r.budget) THEN -14 ELSE 8)
               + AtMost(3 * r.reasons, 8)
    IN  Score(IF ReviewerVerdict(r) = "blocker" THEN AtMost(raw, 54) ELSE raw)

\* The budget is a check of its own: it does not touch the verdict.
ReviewerChecks(r) ==
    [approve |-> FoundVerdict(ReviewerVerdict(r) = "ok"),
     budget |-> CASE r.price = None \/ r.budget = None -> "warning"
                  [] OTHER -> MatchVerdict(~Over(r.price, r.budget)),
     evidence |-> FoundVerdict(r.missing = <<>>),
     risk |-> CASE r.blockers > 0 -> "blocker"
                [] OTHER -> FoundVerdict(r.warnings = 0),
     watchouts |-> FoundVerdict(r.watchouts = <<>>)]

ReviewerKit(r) == Answer(ReviewerVerdict(r), ReviewerScore(r), ReviewerChecks(r), {})
=============================================================================
