----------------------------- MODULE OfferKits -----------------------------
(* The public kits that weigh one offer of a shop: the product page with    *)
(* the extraction it shares with the operators' URL ingestion, the seller's *)
(* answer, the approval brief, the deal sanity check and the price          *)
(* breakdown.                                                               *)
EXTENDS KitText, FiniteSetsExt, SequencesExt

-----------------------------------------------------------------------------
(* Mistakes the kits could make; no specification uses them.                *)

\* A discount larger than the price is paid out.
EffectivePriceUnclamped(r) ==
    LET amounts == {p \in r.amounts : p \in 5..2000}
    IN  IF amounts = {} THEN None
        ELSE Min(amounts) + (IF r.shipping = None THEN 0 ELSE r.shipping)
                          - (IF r.discount = None THEN 0 ELSE r.discount)

-----------------------------------------------------------------------------
(* product_page_evidence.  A page is its words, the amounts it shows as     *)
(* prices, and what it shows of shipping and discounts; overlap is the      *)
(* percentage of the expected model's tokens that it has.                   *)

ExtractedPrice(r) ==
    LET reasonable == {p \in r.amounts : p \in 5..2000}
    IN  IF reasonable = {} THEN None ELSE Min(reasonable)
ShippingFee(r) == IF "freeShipping" \in r.page THEN 0 ELSE r.shipping
EffectivePrice(r) ==
    IF ExtractedPrice(r) = None THEN None
    ELSE NotBelow(ExtractedPrice(r) + OrZero(ShippingFee(r)) - OrZero(r.discount), 0)

Availability(r) ==
    LET found == SelectSeq(<<"soldOut", "lowStock", "inStock">>, LAMBDA word : word \in r.page)
    IN  IF found = <<>> THEN "unknown" ELSE found[1]

ModelMatch(r) == IF r.overlap = None THEN "warning" ELSE AtLeast(r.overlap, 38, 72)

\* The first two flags stand on every page; the rest are in the order of the extraction.
ExtractionFlags(r) ==
       <<{"review needed"}, {"terms"}>>
    \o When(ExtractedPrice(r) = None, {"no price"})
    \o When(ShippingFee(r) = None, {"no shipping fee"})
    \o When(Availability(r) # "inStock", {Availability(r)})
    \o When(ModelMatch(r) = "blocker", {"mismatch"})
    \o When(ModelMatch(r) = "warning", {"review needed", "partial match"})
    \o When("untitled" \in r.page, {"untitled"})

\* The risks that the buyer names, and a label for each risk found in the page or among them.
PageFlags(r) ==
    First(Distinct(ExtractionFlags(r) \o r.risks)
          \o Each(SelectSeq(<<"used", "imported", "noReturn", "noSupport", "FreeDOS">>,
                            LAMBDA word : word \in r.page \cup AllOf(r.risks)),
                  LAMBDA word : {"label", word}), 10)

PageScore(r) ==
    LET flagged == AllOf(PageFlags(r))
        over == OrZero(EffectivePrice(r)) - r.budget
    IN  Score(100 - 22 * One("no price" \in flagged) - 8 * One("no shipping fee" \in flagged)
              - 10 * One("review needed" \in flagged) - 32 * One("mismatch" \in flagged)
              - 30 * One("soldOut" \in flagged) - 10 * One("lowStock" \in flagged)
              - 6 * One("unknown" \in flagged)
              - 16 * One(flagged \cap {"used", "imported", "noReturn", "noSupport"} # {})
              - (IF over <= 0 THEN 0 ELSE IF over > 8 /\ 20 * over > r.budget THEN 20 ELSE 10)
              - 20 * One(r.page = {} /\ r.amounts = {}))

PageVerdict(r) ==
    IF ModelMatch(r) = "blocker" \/ Availability(r) = "soldOut" \/ PageScore(r) < 60 THEN "blocker"
    ELSE FoundVerdict(/\ PageScore(r) >= 84 /\ ModelMatch(r) = "ok" /\ Availability(r) = "inStock"
                      /\ ~Over(EffectivePrice(r), r.budget))

PageSignals(r) ==
    LET signals == [url_safety |-> "ok", model_match |-> ModelMatch(r),
                    availability |-> FoundVerdict(Availability(r) = "inStock"),
                    budget_fit |-> FoundVerdict(~Over(EffectivePrice(r), r.budget))]
    IN  [s \in DOMAIN signals \ (IF EffectivePrice(r) = None THEN {"budget_fit"} ELSE {}) |-> signals[s]]

PageToScanner(r) ==
    [kit |-> "scanner", category |-> r.category, title |-> r.title, option |-> r.title,
     total |-> EffectivePrice(r), budget |-> r.budget, expects |-> r.expects,
     ram |-> r.ram, storage |-> r.storage, evidence |-> r.page]

PageToBreakdown(r) ==
    [kit |-> "breakdown", category |-> r.category,
     listed |-> IF ExtractedPrice(r) = None THEN r.budget ELSE ExtractedPrice(r), quantity |-> 1,
     shipping |-> OrZero(ShippingFee(r)), fees |-> 0, coupon |-> OrZero(r.discount), points |-> 0,
     budget |-> r.budget, reference |-> EffectivePrice(r), hours |-> None, stock |-> None,
     risks |-> r.risks]

\* Six flags are handed to the seller's kit, the extraction's first.
PageToSeller(r) ==
    [kit |-> "seller", category |-> r.category, title |-> r.title,
     verdict |-> Decided(PageVerdict(r)), budget |-> r.budget, total |-> EffectivePrice(r),
     risks |-> First(PageFlags(r), 6),
     missing |-> <<{"spec"}, {"delivery"}, {"returns"}, {"support"}>>,
     confirm |-> <<{"price"}, {"stock"}>>, answer |-> {}]

PageKit(r) ==
    Answer(PageVerdict(r), PageScore(r), PageSignals(r),
           {PageToScanner(r), PageToBreakdown(r), PageToSeller(r)})

-----------------------------------------------------------------------------
(* seller_evidence.                                                         *)

SellerRisks(r) ==
    First(r.risks \o Each(SelectSeq(<<"used", "imported", "FreeDOS">>,
                                    LAMBDA word : word \in r.title \cup r.answer /\ {word} \notin Elements(r.risks)),
                          LAMBDA word : {word}), 8)
HardRisk(risks) == AllOf(risks) \cap {"used", "imported"} # {}

\* What the seller is always asked for, after what is known to be missing.
SellerMissing(r) ==
    First(Distinct(r.missing \o r.confirm \o <<{"spec"}, {"delivery"}, {"returns"}, {"support"}>>), 10)

SellerPriority(r) ==
    IF r.verdict = "hold" \/ HardRisk(SellerRisks(r)) THEN "blocker"
    ELSE FoundVerdict(r.verdict # "verify" /\ SellerMissing(r) = <<>> /\ SellerRisks(r) = <<>>)

\* Three words that sound well are an answer, unless one refuses.
AnswerStatus(r) ==
    IF r.answer \cap {"noReturn", "noReturnJoined", "noSupport"} # {} THEN "blocker"
    ELSE FoundVerdict(Cardinality(r.answer \cap {"same", "confirmed", "delivery", "returns", "support"})
                      + One(r.answer \cap {"returns", "support"} # {}) >= 3)

SellerQuestions(r) ==
    LET asked(noun) == FoundVerdict({noun} \notin Elements(SellerMissing(r)))
        questions == [ship_spec |-> asked("spec"), shipping |-> asked("delivery"),
                      return_policy |-> asked("returns"), warranty |-> asked("support"),
                      compatibility |-> "warning",
                      risk_terms |-> IF HardRisk(SellerRisks(r)) THEN "blocker" ELSE "warning",
                      answer |-> AnswerStatus(r)]
    IN  [q \in DOMAIN questions \ (   (IF r.category = "desktop_pc" THEN {} ELSE {"compatibility"})
                                 \cup (IF SellerRisks(r) = <<>> THEN {"risk_terms"} ELSE {}))
           |-> questions[q]]

SellerToApproval(r) ==
    LET count(verdict) == One(SellerPriority(r) = verdict) + One(AnswerStatus(r) = verdict)
    IN  [kit |-> "approval", category |-> r.category,
         verdict |-> Decided(Worst({SellerPriority(r), AnswerStatus(r)})),
         budget |-> r.budget, total |-> r.total,
         blockers |-> count("blocker"), warnings |-> count("warning"), reasons |-> 2,
         missing |-> First(SellerMissing(r), 6)]

SellerKit(r) == Answer(SellerPriority(r), 100, SellerQuestions(r), {SellerToApproval(r)})

-----------------------------------------------------------------------------
(* purchase_approval.                                                       *)

ApprovalPriority(r) ==
    IF r.verdict = "hold" \/ r.blockers > 0 THEN "blocker"
    ELSE FoundVerdict(r.verdict = "ready" /\ r.warnings = 0 /\ r.missing = <<>>)

\* The reasons to reject, and whether the vote offers an approval at once.
ApprovalChecks(r) ==
    [blockers |-> MatchVerdict(r.blockers = 0),
     budget |-> FoundVerdict(~Over(r.total, r.budget)),
     missing |-> FoundVerdict(r.missing = <<>>),
     approve_now |-> MatchVerdict(ApprovalPriority(r) # "blocker")]

ApprovalKit(r) == Answer(ApprovalPriority(r), 100, ApprovalChecks(r), {})

-----------------------------------------------------------------------------
(* deal_sanity.  coupon stands for coupon and card; rating is a percentage. *)

DealPrice(r) == NotBelow(r.listed + r.shipping - (r.coupon + r.points), 0)
Savings(r) == r.reference - DealPrice(r)
\* The saving in tenths of a percent of the reference.
SavingsRate(r) == IF r.reference \in {None, 0} THEN None ELSE (1000 * Savings(r)) \div r.reference

AtLeastRate(r, rate) == SavingsRate(r) # None /\ SavingsRate(r) >= rate
Below(amount, bound) == amount # None /\ amount < bound

Flag(p, name, verdict) == When(p, <<name, verdict>>)
ShortOf(amount, bound, name) ==
    Flag(Below(amount, bound), name, IF amount = 0 THEN "blocker" ELSE "warning")

DealFlags(r) ==
    LET text == AllOf(r.risks) \cup r.evidence
        flags ==
               Flag(r.reference = None, "missing_reference_price", "warning")
            \o (CASE r.reference = None -> <<>>
                  [] OTHER -> IF Savings(r) <= 0 THEN <<<<"not_discounted", "warning">>>>
                              ELSE Flag(AtLeastRate(r, 280), "too_deep_discount", "warning")
                                   \o Flag(AtLeastRate(r, 80) /\ ~AtLeastRate(r, 280), "meaningful_discount", "ok"))
            \o Flag(/\ r.lowest # None /\ DealPrice(r) - r.lowest > 5
                    /\ 25 * (DealPrice(r) - r.lowest) > r.lowest, "above_lowest_seen", "warning")
            \o Flag(text \cap {"used", "imported", "noReturn", "noSupport"} # {}, "hard_condition_terms", "blocker")
            \o Flag("conditional" \in text, "conditional_discount", "warning")
            \o ShortOf(r.warranty, 12, "short_warranty")
            \o ShortOf(r.returns, 7, "short_return_window")
            \o Flag(Below(r.rating, 92), "seller_rating_low", "warning")
            \o Flag(Below(r.stock, 4), "low_stock", "warning")
            \o Flag(Below(r.hours, 7), "expires_soon", "warning")
            \o Flag(r.budget # None /\ Over(DealPrice(r), r.budget), "over_budget", "blocker")
    IN  First(Or(flags, <<<<"sanity_clear", "ok">>>>), 8)

DealScore(r) ==
    LET flags == DealFlags(r)
        count(verdict) == Len(SelectSeq(flags, LAMBDA flag : flag[2] = verdict))
    IN  Score(88 + 8 * One(AtLeastRate(r, 50) /\ ~AtLeastRate(r, 221)) - 10 * One(AtLeastRate(r, 350))
              - 22 * count("blocker") - 9 * count("warning")
              + 4 * One(r.count # None /\ r.count >= 100))

DealVerdict(r) ==
    LET flags == Worst({DealFlags(r)[i][2] : i \in DOMAIN DealFlags(r)})
    IN  Worst({flags, AtLeast(DealScore(r), 58, 82)})

DealToBreakdown(r) ==
    [kit |-> "breakdown", category |-> r.category, listed |-> r.listed, quantity |-> 1,
     shipping |-> r.shipping, fees |-> 0, coupon |-> r.coupon, points |-> r.points,
     budget |-> r.budget, reference |-> r.reference, hours |-> r.hours, stock |-> r.stock,
     risks |-> r.risks]

DealKit(r) ==
    LET flags == DealFlags(r)
    IN  Answer(DealVerdict(r), DealScore(r),
               [f \in {flags[i][1] : i \in DOMAIN flags} |->
                   flags[CHOOSE i \in DOMAIN flags : flags[i][1] = f][2]],
               {DealToBreakdown(r)})

-----------------------------------------------------------------------------
(* price_breakdown.  fees stand for assembly and operating system.          *)

Paid(r) == NotBelow(r.listed * r.quantity + r.shipping + r.fees - (r.coupon + r.points), 0)
OverBudgetBy(r) == IF r.budget = None THEN 0 ELSE NotBelow(Paid(r) - r.budget, 0)
OverReportBy(r) == IF r.reference = None THEN 0 ELSE NotBelow(Paid(r) - r.reference, 0)

BreakdownFlags(r) ==
       {f \in {"over budget"} : OverBudgetBy(r) > 0}
    \cup {f \in {"over report"} : OverReportBy(r) > 5}
    \cup {f \in {"shipping"} : r.shipping > 5}
    \cup {f \in {"fees"} : r.fees > 12}
    \cup {f \in {"coupons"} : 100 * r.coupon > 8 * Paid(r)}
    \cup {f \in {"expiry"} : Below(r.hours, 25)}
    \cup {f \in {"stock"} : Below(r.stock, 4)}
    \cup {f \in {"conditional"} : "conditional" \in AllOf(r.risks)}

BreakdownScore(r) ==
    LET flags == BreakdownFlags(r)
        beyond(amount, floor) == amount > floor /\ 25 * amount > r.listed
    IN  Score(100 - (IF OverBudgetBy(r) = 0 THEN 0 ELSE IF beyond(OverBudgetBy(r), 5) THEN 24 ELSE 12)
                  - (IF OverReportBy(r) = 0 THEN 0 ELSE IF beyond(OverReportBy(r), 7) THEN 16 ELSE 8)
                  - 8 * Cardinality(flags \cap {"shipping", "fees", "expiry", "stock"})
                  - 8 * One(flags \cap {"coupons", "conditional"} # {}))

BreakdownVerdict(r) ==
    IF BreakdownScore(r) < 60 \/ OverBudgetBy(r) > 15 THEN "blocker"
    ELSE FoundVerdict(/\ BreakdownScore(r) >= 84
                      /\ BreakdownFlags(r) \cap {"over budget", "over report", "shipping", "coupons",
                                                 "expiry", "conditional"} = {})

BreakdownKit(r) ==
    Answer(BreakdownVerdict(r), BreakdownScore(r), [f \in BreakdownFlags(r) |-> "warning"], {})
=============================================================================
