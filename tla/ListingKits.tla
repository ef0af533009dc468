---------------------------- MODULE ListingKits ----------------------------
(* The public kits that read what a shop writes: the question triage, the   *)
(* review risk scanner, the spec risk scanner with the listing decoder and  *)
(* the checkout nudge, the term decoder and the cart intake.  Five of them  *)
(* fill in a request for the scanner.                                       *)
EXTENDS KitText, FiniteSetsExt, SequencesExt

-----------------------------------------------------------------------------
(* Mistakes the kits could make; no specification uses them.                *)

\* A cart is ready when nothing in it is doubtful, whatever it costs.
CartVerdictForgetsBlockers(blockers, warnings) == IF warnings > 0 THEN "warning" ELSE "ok"

-----------------------------------------------------------------------------
(* spec_risk_scanner.  A request expects parts, a RAM and a disk size.      *)

TextsOf(r) == r.title \cup r.option \cup r.evidence

Long18(text) == text \cap {"long18", "long30", "long40"} # {}

ScannerPrice(r) ==
    CASE r.total = None -> "warning"
      [] Over(r.total, r.budget) -> "blocker"
      [] OTHER -> FoundVerdict(100 * r.total <= 97 * r.budget)

SpecCheck(r, part, word) ==
    IF part \in r.expects THEN MatchVerdict(word \in TextsOf(r)) ELSE "warning"

\* The size is the one that the earliest of the texts gives.
Memories == <<"RAM8", "RAM16", "RAM32">>
FirstSize(texts, sizes) ==
    LET with == Only(texts, LAMBDA text : text \cap Elements(sizes) # {})
    IN  IF with = <<>> THEN None ELSE Size[Only(sizes, LAMBDA word : word \in with[1])[1]]

\* Numbers are read as terabytes when they could be: 16 GB of memory is never found.
Normalized(text) ==
    {IF n \in {1, 2, 4, 8, 16} THEN 1000 * n ELSE n : n \in Sizes(text)}
CapacityCheck(r, expected) ==
    CASE expected = None -> "warning"
      [] OTHER -> MatchVerdict(expected \in Normalized(TextsOf(r)))

Evidence == [total |-> {"total"}, delivery |-> {"delivery"},
             returns |-> {"returns", "noReturn", "noReturnJoined"},
             support |-> {"support", "noSupport"}, seller |-> {"seller"}]
MissingEvidence(r) == {e \in DOMAIN Evidence : Evidence[e] \cap (r.option \cup r.evidence) = {}}

ScannerChecks(r) ==
    [price |-> ScannerPrice(r),
     option_name |-> MatchVerdict(Long18(r.option)),
     cpu |-> SpecCheck(r, "cpu", "Ryzen"),
     gpu |-> SpecCheck(r, "gpu", "RTX"),
     ram |-> CapacityCheck(r, r.ram),
     storage |-> CapacityCheck(r, r.storage),
     os |-> SpecCheck(r, "os", "Windows"),
     evidence |-> FoundVerdict(MissingEvidence(r) = {})]

\* hold, verify or ready.  The prefilled analysis formats the total, which may be None.
ScannerKit(r) ==
    LET checks == ScannerChecks(r)
    IN  IF r.total = None THEN Failed ELSE
        Answer(Worst(Values(checks)), Score(100 - 22 * Tally(checks, "blocker") - 8 * Tally(checks, "warning")),
               checks, {})

\* The request for the scanner that the other kits fill in.
ToScanner(r, title, option, total, expects, ram, storage, evidence) ==
    [kit |-> "scanner", category |-> r.category, title |-> title,
     option |-> IF option = {} THEN title ELSE option, total |-> total, budget |-> r.budget,
     expects |-> expects, ram |-> ram, storage |-> storage, evidence |-> evidence]

Expected(text) ==
    {part \in {"cpu", "gpu", "os"} :
        [cpu |-> "Ryzen", gpu |-> "RTX", os |-> "Windows"][part] \in text}

-----------------------------------------------------------------------------
(* listing decoder.  The largest number of gigabytes is taken for the RAM.  *)

Largest(sizes) == IF sizes = {} THEN None ELSE Max(sizes)
DecodedRam(text) == Largest(Sizes(text \ {"SSD1TB"}))
DecodedStorage(text) ==
    CASE "SSD1TB" \in text -> 1000
      [] OTHER -> IF "SSD512" \in text THEN 512 ELSE None

DecodedFacts(r) ==
    LET text == r.title \cup r.option
        found(word) == FoundVerdict(word \in text)
        facts == [cpu |-> found("Ryzen"), gpu |-> found("RTX"),
                  ram |-> FoundVerdict(DecodedRam(text) # None),
                  storage |-> FoundVerdict(DecodedStorage(text) # None),
                  os |-> FoundVerdict("Windows" \in text /\ "FreeDOS" \notin text),
                  condition |-> CASE text \cap {"used", "returns", "noReturn", "noReturnJoined"} # {} -> "blocker"
                                  [] OTHER -> FoundVerdict("imported" \notin text),
                  display |-> found("display")]
    IN  [f \in DOMAIN facts \ (IF r.category = "laptop" THEN {} ELSE {"display"}) |-> facts[f]]

DecoderToScanner(r) ==
    LET facts == DecodedFacts(r)
        text == r.title \cup r.option
    IN  ToScanner(r, r.title, r.option, r.total, {p \in {"cpu", "gpu", "os"} : facts[p] = "ok"},
                  DecodedRam(text), DecodedStorage(text), {})

DecoderKit(r) ==
    LET facts == DecodedFacts(r)
    IN  Answer(Worst(Values(facts)),
               Clamp(42 + 10 * Tally(facts, "ok") - 6 * Tally(facts, "warning")
                        - 18 * Tally(facts, "blocker"), 12, 98),
               facts, {DecoderToScanner(r)})

-----------------------------------------------------------------------------
(* checkout nudge.                                                          *)

NudgeVerdict(r) ==
    CASE r.verdict = "hold" \/ r.blockers > 0 -> "blocker"
      [] OTHER -> FoundVerdict(r.verdict = "ready" /\ r.warnings = 0)

\* The first step asks the seller only when the verdict itself is hold.
NudgeSteps(r) ==
    [seller_answer |-> FoundVerdict(r.verdict # "hold"),
     price_recheck |-> "ok", outcome_capture |-> "ok"]

NudgeKit(r) == Answer(NudgeVerdict(r), 100, NudgeSteps(r), {})

-----------------------------------------------------------------------------
(* purchase_question_triage.                                                *)

TriageText(r) == r.question \cup r.title \cup r.listing

\* QUESTION_TYPES: the keywords of a type, spelled by the words that contain them.
Keywords ==
    [checkout |-> {{"total"}, {"hurry"}}, price |-> {{"price"}},
     spec |-> {{"spec"}, {"RAM8", "RAM16", "RAM32"}, {"SSD512", "SSD1TB"}, {"FreeDOS"}},
     warranty |-> {{"support", "noSupport"}, {"returns", "noReturn", "noReturnJoined"}, {"used"}},
     aftercare |-> {{"defect"}}]
QuestionTypes == <<"checkout", "price", "spec", "warranty", "aftercare">>
Hits(text, type) == Cardinality({k \in Keywords[type] : k \cap text # {}})
QuestionType(r) ==
    CASE r.stage \in {"checkout", "cart"} -> "checkout"
      [] r.stage \in {"after_purchase", "received"} -> "aftercare"
      [] OTHER -> LET most == Max({Hits(TriageText(r), QuestionTypes[i]) : i \in DOMAIN QuestionTypes})
                  IN  QuestionTypes[Min({i \in DOMAIN QuestionTypes :
                                           Hits(TriageText(r), QuestionTypes[i]) = most})]

TriageSignals(r) ==
    LET text == TriageText(r)
    IN  [question_type |-> "ok",
         risk_terms |-> MatchVerdict(text \cap {"used", "noReturn", "noReturnJoined", "defect"} = {}),
         ambiguous_terms |-> FoundVerdict(text \cap {"FreeDOS", "delivery"} = {}),
         total |-> IF r.total = None THEN "warning" ELSE MatchVerdict(~Over(r.total, r.budget)),
         thin_context |-> FoundVerdict(r.listing \cap {"long30", "long40"} # {})]

Urgency(r) ==
    LET signals == TriageSignals(r)
    IN  Clamp(35 + 28 * Tally(signals, "blocker") + 11 * Tally(signals, "warning")
              + 12 * One("hurry" \in TriageText(r)) + 10 * One(r.stage \in {"checkout", "cart"}), 20, 98)

MissingInputs(r) ==
    LET text == TriageText(r)
        type == QuestionType(r)
    IN    {i \in {"total"} : r.total = None}
     \cup {i \in {"listing"} : r.listing \cap {"long30", "long40"} = {}}
     \cup {i \in {"policy"} : type \in {"warranty", "checkout"} /\ ~HasPolicy(text)}
     \cup {i \in {"source"} : type \in {"price", "checkout"} /\ "total" \notin text}

\* A disk of 512 GB is too large for the expected 256.
TriageToScanner(r) ==
    ToScanner(r, r.title, r.listing, r.total, Expected(TriageText(r)),
              FirstSize(<<r.question, r.title, r.listing>>, Memories),
              IF "SSD1TB" \in TriageText(r) THEN 1000 ELSE None, {})

TriageKit(r) ==
    Answer(Worst(Values(TriageSignals(r))), Urgency(r),
           TriageSignals(r) @@ [inputs |-> FoundVerdict(MissingInputs(r) = {})],
           {TriageToScanner(r)})

-----------------------------------------------------------------------------
(* review_risk.  rating is in tenths; a topic is a defect or the support.   *)

Mentions(r, words) ==
    LET texts == <<r.title>> \o r.snippets
    IN  Cardinality({m \in (DOMAIN texts) \X words : m[2] \in texts[m[1]]})

ReviewSignals(r) ==
    [defect |-> IF Mentions(r, {"defect"}) >= 2 THEN "blocker"
                ELSE FoundVerdict(Mentions(r, {"defect"}) = 0),
     support |-> LET n == Mentions(r, Policies \cup {"seller"})
                 IN  IF n >= 2 THEN "blocker" ELSE FoundVerdict(n = 0),
     noise |-> FoundVerdict(Mentions(r, {"noise"}) = 0)]

ReviewVerdict(r) ==
    LET signals == Worst(Values(ReviewSignals(r)))
    IN  IF \/ signals = "blocker"
           \/ r.rating # None /\ r.rating < 37 /\ r.count # None /\ r.count >= 20
        THEN "blocker"
        ELSE FoundVerdict(/\ signals = "ok" /\ Len(r.snippets) >= 3
                          /\ r.count # None => r.count >= 10)

ReviewScore(r) ==
    LET signals == ReviewSignals(r)
    IN  Clamp(84 - 22 * Tally(signals, "blocker") - 8 * Tally(signals, "warning")
              + (CASE r.rating = None -> 0 [] OTHER -> (4 * (r.rating - 40)) \div 5)
              + (CASE r.count = None -> 0 [] OTHER -> AtMost(r.count \div 50, 8))
              - 10 * One(Len(r.snippets) < 3), 10, 98)

\* Nothing is expected, and no total is known: the scanner can only verify.
ReviewToScanner(r) == ToScanner(r, r.title, {}, None, {}, None, None, AllOf(First(r.snippets, 2)))

ReviewKit(r) == Answer(ReviewVerdict(r), ReviewScore(r), ReviewSignals(r), {ReviewToScanner(r)})

-----------------------------------------------------------------------------
(* spec_term_decoder.                                                       *)

TermStatus ==
    [Ryzen |-> "ok", RTX |-> "ok", ram |-> "ok", ssd |-> "ok", FreeDOS |-> "warning",
     imported |-> "warning", used |-> "blocker", noReturn |-> "blocker"]

\* A term counts once, however it is spelled, and 512 GB is memory as well as a disk; a
\* requested term that is unknown is doubtful, and so is a text without any.
TermChecks(r) ==
    LET words == r.title \cup r.option \cup r.terms
        spelled(term) == CASE term = "ram" -> {"RAM8", "RAM16", "RAM32", "SSD512"}
                           [] term = "ssd" -> {"SSD512", "SSD1TB"}
                           [] term = "noReturn" -> {"noReturn", "noReturnJoined"}
                           [] OTHER -> {term}
        terms == {t \in DOMAIN TermStatus : spelled(t) \cap words # {}}
                 \cup {t \in {"unknown"} : t \in r.terms}
    IN  [t \in (IF terms = {} THEN {"unknown"} ELSE terms) |->
            IF t = "unknown" THEN "warning" ELSE TermStatus[t]]

TermToScanner(r) ==
    LET text == r.title \cup r.option \cup r.terms
    IN  ToScanner(r, r.title, text, None, Expected(text),
                  FirstSize(<<r.title, r.option, r.terms>>, <<"RAM16", "RAM32", "SSD512">>),
                  DecodedStorage(text), {})

TermKit(r) ==
    LET checks == TermChecks(r)
    IN  Answer(Worst(Values(checks)),
               Clamp(48 + 7 * Cardinality(DOMAIN checks \ {"unknown"}) + 8 * One(r.long80)
                     - 5 * Tally(checks, "warning") - 15 * Tally(checks, "blocker"), 15, 98),
               checks, {TermToScanner(r)})

-----------------------------------------------------------------------------
(* shopping_cart_intake.  A line of the cart has a text, perhaps a price,   *)
(* and a quantity.                                                          *)

\* The role of a line is the first that one of its words names.
RoleOrder == <<"laptop", "desktop_build", "cpu", "gpu", "ram", "storage", "motherboard", "psu",
               "case", "monitor", "os">>
Needles ==
    [laptop |-> {"laptop"}, desktop_build |-> {"desktop"}, cpu |-> {"Ryzen"}, gpu |-> {"RTX"},
     ram |-> {"RAM8", "RAM16", "RAM32"}, storage |-> {"SSD512", "SSD1TB"},
     motherboard |-> {"motherboard"}, psu |-> {"psu"}, case |-> {"case"}, monitor |-> {"monitor"},
     os |-> {"Windows", "FreeDOS"}]
Role(item) ==
    LET named == Only(RoleOrder, LAMBDA role : Needles[role] \cap item.text # {})
    IN  IF named = <<>> THEN "unknown" ELSE named[1]

LineStatus(item) ==
    FoundVerdict(/\ item.text \cap {"used", "imported", "FreeDOS"} = {}
                 /\ item.price # None /\ Role(item) # "unknown")

CartWords(r) == UNION {r.items[i].text : i \in DOMAIN r.items}
Roles(r) == {Role(r.items[i]) : i \in DOMAIN r.items} \ {"unknown"}
MissingSlots(r) ==
    (IF r.category = "laptop" \/ "laptop" \in CartWords(r)
     THEN {"laptop", "ram", "storage", "os"}
     ELSE {"cpu", "gpu", "ram", "storage", "motherboard", "psu", "case"}
          \cup {s \in {"os"} : CartWords(r) \cap {"Windows", "FreeDOS"} # {}}) \ Roles(r)
Duplicates(r) ==
    {role \in Roles(r) : Cardinality({i \in DOMAIN r.items : Role(r.items[i]) = role}) > 1}

\* The total of the lines that have a price, if one has.
CartTotal(r) ==
    LET priced == SelectSeq(r.items, LAMBDA item : item.price # None)
    IN  IF priced = <<>> THEN None
        ELSE FoldLeft(LAMBDA sum, item : sum + item.price * item.quantity, 0, priced)

CartBlockers(r) ==
      One(Over(CartTotal(r), r.budget))
    + One(r.category = "desktop_pc" /\ {"cpu", "gpu"} \cap MissingSlots(r) # {})
    + One(\A i \in DOMAIN r.items : LineStatus(r.items[i]) = "warning")
CartWarnings(r) ==
    Cardinality({i \in DOMAIN r.items : LineStatus(r.items[i]) = "warning"})
    + Cardinality(MissingSlots(r)) + Cardinality(Duplicates(r))

CartVerdict(blockers, warnings) ==
    CASE blockers > 0 -> "blocker" [] OTHER -> FoundVerdict(warnings = 0)

\* The prefill says that delivery, returns and support are still to be captured, in the very
\* words that the scanner takes for their evidence.
CartToScanner(r) ==
    LET text == CartWords(r) \cup {"long30"}
    IN  ToScanner(r, {}, text, CartTotal(r), Expected(text),
                  FirstSize(Each(r.items, LAMBDA item : item.text), Memories),
                  DecodedStorage(text), {"delivery", "returns", "support"})

CartToApproval(r) ==
    [kit |-> "approval", category |-> r.category,
     verdict |-> Decided(CartVerdict(CartBlockers(r), CartWarnings(r))),
     budget |-> r.budget, total |-> CartTotal(r),
     blockers |-> CartBlockers(r), warnings |-> CartWarnings(r),
     reasons |-> 2 + One(Duplicates(r) # {}),
     missing |-> First(Each(First(SetToSeq(MissingSlots(r)), 5), LAMBDA slot : {"option", slot})
                       \o <<{"delivery"}, {"returns"}, {"support"}>>, 7)]

CartKit(r) ==
    Answer(CartVerdict(CartBlockers(r), CartWarnings(r)),
           Score(100 - 28 * CartBlockers(r) - 7 * CartWarnings(r)),
           [slots |-> FoundVerdict(MissingSlots(r) = {}),
            duplicates |-> FoundVerdict(Duplicates(r) = {}),
            lines |-> Worst({LineStatus(r.items[i]) : i \in DOMAIN r.items})],
           {CartToScanner(r), CartToApproval(r)})
=============================================================================
