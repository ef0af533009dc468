------------------------------- MODULE KitText -------------------------------
(* The texts and lists that the public decision kits read.  A text is the   *)
(* set of the words found in it that some kit looks for; amounts are in     *)
(* units of 10,000 won.                                                     *)
(*                                                                          *)
(* Words: used (refurbished, display, second hand, imported), noReturn and  *)
(* noSupport ("no returns", "no support"), noReturnJoined (noReturn without *)
(* its blank), defect (a complaint such as failure or noise), returns and   *)
(* support (the policies), delivery, the parts Ryzen and RTX, the sizes in  *)
(* DOMAIN Size, FreeDOS, and the nouns spec, option, total, price, seller.  *)
(* The words asks, long30 and long40 say that a text has the 8, 30 or 40    *)
(* characters that a kit wants.  Texts that the kits generate have words of *)
(* their own.                                                               *)
EXTENDS FiniteSets, Sequences, Verdicts

CONSTANT None      \* an optional amount that is not given

ASSUME NoneAssumption == None \notin Int

\* An optional amount over the budget, and over 108 % of it.
Over(price, budget) == price # None /\ price > budget
FarOver(price, budget) == price # None /\ 100 * price > 108 * budget

\* An optional amount that counts as 0 when it is not given, and one that should be large:
\* what is not known is only a warning.
OrZero(amount) == IF amount = None THEN 0 ELSE amount
Enough(amount, warning, ok) ==
    IF OrZero(amount) = 0 THEN "warning" ELSE AtLeast(amount, warning, ok)

\* The items at some places, in their order: no fold or SelectSeq, so that the prover sees through it.
At(items, places) ==
    [n \in 1..Cardinality(places) |->
        items[CHOOSE i \in places : Cardinality({j \in places : j < i}) = n - 1]]

\* items[:n], [item for item in items if ...], and list(dict.fromkeys(items)).
First(items, n) == SubSeq(items, 1, AtMost(Len(items), n))
Only(items, Test(_)) == At(items, {i \in DOMAIN items : Test(items[i])})
Distinct(items) == At(items, {i \in DOMAIN items : \A j \in 1..(i - 1) : items[j] # items[i]})
When(p, item) == IF p THEN <<item>> ELSE <<>>
Each(items, As(_)) == [i \in DOMAIN items |-> As(items[i])]
Or(items, default) == IF items = <<>> THEN default ELSE items
Elements(items) == {items[i] : i \in DOMAIN items}
List(items) == items \in Seq(Elements(items))
AllOf(items) == UNION Elements(items)

\* The sizes of memory and disks, as the number before GB or TB.
Size == [RAM8 |-> 8, RAM16 |-> 16, RAM32 |-> 32, SSD512 |-> 512, SSD1TB |-> 1]
Sizes(text) == {Size[word] : word \in text \cap DOMAIN Size}

\* SPEC_TERMS.
HasSpec(text) == text \cap ({"Ryzen", "RTX", "FreeDOS"} \cup DOMAIN Size) # {}

\* What a text says of returns or support, good or bad.
Policies == {"returns", "noReturn", "noReturnJoined", "support", "noSupport"}
HasPolicy(text) == text \cap Policies # {}

\* The complaints that the kits count as review risks; the abbreviation for support is one.
ReviewRisks == {"defect", "support", "noSupport"}

\* The flag names the complaints that it found, support by its abbreviation alone.
ReviewFlag(text) ==
    When(text \cap ReviewRisks # {},
         {"review risk"} \cup (text \cap {"defect"})
                         \cup {w \in {"support"} : text \cap {"support", "noSupport"} # {}})

\* RISK_TERMS, of which "no support" is found in both its spellings.
RiskTerms(text) ==
       When("used" \in text, {"used"}) \o When("noReturn" \in text, {"noReturn"})
    \o When("noReturnJoined" \in text, {"noReturnJoined"})
    \o IF "noSupport" \in text THEN <<{"noSupport"}, {"nosupport"}>> ELSE <<>>

\* A refusal that the kits spell with a blank.
Refused(item) == item \cap {"noReturn", "noSupport"} # {}

Missing(item) == item \cup {"missing evidence"}

\* round(n / d) of Python: to the nearest, and to the even one of two nearest.
Round(n, d) ==
    LET q == n \div d
        r == n % d
    IN  IF 2 * r > d \/ (2 * r = d /\ q % 2 = 1) THEN q + 1 ELSE q

Score(n) == Clamp(n, 0, 100)

\* The checks of an answer, and the verdicts of a check.
Values(checks) == {checks[c] : c \in DOMAIN checks}
Tally(checks, verdict) == Cardinality({c \in DOMAIN checks : checks[c] = verdict})
MatchVerdict(p) == IF p THEN "ok" ELSE "blocker"
FoundVerdict(p) == IF p THEN "ok" ELSE "warning"

\* The share of x in percent, cut down to an integer.
Percent(x, percent) == (x * percent) \div 100

\* hold, verify and ready (go, buy) are the verdicts of the decision kits.
Decided(verdict) ==
    CASE verdict = "blocker" -> "hold" [] verdict = "warning" -> "verify" [] verdict = "ok" -> "ready"

\* What a kit answers: a verdict, a score, the status of what it checks, and the requests that
\* it fills in for other kits.
Answer(verdict, score, checks, handoffs) ==
    [verdict |-> verdict, score |-> score, checks |-> checks, handoffs |-> handoffs]

\* The handler raises.
Failed == Answer("failed", 0, [c \in {} |-> "ok"], {})
=============================================================================
