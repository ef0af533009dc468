-------------------------- MODULE MCPurchaseCase --------------------------
(* A few requests to each kit, from a clean one to one with a flaw or two,  *)
(* and what speaks against a purchase more.                                 *)
EXTENDS PurchaseCase

Parts == {"Ryzen", "RTX", "RAM32", "SSD1TB", "Windows", "long18", "long30", "long40"}
Clean == <<{"total"}, {"option"}, {"support"}>>

Reply == [kit |-> "reply", category |-> "desktop_pc", question |-> {"asks"}, title |-> {},
          summary |-> Parts \cup {"returns"}, usage |-> {}, notes |-> <<>>, ready |-> Clean,
          missing |-> <<>>, budget |-> 200, price |-> 190]

Journey == [kit |-> "journey", category |-> "desktop_pc", question |-> {"asks"}, title |-> {},
            listing |-> Parts \cup {"returns"}, reviews |-> <<{"good"}>>, ready |-> Clean,
            missing |-> <<>>, budget |-> 200, price |-> 190, stage |-> "candidate"]

Final == [kit |-> "final", category |-> "desktop_pc", budget |-> 200, price |-> 190,
          status |-> [s \in Signals |-> "ok"], score |-> [s \in Signals \ {"evidence"} |-> 88],
          ready |-> Clean, missing |-> <<>>, blocking |-> <<>>, doubts |-> <<>>]

Lock == [kit |-> "lock", category |-> "desktop_pc", budget |-> 200, price |-> 190, quantity |-> 1,
         screen |-> Parts \cup {"title", "seller", "support", "returns", "delivery"},
         locked |-> [price |-> 190, seller |-> TRUE, parts |-> {"cpu", "gpu", "os", "warranty", "return"},
                     ram |-> 32, storage |-> 1000]]

Execution == [kit |-> "execution", category |-> "desktop_pc", verdict |-> "ready", price |-> 190,
              budget |-> 200, blockers |-> 0, warnings |-> 0, missing |-> <<>>, ready |-> Clean]

Reviewer == [kit |-> "reviewer", category |-> "desktop_pc", price |-> 190, budget |-> 200,
             confidence |-> 90, blockers |-> 0, warnings |-> 0, reasons |-> 2, watchouts |-> <<>>,
             missing |-> <<>>]

Triage == [kit |-> "triage", category |-> "desktop_pc", question |-> {"price"}, title |-> {},
           listing |-> Parts \cup {"total", "returns"}, total |-> 190, budget |-> 200, stage |-> "candidate"]

Review == [kit |-> "review", category |-> "laptop", title |-> {},
           snippets |-> <<{"good"}, {"good"}, {"good"}>>, rating |-> 45, count |-> 200, budget |-> 200]

Scanner == [kit |-> "scanner", category |-> "desktop_pc", title |-> {}, option |-> Parts, total |-> 180,
            budget |-> 200, expects |-> {"cpu", "gpu", "os"}, ram |-> 32, storage |-> 1000,
            evidence |-> {"total", "delivery", "returns", "support", "seller"}]

Decoder == [kit |-> "decoder", category |-> "desktop_pc", title |-> Parts, option |-> {}, total |-> 190,
            budget |-> 200]

Nudge == [kit |-> "nudge", category |-> "desktop_pc", verdict |-> "ready", blockers |-> 0, warnings |-> 0,
          missing |-> <<>>]

Terms == [kit |-> "terms", category |-> "laptop", title |-> {}, option |-> Parts, terms |-> {},
          long80 |-> FALSE, budget |-> 200]

Line(text, price) == [text |-> text, price |-> price, quantity |-> 1]
Cart == [kit |-> "cart", category |-> "desktop_pc", budget |-> 200,
         items |-> <<Line({"Ryzen"}, 40), Line({"RTX"}, 70), Line({"RAM32"}, 12), Line({"SSD1TB"}, 10),
                     Line({"motherboard"}, 20), Line({"psu"}, 15), Line({"case"}, 10)>>]
LaptopCart == [Cart EXCEPT !.category = "laptop", !.items = <<Line({"laptop"}, 150), Line({"RAM16"}, 5),
                                                          Line({"SSD512"}, 7), Line({"Windows"}, 15)>>]

Page == [kit |-> "page", category |-> "desktop_pc", title |-> Parts, page |-> Parts \cup {"inStock", "freeShipping"},
         amounts |-> {190}, shipping |-> None, discount |-> None, overlap |-> 100, risks |-> <<>>,
         budget |-> 200, expects |-> {"cpu"}, ram |-> 32, storage |-> None]

Seller == [kit |-> "seller", category |-> "desktop_pc", title |-> {}, verdict |-> "ready", budget |-> 200,
           total |-> 190, risks |-> <<>>, missing |-> <<>>, confirm |-> <<>>,
           answer |-> {"same", "returns", "support"}]

Approval == [kit |-> "approval", category |-> "desktop_pc", verdict |-> "ready", budget |-> 200,
             total |-> 190, blockers |-> 0, warnings |-> 0, reasons |-> 2, missing |-> <<>>]

Deal == [kit |-> "deal", category |-> "desktop_pc", listed |-> 190, reference |-> 210, lowest |-> 185,
         budget |-> 200, shipping |-> 0, coupon |-> 0, points |-> 0, warranty |-> 24, returns |-> 14,
         stock |-> 20, hours |-> 48, rating |-> 98, count |-> 200, risks |-> <<>>, evidence |-> {}]

Breakdown == [kit |-> "breakdown", category |-> "desktop_pc", listed |-> 190, quantity |-> 1, shipping |-> 0,
              fees |-> 0, coupon |-> 0, points |-> 0, budget |-> 200, reference |-> 195, hours |-> 48,
              stock |-> 20, risks |-> <<>>]

Setup == [kit |-> "setup", category |-> "desktop_pc", cpu |-> "Ryzen7", gpu |-> "RTX4070", ram |-> 32,
          storage |-> 1000, psu |-> 750, form |-> "tower", weight |-> None, battery |-> None,
          monitor |-> "qhd", purpose |-> {"game"}, budget |-> 200]
CarriedSetup == [Setup EXCEPT !.category = "laptop", !.gpu = "RTX4060", !.purpose = {"edit", "portable"}, !.psu = None,
                              !.form = "none", !.weight = 19, !.battery = 70]

Blueprint == [kit |-> "blueprint", category |-> "desktop_pc", budget |-> 200, purpose |-> {"game"},
              mode |-> "performance", portability |-> "none", monitor |-> "qhd", musts |-> 2, exclusions |-> <<>>,
              owned |-> FALSE]
SmallBlueprint == [Blueprint EXCEPT !.budget = 50, !.mode = "budget", !.purpose = {"develop"}, !.monitor = "4k"]
LaptopBlueprint == [Blueprint EXCEPT !.category = "laptop", !.portability = "portable", !.purpose = {"edit", "portable"}]

Upgrade == [kit |-> "upgrade", category |-> "desktop_pc", ram |-> 32, ramSlots |-> 4, ramUsed |-> 2,
            diskSlots |-> 2, diskUsed |-> 1, platform |-> "current", psu |-> 750, form |-> "tower",
            ramUpgradeable |-> None, diskUpgradeable |-> None, years |-> 3, planned |-> {"gpu"}]
LaptopUpgrade == [Upgrade EXCEPT !.category = "laptop", !.ramUpgradeable = TRUE, !.diskUpgradeable = TRUE,
                                 !.ram = 16]

Benchmark == [kit |-> "benchmark", category |-> "desktop_pc", expected |-> [cpu |-> 100, gpu |-> 100, ssd |-> 100],
              observed |-> [cpu |-> 98, gpu |-> 90, ssd |-> 100], cpuTemp |-> 85, gpuTemp |-> 80, drivers |-> TRUE,
              throttling |-> FALSE, crashes |-> 0, fan |-> "none", links |-> TRUE]

Warranty == [kit |-> "warranty", category |-> "desktop_pc", cost |-> 190, returns |-> 14, doa |-> 7, months |-> 24,
             openedBox |-> TRUE, provider |-> "maker", transferable |-> TRUE, fee |-> 2, restocking |-> 0,
             policy |-> {}]

Ownership == [kit |-> "ownership", category |-> "desktop_pc", cost |-> 190, years |-> 3, rate |-> None, upkeep |-> 5,
              upgrade |-> 20, downtime |-> 0, daily |-> 10, months |-> 36, signal |-> "high", conditions |-> <<>>]

Aftercare == [kit |-> "aftercare", category |-> "desktop_pc", purchase |-> -5, delivered |-> -3, paid |-> 190,
              expected |-> 195, returns |-> 7, months |-> 12, issues |-> <<>>]

Boot == [kit |-> "boot", category |-> "laptop", issues |-> <<>>, missingDrivers |-> {}, registered |-> TRUE,
         bios |-> TRUE, connected |-> TRUE, os |-> "Windows", resolution |-> TRUE]

Defect == [kit |-> "defect", category |-> "laptop", purchase |-> -5, delivered |-> -2, deadline |-> None,
           warrantyEnd |-> None, issues |-> <<>>, failed |-> <<{"noise"}>>, benchmark |-> "ok",
           proofs |-> <<{"receipt", "photo"}, {"serial", "log"}>>, responses |-> 1, policyKnown |-> TRUE,
           order |-> TRUE, paid |-> 190]

Outcome == [kit |-> "outcome", category |-> "desktop_pc", outcome |-> "purchased", plan |-> 195, paid |-> 190, budget |-> 200,
            satisfaction |-> 9, issues |-> <<>>, regrets |-> 0, reasons |-> 2]

Negotiation == [kit |-> "negotiation", category |-> "desktop_pc", current |-> 205, wish |-> 190, budget |-> 200,
                competing |-> 195, ship |-> 1, bundle |-> 3, stock |-> 20, urgency |-> "normal", risks |-> <<>>,
                keep |-> 2]

Stress == [kit |-> "stress", category |-> "desktop_pc", budget |-> 200, target |-> 196, flexible |-> TRUE, wait |-> 14,
           tolerance |-> "normal"]

Seen(listed, seller) ==
    [listed |-> listed, shipping |-> 1, discount |-> 2, age |-> 20, stock |-> 20, affiliate |-> FALSE,
     alternative |-> TRUE, proof |-> {"screenshot", "checkout", "url"}, conditions |-> {}, source |-> seller,
     seller |-> seller]
Trust == [kit |-> "trust", category |-> "desktop_pc", report |-> 190, seller |-> "a",
          candidates |-> <<Seen(191, "a"), Seen(189, "b")>>]

Mistake == [kit |-> "mistake", category |-> "laptop", budget |-> 200, quantity |-> 1, urgency |-> "low",
            selected |-> <<"price_timing_loss">>]

\* The kits that choose from the catalog, from their own candidates, and what comes before and after.
Analyze == [kit |-> "analyze", category |-> "desktop_pc", budget |-> 210, purpose |-> {"game", "edit"},
            needs |-> <<"ram32">>, refuses |-> <<>>]
Choice == [kit |-> "compare", category |-> "desktop_pc", budget |-> 210, purpose |-> {"qhd", "edit"}]
Catalog == {[Choice EXCEPT !.kit = k, !.category = c, !.budget = b] :
               k \in {"compare", "timing", "watch"}, c \in {"desktop_pc", "laptop"}, b \in {210, 20, None}}
Rescue == [kit |-> "rescue", category |-> "laptop", budget |-> 210, purpose |-> {"portable"}, verdict |-> "ready",
           blockers |-> 0, warnings |-> 0, missing |-> <<>>, product |-> 2]
Quizzes == {[kit |-> "quiz", category |-> "laptop", answers |-> answers] :
               answers \in {<<>>, <<"creator_work", "budget_premium">>, <<"budget_tight", "can_wait">>,
                             <<"team_refresh">>, <<"portable_work", "budget_balanced">>}}

Offer(listed, gpu) ==
    [listed |-> listed, fees |-> 2, discount |-> 4, title |-> {}, gpu |-> gpu, ram |-> 32, storage |-> 1000,
     warranty |-> 24, returns |-> 14, stock |-> "in_stock", risks |-> <<>>, evidence |-> {"returns"},
     given |-> {"url", "seller", "cpu", "os"}]
Custom == [kit |-> "custom", category |-> "desktop_pc", budget |-> 210, purpose |-> {"game", "edit"},
           offers |-> <<Offer(190, "RTX4070"), Offer(160, "RTX4060")>>]
OneCard == [Custom EXCEPT !.offers = <<Offer(190, "RTX4080"), Offer(205, "RTX4080")>>]

Stakeholder(priority, budget, musts, breakers) ==
    [priority |-> priority, budget |-> budget, musts |-> musts, nices |-> <<>>, breakers |-> breakers,
     timeline |-> "normal", risk |-> "low"]
Consensus == [kit |-> "consensus", category |-> "desktop_pc", budget |-> None, purpose |-> {"edit"},
              timing |-> "normal",
              stakeholders |-> <<Stakeholder("high", 210, <<"ram32">>, <<"used">>),
                                 Stakeholder("low", 200, <<"upgrade">>, <<"8GB">>),
                                 Stakeholder("normal", None, <<"ram32", "Windows">>, <<"noSource">>)>>]
Defense == [kit |-> "defense", category |-> "desktop_pc", budget |-> 200, price |-> 190, decision |-> "ready",
            confidence |-> 90, watchouts |-> <<>>, proven |-> 4, alternatives |-> 0]

\* Cases at the limits: a dear computer, a dear cart, a long cart of lines that nobody knows.
DearReply == [Reply EXCEPT !.budget = 5000, !.price = 4800]
DearDeal == [Deal EXCEPT !.budget = 7000, !.listed = 6000, !.reference = 6500, !.lowest = 5900]
DearCart == [Cart EXCEPT !.budget = 3000, !.items[2].price = 2950]
PaidByCoupon == [Page EXCEPT !.discount = 195]
LongCart == [Cart EXCEPT !.items = [i \in 1..16 |-> Line({"unknown"}, 5)]]

\* Remarks that come before what the kit adds to them, and a cart without the part that decides.
NotedReply == [Reply EXCEPT !.notes = <<{"imported"}, {"display"}, {"loud"}>>]
NoGpuCart == [Cart EXCEPT !.items = SelectSeq(@, LAMBDA line : line.text # {"RTX"})]

\* Requests whose lists of risks have room for one more risk, and for none after it.
Small == <<{"loud"}, {"dusty"}, {"late"}, {"glossy"}, {"heavy"}, {"bright"}, {"slow"}>>
CrowdedReply == [Reply EXCEPT !.notes = Small, !.price = 225]
CrowdedSeller == [Seller EXCEPT !.risks = Small, !.title = {"used"}]
CrowdedPage == [Page EXCEPT !.risks = Small, !.page = @ \cup {"used"}]
CrowdedOffers == [Custom EXCEPT !.offers[1].risks = Small, !.offers[1].title = {"used"},
                                !.offers[2].stock = "sold_out"]
Crowded == {CrowdedReply, CrowdedSeller, CrowdedPage, CrowdedOffers}

MCPosted == {NotedReply, NoGpuCart, DearReply, DearDeal, DearCart, LongCart, PaidByCoupon, Reply, Journey, Final, Lock, Execution, Reviewer, Triage, Review, Scanner, Decoder, Nudge,
             Terms, Cart, LaptopCart, Page, Seller, Approval, Deal, Breakdown, Setup, CarriedSetup, Blueprint, SmallBlueprint, LaptopBlueprint,
             Upgrade, LaptopUpgrade, Warranty, Ownership, Aftercare, Boot,
             [Boot EXCEPT !.category = "desktop_pc", !.bios = FALSE], Defect, Outcome, Negotiation, Stress, Trust,
             [Trust EXCEPT !.seller = "none"], Mistake, Benchmark, [Benchmark EXCEPT !.category = "laptop"],
             Analyze, [Analyze EXCEPT !.category = "laptop", !.needs = <<"portable">>, !.budget = None],
             Rescue, [Rescue EXCEPT !.product = None], Custom, OneCard, Consensus,
             [Consensus EXCEPT !.stakeholders = <<>>], Defense} \cup Crowded \cup Catalog \cup Quizzes

-----------------------------------------------------------------------------
Bad == {"used", "noReturn", "noSupport", "defect"}
Amounts == <<180, 190, 196, 205, 212, 225, 240>>
HigherThan(amount) == {Amounts[i + 1] : i \in {i \in 1..6 : Amounts[i] = amount}}

MCWorse(field, value) ==
    CASE field \in {"question", "title", "summary", "usage", "option"} -> {value \cup {word} : word \in Bad}
      [] field = "listing" -> {value \cup {word} : word \in Bad} \cup {v \in {{"Ryzen"}} : value \cap Bad = {}}
      [] field \in {"screen", "evidence"} ->
            {value \ {word} : word \in {"support", "delivery", "seller", "Windows", "title"}}
      [] field = "page" -> {value \cup {word} : word \in {"used", "noReturn", "lowStock", "soldOut"}}
      [] field = "answer" -> {value \cup {"noReturn"}, value \ {"same"}, {}}
      [] field = "terms" -> {value \cup {word} : word \in {"used", "FreeDOS", "unknown"}}
      [] field \in {"price", "total", "listed"} -> HigherThan(value) \cup {v \in {None} : value = 190 /\ field # "listed"}
      [] field = "amounts" -> {{v} : v \in UNION {HigherThan(a) : a \in value}}
      [] field \in {"missing", "confirm", "watchouts"} -> {value \o <<{word}>> : word \in {"support", "price"}}
      [] field \in {"notes", "blocking", "doubts", "risks", "reviews"} -> {value \o <<{word}>> : word \in {"noReturn", "used", "defect"}}
            \cup {value \o <<{word}>> : word \in {w \in {"odd", "small"} : Len(value) >= 7 /\ {w} \notin Elements(value)}}
      [] field = "snippets" -> {<<{word}>> \o Tail(value) : word \in {w \in {"noReturn", "defect"} : value # <<>>}}
      [] field = "ready" -> {SubSeq(value, 1, Len(value) - 1)}
      [] field \in {"blockers", "warnings"} -> {n \in {value + 1} : n <= 3}
      [] field = "verdict" -> IF value = "ready" THEN {"verify", "hold"} ELSE {"hold"}
      [] field = "status" -> UNION {{[value EXCEPT ![s] = v] : v \in {v \in Verdict : Rank(v) > Rank(value[s])}} : s \in DOMAIN value}
      [] field = "score" -> {[value EXCEPT ![s] = v] : s \in DOMAIN value, v \in {40}}
      [] field = "confidence" -> {n \in {70, 40} : n < value}
      [] field = "reasons" -> {n \in {0} : n < value}
      [] field = "quantity" -> {value + 1}
      [] field = "rating" -> {n \in {35} : value # None /\ n < value}
      [] field = "overlap" -> {n \in {50, 20} : n < value}
      [] field = "shipping" -> {n \in {10} : value # None /\ n > value}
      [] field = "fees" -> {n \in {15} : n > value}
      [] field = "warranty" -> {n \in {6, 0} : n < value}
      [] field = "returns" -> {n \in {3, 0} : n < value}
      [] field \in {"stock", "hours"} -> {n \in {2} : value # None /\ n < value}
      [] field = "ram" -> {n \in {16, 8} : value # None /\ n < value}
      [] field \in {"storage", "psu"} -> {n \in {900, 700, 600, 255} : value # None /\ n < value}
      [] field = "battery" -> {n \in {50} : value # None /\ n < value} \cup {v \in {None} : value = 70}
      [] field = "weight" -> {n \in {21} : value # None /\ n > value}
      [] field = "cpu" -> {cpu \in {"Ryzen3", "other"} : value = "Ryzen7"}
      [] field = "form" -> {form \in {"mini", "slim"} : value = "tower"}
      [] field = "exclusions" -> {value \o <<{"used"}>>}
      [] field = "purpose" -> {value \cup {"edit"}}
      [] field \in {"ramUsed", "diskUsed"} -> {n \in {value + 1} : n <= 4}
      [] field = "diskSlots" -> {0}
      [] field = "platform" -> {"old"}
      [] field \in {"ramUpgradeable", "diskUpgradeable"} -> {v \in {None} : value = TRUE} \cup {v \in {FALSE} : value # FALSE}
      [] field = "years" -> {n \in {5} : n > value}
      [] field = "planned" -> {value \cup {"ssd", "ram"}}
      [] field = "observed" -> UNION {{[value EXCEPT ![c] = v] : v \in {n \in {80, 75} : n < value[c]}} : c \in DOMAIN value}
      [] field \in {"cpuTemp", "gpuTemp"} -> {n \in {90, 100, 105} : n > value}
      [] field \in {"drivers", "links"} -> {FALSE}
      [] field = "throttling" -> {TRUE}
      [] field = "crashes" -> {n \in {value + 1} : n <= 6}
      [] field = "fan" -> {"noisy"}
      [] field = "doa" -> {n \in {3, 0} : n < value}
      [] field \in {"openedBox", "transferable", "registered", "bios", "connected", "resolution", "policyKnown", "order",
                    "flexible"} -> {v \in {FALSE} : value}
      [] field = "provider" -> {"seller"}
      [] field = "restocking" -> {n \in {10} : n > value}
      [] field = "policy" -> {value \cup {word} : word \in {"noReturn", "noOpened", "noSupport", "parallel"}}
      [] field = "months" -> {n \in {13, 6, 0} : n < value}
      [] field \in {"upgrade", "upkeep"} -> {n \in {value + 30} : n < 200}
      [] field = "downtime" -> {value + 2}
      [] field = "signal" -> {"other", "low"} \ {value}
      [] field \in {"conditions", "issues", "failed"} ->
            {value \o <<{word}>> : word \in {"noise", "used", "noSupport", "defect", "crash", "heat"}}
      [] field \in {"delivered", "deadline"} -> {n \in {-6, -9} : value # None /\ n < value}
      [] field = "paid" -> HigherThan(value)
      [] field = "target" -> HigherThan(value)
      [] field = "missingDrivers" -> {value \cup {d} : d \in {"graphics", "other"}}
      [] field = "os" -> {"FreeDOS"}
      [] field = "benchmark" -> {v \in Verdict : Rank(v) > Rank(value)}
      [] field \in {"responses", "keep", "wait"} -> {n \in {0} : n < value}
      [] field = "proofs" -> {Tail(value) : v \in {1} \cap DOMAIN value}
      [] field = "satisfaction" -> {n \in {7, 4} : n < value}
      [] field = "regrets" -> {value + 1}
      [] field = "outcome" -> {"returned", "delayed"} \ {value, IF value = "returned" THEN "delayed" ELSE value}
      [] field = "urgency" -> IF value = "low" THEN {"urgent"} ELSE {"today" : v \in {value} \cap {"normal"}}
      [] field = "tolerance" -> {"low"}
      [] field = "candidates" ->
            UNION {{[value EXCEPT ![i].listed = v] : v \in {200}} \cup {[value EXCEPT ![i].age = v] : v \in {v \in {60, 200, None} : value[i].age = 20}}
                   \cup {[value EXCEPT ![i].affiliate = TRUE, ![i].alternative = FALSE], [value EXCEPT ![i].proof = {"url"}],
                          [value EXCEPT ![i].stock = 2], [value EXCEPT ![i].conditions = {"used"}]} : i \in DOMAIN value}
      [] field = "offers" ->
            UNION {{[value EXCEPT ![i].listed = v] : v \in {n \in {205, 230} : n > value[i].listed}}
                   \cup {[value EXCEPT ![i].stock = s] : s \in IF value[i].stock = "in_stock" THEN {"limited"} ELSE {"sold_out"}}
                   \cup {[value EXCEPT ![i].risks = @ \o <<{"imported"}>>], [value EXCEPT ![i].title = @ \cup {"noReturn"}],
                          [value EXCEPT ![i].ram = 16], [value EXCEPT ![i].warranty = 12]}
                   \cup {[value EXCEPT ![i].risks = @ \o <<{"odd"}>>] : w \in {w \in {7} : Len(value[i].risks) = w}} : i \in DOMAIN value}
      [] field = "stakeholders" ->
            UNION {{[value EXCEPT ![i].timeline = t] : t \in {t \in {"urgent", "wait"} : value[i].timeline = "normal"}}
                   \cup {[value EXCEPT ![i].breakers = @ \o <<"FreeDOS">>], [value EXCEPT ![i].nices = @ \o <<"used">>]}
                   \cup {[value EXCEPT ![i].budget = v] : v \in {n \in {120, 150} : i = 2 /\ value[i].budget > n}}
                       : i \in DOMAIN value}
      [] field = "needs" -> {value \o <<need>> : need \in {"portable", "qhd"}}
      [] field = "refuses" -> {value \o <<tag>> : tag \in {"8GB", "over_budget", "low_risk"}}
      [] field = "budget" -> {n \in {180, 120} : value = 210 /\ n < value}
      [] field = "decision" -> IF value = "ready" THEN {"verify", "hold"} ELSE {"hold"}
      [] field = "proven" -> {n \in {1} : n < value}
      [] field = "alternatives" -> {n \in {2} : n > value}
      [] field = "selected" -> {value \o <<risk>> : risk \in {"compatibility_blocker", "approval_rework"}}
      [] field = "items" ->
            {[value EXCEPT ![i].text = @ \cup {"used"}] : i \in {1}} \cup {[value EXCEPT ![i].price = 120] : i \in {2}}
            \cup {SubSeq(value, 1, Len(value) - 1)}
      [] OTHER -> {}
=============================================================================
