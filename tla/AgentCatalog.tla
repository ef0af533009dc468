---------------------------- MODULE AgentCatalog ----------------------------
(* The catalog that the purchase agent and the comparison kits choose from, *)
(* and what the services say of its candidates: compatibility, price, trust *)
(* in the sources, risks in the reviews.                                    *)
(*                                                                          *)
(* Catalog prices are in units of 1,000 won, trust is in percent, a disk is *)
(* in units of 100 GB, a weight in units of 10 g.                           *)
EXTENDS KitText

\* A row of the price catalog: what is asked, and what is added and taken off.
Asks(price, shipping, coupon, assembly, card, stock, source) ==
    [price |-> price, shipping |-> shipping, coupon |-> coupon, assembly |-> assembly,
     card |-> card, stock |-> stock, source |-> source]

DesktopPrices ==
    <<Asks(1980, 0,  70, 35, 20, "in_stock", "price_compare"),
      Asks(1640, 5,  60, 35, 30, "limited",  "open_market"),
      Asks(2070, 0,  30, 45,  0, "in_stock", "pc_builder"),
      Asks(1140, 5,  20, 35,  0, "in_stock", "open_market"),
      Asks(2930, 0, 120, 45, 50, "in_stock", "official_store")>>

LaptopPrices ==
    <<Asks(2290, 0, 120, 0, 40, "in_stock", "official_store"),
      Asks(1890, 0,  80, 0, 30, "limited",  "price_compare"),
      Asks(2390, 0,   0, 0,  0, "in_stock", "official_store"),
      Asks(1760, 0,  60, 0, 20, "in_stock", "open_market"),
      Asks(2190, 0, 100, 0, 30, "in_stock", "official_store")>>

\* The trust in the reviews.  Each review names one risk.
DesktopReviews == <<91, 84, 87, 76, 88>>
LaptopReviews == <<89, 86, 90, 81, 85>>

Desktop(cpu, socket, gpu, ram, disk, psu, gpuRoom, coolerRoom, slots, tags) ==
    [category |-> "desktop_pc", cpu |-> cpu, boardSocket |-> socket, cpuSocket |-> socket, gpu |-> gpu,
     ram |-> ram, disk |-> disk, psu |-> psu, gpuRoom |-> gpuRoom, coolerRoom |-> coolerRoom,
     slots |-> slots, tags |-> tags]
Desktops ==
    <<Desktop("Ryzen7", "AM5", "RTX4070", 32, 10, 750, 55, 15, 3,
              {"qhd_gaming", "video_editing", "upgrade_ready", "low_risk"}),
      Desktop("Ryzen5", "AM5", "RTX4060Ti", 32, 10, 650, 85, 10, 2, {"qhd_entry", "budget_control", "quiet_first"}),
      Desktop("Corei7", "LGA1700", "RTX4070", 32, 20, 750, 50, 7, 2, {"video_editing", "multi_core", "large_project"}),
      Desktop("Ryzen5", "AM4", "RX7600", 16, 10, 600, 30, 1, 1, {"fhd_gaming", "lowest_price", "entry"}),
      Desktop("Ryzen9", "AM5", "RTX4080", 64, 20, 850, 30, 3, 4, {"4k_gaming", "heavy_creator", "over_budget"})>>

Laptop(cpu, gpu, ram, disk, weight, battery, tags) ==
    [category |-> "laptop", cpu |-> cpu, gpu |-> gpu, ram |-> ram, disk |-> disk, weight |-> weight,
     battery |-> battery, external |-> gpu \in {"RTX4060", "RTX4050"}, slots |-> 0, tags |-> tags]
Laptops ==
    <<Laptop("RyzenAI", "RTX4060", 32, 10, 185, 90, {"creator", "color_work", "gpu_acceleration"}),
      Laptop("Ryzen7", "RTX4050", 32, 10, 159, 73, {"portable_creator", "balanced", "student"}),
      Laptop("M4", "integrated", 16, 5, 155, 72, {"macos", "battery", "quiet", "premium"}),
      Laptop("CoreUltra", "Arc", 16, 10, 119, 77, {"lightweight", "office", "developer"}),
      Laptop("CoreUltra", "RTX4050", 32, 10, 186, 86, {"premium_windows", "creator", "business"})>>

\* A product with its price and review.  The number is its place in the catalog.
EffectivePriceOf(asks) == asks.price + asks.shipping + asks.assembly - asks.coupon - asks.card

Product(specs, asks, trust, number) ==
    [number |-> number, specs |-> specs, price |-> EffectivePriceOf(asks), limited |-> asks.stock = "limited",
     inStock |-> asks.stock \in {"in_stock", "limited"}, source |-> asks.source,
     deal |-> asks.coupon > 0 \/ asks.card > 0, trust |-> trust, risks |-> 1]

Products(category) ==
    IF category = "laptop"
    THEN [n \in 1..5 |-> Product(Laptops[n], LaptopPrices[n], LaptopReviews[n], n)]
    ELSE [n \in 1..5 |-> Product(Desktops[n], DesktopPrices[n], DesktopReviews[n], n)]

-----------------------------------------------------------------------------
(* services/compatibility.py                                                *)

RequiredPSU(gpu) ==
    CASE gpu = "RTX4080" -> 850 [] gpu = "RTX4070" -> 750 [] gpu \in {"RTX4060Ti", "RX7600"} -> 650 [] OTHER -> 550

DesktopChecks(s) ==
    [socket |-> MatchVerdict(s.cpuSocket = s.boardSocket), power |-> FoundVerdict(s.psu >= RequiredPSU(s.gpu)),
     gpu_room |-> FoundVerdict(s.gpuRoom >= 25), cooler_room |-> FoundVerdict(s.coolerRoom >= 8),
     memory |-> FoundVerdict(s.ram >= 32)]
LaptopChecks(s) ==
    [memory |-> FoundVerdict(s.ram >= 32), gpu |-> FoundVerdict(s.external),
     portability |-> FoundVerdict(s.weight <= 180), battery |-> FoundVerdict(s.battery >= 70)]
CompatibilityChecks(s) == IF s.category = "laptop" THEN LaptopChecks(s) ELSE DesktopChecks(s)

CompatibilityScore(s) ==
    LET checks == CompatibilityChecks(s)
    IN  NotBelow(100 - 8 * Tally(checks, "warning") - 28 * Tally(checks, "blocker"), 35)

-----------------------------------------------------------------------------
(* services/pricing.py and trust.py                                         *)

\* How the price competes with the budget, times the budget.
PriceCompetitiveness(price, budget) ==
    CASE 100 * (price - budget) <= -12 * budget -> 100 * budget
      [] 100 * (price - budget) > -12 * budget /\ price <= budget -> 92 * budget + 40 * (budget - price)
      [] OTHER -> NotBelow(90 * budget - 140 * (price - budget), 30 * budget)

PurchaseStability(c) ==
    LET base == CASE c.source = "official_store" -> 92 [] c.source = "price_compare" -> 86
                  [] c.source = "pc_builder" -> 84 [] c.source = "open_market" -> 78 [] OTHER -> 76
    IN  NotBelow(base - 8 * One(c.limited) - 2 * One(c.deal), 50)

\* SOURCE_POLICIES: the confidence in a source; one below 80 % wants a person to review it.
Confidence(source) ==
    CASE source = "official_store" -> 92 [] source = "price_compare" -> 88 [] source = "pc_builder" -> 84
      [] source = "open_market" -> 78 [] source = "review_signal" -> 82 [] source = "benchmark" -> 80 [] OTHER -> 70
RequiresHumanReview(source) == Confidence(source) < 80

\* build_source_trust: the sources of the prices of all candidates, the reviews and the benchmarks.
SourceTrust(products) ==
    {products[n].source : n \in DOMAIN products} \cup {"review_signal", "benchmark"}

-----------------------------------------------------------------------------
\* The elements by a score, the highest first, equal ones as they were; by a rank, the lowest first.
Before(scores, j, i) == scores[j] > scores[i] \/ (scores[j] = scores[i] /\ j < i)
Sorted(items, scores) ==
    [n \in DOMAIN items |->
        items[CHOOSE i \in DOMAIN items : Cardinality({j \in DOMAIN items : Before(scores, j, i)}) = n - 1]]
ByScore(items, ScoreOf(_)) == Sorted(items, Each(items, ScoreOf))
ByRank(items, RankOf(_)) == ByScore(items, LAMBDA item : -RankOf(item))
=============================================================================
