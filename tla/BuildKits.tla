----------------------------- MODULE BuildKits -----------------------------
(* The public kits about a computer as it is built: the blueprint that      *)
(* splits a budget, the compatibility of a setup, its readiness for         *)
(* upgrades and the validation of a benchmark.                              *)
EXTENDS KitText, TLC

-----------------------------------------------------------------------------
(* Mistakes the kits could make; no specification uses them.                *)

\* Parts whose upper budgets exceed the budget are left as they are.
FitBudgetLeavesParts(parts, budget) == parts

-----------------------------------------------------------------------------
(* setup_compatibility.  A part is a word; purpose is a set of words, and   *)
(* weight is in units of 0.1 kg.                                            *)

GpuTiers == [RTX4090 |-> 6, RTX4080 |-> 5, RTX4070 |-> 4, RTX4060Ti |-> 3, RTX4060 |-> 2, integrated |-> 1]
CpuTiers == [Ryzen9 |-> 4, Ryzen7 |-> 3, Ryzen5 |-> 2, Ryzen3 |-> 1]
GpuTier(gpu) == IF gpu \in DOMAIN GpuTiers THEN GpuTiers[gpu] ELSE 0
CpuTier(cpu) == IF cpu \in DOMAIN CpuTiers THEN CpuTiers[cpu] ELSE 0

NeedsCreatorMemory(purpose) == purpose \cap {"edit", "qhd", "develop"} # {}
NeedsGpu(purpose) == purpose \cap {"edit", "qhd", "game"} # {}

GpuMonitor(r) ==
    LET tier == GpuTier(r.gpu)
    IN  IF r.category = "laptop" /\ NeedsGpu(r.purpose) /\ tier = 0 THEN "blocker"
        ELSE FoundVerdict(CASE r.monitor = "4k"  -> tier >= 4
                            [] r.monitor = "qhd" -> tier >= 2
                            [] r.monitor = "fhd" -> tier < 5)

CpuGpuBalance(r) ==
    FoundVerdict(/\ ~(GpuTier(r.gpu) >= 4 /\ CpuTier(r.cpu) <= 1)
                 /\ ~(NeedsCreatorMemory(r.purpose) /\ CpuTier(r.cpu) = 0))

RamCheck(r) == Enough(r.ram, 16, IF NeedsCreatorMemory(r.purpose) THEN 32 ELSE 16)
StorageCheck(r) == Enough(r.storage, 256, IF NeedsCreatorMemory(r.purpose) THEN 1000 ELSE 512)

RequiredPsu(gpu) == <<550, 550, 650, 650, 750, 850, 1000>>[GpuTier(gpu) + 1]
PsuCheck(r) == Enough(r.psu, Percent(RequiredPsu(r.gpu), 90), RequiredPsu(r.gpu))

FormFactor(r) ==
    IF GpuTier(r.gpu) < 4 THEN "ok"
    ELSE CASE r.form = "slim" -> "blocker" [] r.form = "mini" -> "warning" [] OTHER -> "ok"

\* Weight and battery only matter to a computer that is carried, but they must be known.
Weight(r) == FoundVerdict(OrZero(r.weight) # 0 /\ ("portable" \in r.purpose => r.weight <= 20))
Battery(r) == FoundVerdict(OrZero(r.battery) # 0 /\ ("portable" \in r.purpose => r.battery >= 60))

SetupChecks(r) ==
    IF r.category = "desktop_pc"
    THEN [gpu_monitor |-> GpuMonitor(r), cpu_gpu_balance |-> CpuGpuBalance(r), ram |-> RamCheck(r),
          storage |-> StorageCheck(r), psu |-> PsuCheck(r), form_factor |-> FormFactor(r)]
    ELSE [gpu_monitor |-> GpuMonitor(r), ram |-> RamCheck(r), storage |-> StorageCheck(r),
          weight |-> Weight(r), battery |-> Battery(r)]

\* The scanner is never told a total.
SetupToScanner(r) ==
    [kit |-> "scanner", category |-> r.category, title |-> {}, option |-> {}, total |-> None,
     budget |-> r.budget, expects |-> {"cpu", "gpu"}, ram |-> r.ram, storage |-> r.storage,
     evidence |-> {}]

SetupKit(r) ==
    LET checks == SetupChecks(r)
    IN  Answer(Worst(Values(checks)),
               Clamp(100 - 24 * Tally(checks, "blocker") - 9 * Tally(checks, "warning"), 10, 100),
               checks, {SetupToScanner(r)})

-----------------------------------------------------------------------------
(* build_blueprint.  A part is the lower and upper end of its budget, in    *)
(* units of 1,000 won, and its priority.                                    *)

Gaming(r) == r.purpose \cap {"game", "qhd"} # {}
Creator(r) == "edit" \in r.purpose
CarriedLight(r) == r.portability = "portable"

\* The shares of a desktop's and of a laptop's parts in percent of the budget.
DesktopShares(r) ==
    LET modest == One(r.mode = "budget")
    IN  [gpu |-> (IF Gaming(r) THEN 42 ELSE 34) - 4 * modest + 4 * One(r.mode = "performance"),
         cpu |-> (IF Gaming(r) THEN 18 ELSE 21) - modest,
         memory |-> 7, storage |-> 6, mainboard |-> 9, power_case |-> 10, os_assembly |-> 8]
LaptopShares == [cpu_gpu |-> 43, memory |-> 7, storage |-> 6, display |-> 14, mobility |-> 10, warranty |-> 10]
Shares(r) == IF r.category = "laptop" THEN LaptopShares ELSE DesktopShares(r)

\* What the buyer still has to settle.
PartPriorities(r) ==
    IF r.category = "laptop"
    THEN [cpu_gpu |-> FoundVerdict(~(CarriedLight(r) /\ Gaming(r))), memory |-> "warning", storage |-> "ok",
          display |-> "ok", mobility |-> FoundVerdict(~CarriedLight(r)), warranty |-> "warning"]
    ELSE [gpu |-> FoundVerdict(r.budget >= 140), cpu |-> "ok", memory |-> "ok", storage |-> "ok",
          mainboard |-> "warning", power_case |-> "warning", os_assembly |-> "warning"]

Component(budget, share) ==
    LET center == Percent(budget, share)
        low == NotBelow(Percent(center, 82), 30)
    IN  [low |-> low, high |-> NotBelow(Percent(center, 118), low + 10)]

\* The sum of the upper ends, part by part, so that the prover can add them up.
PlannedTotal(parts) ==
    LET high(p) == IF p \in DOMAIN parts THEN parts[p].high ELSE 0
    IN    high("gpu") + high("cpu") + high("mainboard") + high("power_case") + high("os_assembly")
        + high("memory") + high("storage")
        + high("cpu_gpu") + high("display") + high("mobility") + high("warranty")

FitBudget(parts, budget) ==
    LET total == PlannedTotal(parts)
    IN  IF total <= budget THEN parts
        ELSE [p \in DOMAIN parts |-> [low  |-> (parts[p].low * budget) \div total,
                                      high |-> (parts[p].high * budget) \div total]]

Components(r) ==
    LET shares == Shares(r)
    IN  FitBudget([p \in DOMAIN shares |-> Component(10 * r.budget, shares[p])], 10 * r.budget)

\* The parts' own conditions alone are more than the ten that are kept.
AvoidConditions == 10

BlueprintStatus(r) ==
    IF r.budget < 80 /\ (Gaming(r) \/ Creator(r)) THEN "blocker"
    ELSE FoundVerdict(/\ \A exclusion \in Elements(r.exclusions) : exclusion \cap {"used", "noReturn"} = {}
                      /\ "warning" \notin Values(PartPriorities(r))
                      /\ AvoidConditions < 7)

BlueprintScore(r) ==
    Score(88 + AtMost(2 * r.musts, 6) - 4 * One(r.owned) - 4 * Tally(PartPriorities(r), "warning")
          - AtMost(AvoidConditions \div 2, 8) - 25 * One(BlueprintStatus(r) = "blocker"))

BlueprintToSetup(r) ==
    LET laptop == r.category = "laptop"
        either(carried, desk) == IF laptop THEN carried ELSE desk
    IN  [kit |-> "setup", category |-> r.category, purpose |-> r.purpose, monitor |-> r.monitor,
         budget |-> r.budget, cpu |-> "Ryzen7",
         gpu |-> either(IF Gaming(r) THEN "RTX4060" ELSE "integrated",
                        IF r.budget >= 200 THEN "RTX4070" ELSE "RTX4060Ti"),
         ram |-> IF r.budget >= either(140, 150) \/ Creator(r) THEN 32 ELSE 16,
         storage |-> IF r.budget >= either(120, 140) THEN 1000 ELSE 512,
         weight |-> either(IF CarriedLight(r) THEN 15 ELSE 19, None), battery |-> either(70, None),
         psu |-> either(None, IF r.budget >= 180 THEN 750 ELSE 650), form |-> either("none", "tower")]

BlueprintKit(r) ==
    Answer(BlueprintStatus(r), BlueprintScore(r), PartPriorities(r), {BlueprintToSetup(r)})

-----------------------------------------------------------------------------
(* upgrade_readiness.  A laptop's parts are upgradeable TRUE, FALSE or not  *)
(* known, None.                                                             *)

FreeSlots(total, used) == NotBelow(total - used, 0)

MemoryItem(r) ==
    IF r.ram < 16 THEN "blocker" ELSE FoundVerdict(FreeSlots(r.ramSlots, r.ramUsed) > 0)
StorageItem(r) ==
    IF r.diskSlots = 0 THEN "blocker" ELSE FoundVerdict(FreeSlots(r.diskSlots, r.diskUsed) > 0)
PlatformItem(r) == FoundVerdict(r.platform = "current")
PowerItem(r) ==
    IF OrZero(r.psu) # 0 /\ r.psu < 650 /\ "gpu" \in r.planned THEN "blocker"
    ELSE FoundVerdict(OrZero(r.psu) >= 650)
CaseItem(r) == FoundVerdict(r.form = "tower")
LaptopMemoryItem(r) ==
    IF r.ramUpgradeable = FALSE /\ r.ram < 32 THEN "blocker" ELSE FoundVerdict(r.ramUpgradeable = TRUE)
LaptopStorageItem(r) == FoundVerdict(r.diskUpgradeable = TRUE)

ReadinessItems(r) ==
    [memory |-> MemoryItem(r), storage |-> StorageItem(r), platform |-> PlatformItem(r)]
    @@ IF r.category = "desktop_pc" THEN [power |-> PowerItem(r), case |-> CaseItem(r)]
       ELSE [laptop_memory |-> LaptopMemoryItem(r), laptop_storage |-> LaptopStorageItem(r)]

UpgradeScore(r) ==
    LET items == ReadinessItems(r)
    IN  Score(100 - 24 * Tally(items, "blocker") - 10 * Tally(items, "warning")
              - 6 * One(r.years >= 4) - 4 * One(Cardinality(r.planned) >= 3))

UpgradePriority(r) == Worst(Values(ReadinessItems(r)) \cup {AtLeast(UpgradeScore(r), 55, 82)})

\* The upgrades that have to be settled before the purchase.
UpgradePaths(r) ==
    LET items == ReadinessItems(r)
    IN  [memory_32gb |-> FoundVerdict(items.memory = "ok"), storage_2tb |-> FoundVerdict(items.storage = "ok")]
        @@ IF r.category = "desktop_pc"
           THEN [gpu_power_headroom |-> FoundVerdict(items.power = "ok" /\ items.case = "ok")]
           ELSE [laptop_initial_option |-> "warning"]

UpgradeKit(r) ==
    Answer(UpgradePriority(r), UpgradeScore(r), ReadinessItems(r) @@ UpgradePaths(r), {})

-----------------------------------------------------------------------------
(* benchmark_validation.                                                    *)

RatioCheck(observed, expected) ==
    IF observed = None \/ OrZero(expected) = 0 THEN "warning"
    ELSE AtLeast(100 * observed, 76 * expected, 90 * expected)

TemperatureCheck(observed, warning, blocker) ==
    IF observed = None THEN "warning"
    ELSE IF observed >= blocker THEN "blocker" ELSE FoundVerdict(observed < warning)

BenchmarkChecks(r) ==
    LET desktop == r.category = "desktop_pc"
        checks == [cpu_score |-> RatioCheck(r.observed.cpu, r.expected.cpu),
                   gpu_score |-> RatioCheck(r.observed.gpu, r.expected.gpu),
                   ssd_read |-> RatioCheck(r.observed.ssd, r.expected.ssd),
                   cpu_temp |-> TemperatureCheck(r.cpuTemp, IF desktop THEN 92 ELSE 96, IF desktop THEN 100 ELSE 105),
                   gpu_temp |-> TemperatureCheck(r.gpuTemp, 86, 94),
                   driver_versions |-> FoundVerdict(r.drivers),
                   throttling |-> MatchVerdict(~r.throttling),
                   crash_stability |-> MatchVerdict(r.crashes = 0),
                   fan_noise |-> FoundVerdict(r.fan # "noisy")]
        absent == (IF r.throttling THEN {} ELSE {"throttling"})
                  \cup (IF r.crashes > 0 THEN {} ELSE {"crash_stability"})
                  \cup (IF r.fan # "none" THEN {} ELSE {"fan_noise"})
    IN  [c \in DOMAIN checks \ absent |-> checks[c]]

BenchmarkScore(r) ==
    LET checks == BenchmarkChecks(r)
    IN  Score(100 - 18 * Tally(checks, "blocker") - 7 * Tally(checks, "warning")
              - 12 * One(r.throttling) - AtMost(12 * AtMost(r.crashes, 5), 30) - 4 * One(~r.links))

BenchmarkStatus(r) ==
    IF r.crashes > 0 \/ r.throttling THEN "blocker" ELSE Worst(Values(BenchmarkChecks(r)))

BenchmarkKit(r) == Answer(BenchmarkStatus(r), BenchmarkScore(r), BenchmarkChecks(r), {})
=============================================================================
