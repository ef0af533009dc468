----------------------------- MODULE LaunchGate -----------------------------
(****************************************************************************)
(* The launch gate of one workspace: the verdict whether the service may be *)
(* opened to the public.  The state is the rows that the gate reads, the    *)
(* stored actions on the improvement backlog, and the day; the gate, its    *)
(* nine checks and the backlog are functions of them.                       *)
(*                                                                          *)
(* Days are whole.  Scores are ten-thousandths of a point, averages and     *)
(* rates hundredths, all rounded down, where the code rounds to two or four *)
(* decimals; money is in thousands of won.                                  *)
(****************************************************************************)
EXTENDS FiniteSets, Functions, Sequences, Verdicts

CONSTANTS
    Products,
    Hosts,         \* hosts of source providers, each with one policy
    RunForms,      \* what an analysis may be like,
    FeedbackForms, \*   a feedback,
    OutcomeForms,  \*   a purchase outcome,
    EventForms,    \*   a growth event,
    PatchForms,    \*   and what a PATCH of the backlog may ask for
    Patchers,      \* threads that serve PATCH /beta/backlog/{id}
    Ledgers,       \* tables to begin with
    Days,          \* how many days may pass at once
    BacklogLimit,    \* rows that a backlog reads of a table, and items it shows: 200
    BacklogProducts, \* products that it looks at, those of the last outcomes: 100
    GateProducts,    \*   and that the gate's learning looks at: 20
    Unreadable,    \* a string that is no date
    None

\* sla_due_at is any string; one that is no date is kept, and no comparison holds of it.
Deadline == Int \cup {Unreadable}
Statuses == {"open", "in_progress", "done", "dismissed"}
OutcomeStatuses == {"purchased", "abandoned", "delayed", "returned"}
GrowthSteps == <<"analysis_view", "recommendation_click", "alternative_click",
                 "share_cta", "alert_cta", "subscription_cta">>
GrowthEventType == Range(GrowthSteps) \cup {"purchase_link_cta", "feedback_cta"}

\* `picked': the analysis names a final pick.
RunForm == [quality : 0..100, warnings : Nat, blockers : Nat, launchBlockers : Nat, cost : Nat,
            picked : BOOLEAN]
FeedbackForm == [rating : 1..5, intent : BOOLEAN, requests : BOOLEAN, product : Products \cup {None}]
OutcomeForm == [product : Products \cup {None}, status : OutcomeStatuses,
                satisfaction : 1..5 \cup {None}, delta : Int \cup {None}]
Row(Form) == [form : Form, at : Nat]
\* An event of a trace without events yet, or without a trace, is fresh.
EventForm == [type : GrowthEventType, fresh : BOOLEAN]

ASSUME FormsAreForms ==
    /\ RunForms \subseteq RunForm /\ FeedbackForms \subseteq FeedbackForm
    /\ OutcomeForms \subseteq OutcomeForm /\ EventForms \subseteq EventForm
    /\ PatchForms \subseteq [status : Statuses, due : Int \cup {Unreadable, None}]
    /\ Days \subseteq Nat \ {0}

ASSUME UnreadableIsNoDay == Unreadable \notin Int
ASSUME NoneIsNoNumber == None \notin Int

ASSUME FinitelyManyProducts == IsFiniteSet(Products)

\* The six checks of readiness, which come first, fit in any backlog.
ASSUME LimitsAssumption ==
    /\ BacklogLimit \in Nat /\ BacklogLimit >= 6
    /\ BacklogProducts \in Nat \ {0} /\ GateProducts \in Nat \ {0}

\* The fetches of a hundred hosts are looked at.
ASSUME HostsAssumption == IsFiniteSet(Hosts) /\ Cardinality(Hosts) <= 100

\* DATA_INVENTORY_SPECS: how many days the rows of a table are kept.  None of them holds
\* raw contacts.
RetentionDays == [
    analysis_runs |-> 180, saved_reports |-> 180, report_advisor_answers |-> 180,
    checkout_reviews |-> 180, purchase_outcomes |-> 365, alert_subscriptions |-> 90,
    alert_delivery_events |-> 90, alert_delivery_attempts |-> 90,
    completion_report_deliveries |-> 90, completion_delivery_engagement |-> 90,
    user_feedback |-> 365, beta_leads |-> 365, subscription_intents |-> 365,
    growth_events |-> 180, launch_experiments |-> 180, launch_experiment_events |-> 180,
    observability_exports |-> 30]
Tables == DOMAIN RetentionDays

\* REQUIRED_INTEGRATION_CATEGORIES: whether the category is critical.
Critical == [price_api |-> TRUE, marketplace |-> TRUE, official_store |-> TRUE,
             review_feed |-> FALSE, benchmark |-> FALSE, email |-> TRUE, webhook |-> FALSE,
             observability |-> TRUE, affiliate |-> FALSE, scheduler |-> TRUE]
Categories == DOMAIN Critical
IntegrationStatuses == {"blocked", "mock", "configured", "verified"}

\* What is only counted.  `sent' and `failed' are alert delivery attempts, `traces' the
\* traces that have growth events.
Counted == {"saved", "shared", "views", "subscriptions", "leads", "channels", "sent",
            "failed", "completions", "monitors", "traces"}

VARIABLES
    now,
    runs,       \* analysis_runs, oldest first
    feedback,   \* user_feedback, oldest first
    outcomes,   \* purchase_outcomes
    checkouts,  \* checkout_reviews: of each product, all and the blocked ones
    counts,
    events,     \* growth_events: how many of each type
    fetches,    \* source_provider_fetch_log: of each host, the allowed and the blocked ones
    providers,  \* integration_providers: of each category, the statuses registered
    first,      \* of each table, the day of its earliest row
    actions,    \* beta_backlog_actions: a row for the identifiers it is defined on
    patch       \* what each PATCH in progress has decided to write

ledger == <<runs, feedback, outcomes, checkouts, counts, events, fetches, providers, first>>
gateVars == <<now, ledger, actions, patch>>

GateInit(l) ==
    /\ now = 100
    /\ runs = l.runs /\ feedback = l.feedback /\ outcomes = l.outcomes
    /\ checkouts = l.checkouts /\ counts = l.counts /\ events = l.events
    /\ fetches = l.fetches /\ providers = l.providers /\ first = l.first
    /\ actions = <<>>
    /\ patch = [p \in Patchers |-> None]

-----------------------------------------------------------------------------
(* Sums and averages over rows.                                             *)

SumOf(numbers) ==
    LET sum[i \in 0..Len(numbers)] == IF i = 0 THEN 0 ELSE sum[i - 1] + numbers[i]
    IN  sum[Len(numbers)]
Total(rows, value(_)) == SumOf([i \in DOMAIN rows |-> value(rows[i])])
Count(rows, test(_)) == Cardinality({i \in DOMAIN rows : test(rows[i])})
Percent(part, whole) == IF whole = 0 THEN 0 ELSE (100 * part) \div whole

\* The last n rows, and those before them.
Newest(rows, n) == SubSeq(rows, NotBelow(Len(rows) - n + 1, 1), Len(rows))
Before(rows, n) == SubSeq(rows, 1, Len(rows) - n)
Quality(r) == r.form.quality
Blockers(r) == r.form.blockers
Cost(r) == r.form.cost

-----------------------------------------------------------------------------
(* Mistakes the operators below could make; no specification uses them.     *)

\* The score counts views per shared report.
SharingPerReport ==
    IF counts["shared"] = 0 THEN 0
    ELSE AtMost(22 + (4 * counts["views"]) \div counts["shared"], 100)

\* The summary counts the blockers that are still open.
UnfinishedBlockers(items) == {item \in items : item.severity = "blocker" /\ item.status = "open"}

\* Every default deadline slides.
SlidingDue(item) ==
    now + (CASE item.severity = "blocker" -> 2
             [] item.severity = "warning" -> 5
             [] item.severity = "ok" -> 7)

\* A PATCH without a deadline removes the one the item has.
PatchForgetsDue(p) ==
    /\ patch[p] # None /\ ~patch[p].decided
    /\ patch' = [patch EXCEPT ![p].due = patch[p].asked, ![p].decided = TRUE]
    /\ UNCHANGED <<now, ledger, actions>>

\* The rows of a table that come first are read: those of the oldest days.
OldestRows(rows) == {i \in DOMAIN rows : i <= BacklogLimit}

-----------------------------------------------------------------------------
(* Readiness for the beta.                                                  *)

AverageQuality == IF runs = <<>> THEN 0 ELSE (100 * Total(runs, Quality)) \div Len(runs)

QualityReadiness ==
    CASE runs = <<>> \/ \E i \in DOMAIN runs : Blockers(runs[i]) > 0 -> "blocker"
      [] OTHER -> IF AverageQuality < 8000 THEN "warning" ELSE "ok"

Readiness == [
    activation |-> AtLeast(Len(runs), 3, 10),
    sharing    |-> AtLeast(counts["shared"], 1, 3),
    retention  |-> AtLeast(counts["subscriptions"], 1, 3),
    feedback   |-> AtLeast(Len(feedback), 3, 10),
    quality    |-> QualityReadiness,
    lead       |-> AtLeast(counts["leads"], 3, 10)]

Satisfaction ==
    IF feedback = <<>> THEN 0
    ELSE (100 * Total(feedback, LAMBDA f : f.form.rating)) \div Len(feedback)
IntentRate == Percent(Count(feedback, LAMBDA f : f.form.intent), Len(feedback))
Purchased == Count(outcomes, LAMBDA o : o.status = "purchased")
ConversionRate == Percent(Purchased, Len(outcomes))

SharingScore == AtMost(22 * counts["shared"] + 4 * counts["views"], 100)
QualityScore ==
    NotBelow(AverageQuality - 1800 * Total(runs, Blockers)
             - 150 * Total(runs, LAMBDA r : r.form.warnings), 0)

ReadinessScore ==
      1800 * AtMost(10 * Len(runs) + 12 * counts["saved"], 100)
    + 1600 * SharingScore
    + 1200 * AtMost(25 * counts["subscriptions"], 100)
    + 12 * AtMost(800 * Len(feedback) + 8 * Satisfaction + 25 * IntentRate, 10000)
    + 6 * AtMost(1000 * Len(outcomes) + 1800 * Purchased + 30 * ConversionRate, 10000)
    + 1200 * AtMost(10 * counts["leads"], 100)
    + 24 * QualityScore
Points(n) == 10000 * n

-----------------------------------------------------------------------------
(* Regression of quality and cost, five runs against the five before.       *)

Average(rows, value(_)) == (100 * Total(rows, value)) \div Len(rows)
Recent == Newest(runs, 5)
Previous == Newest(Before(runs, AtMost(Len(runs), 5)), 5)

HostReliability(h) ==
    LET blocked == fetches[h].blocked
        all == blocked + fetches[h].allowed
    IN  CASE all > 0 /\ 2 * blocked >= all /\ blocked >= 2 -> "blocker"
          [] all > 0 /\ 4 * blocked >= all /\ ~(2 * blocked >= all /\ blocked >= 2) -> "warning"
          [] OTHER -> "ok"

\* What is held against the recent runs without stopping the launch.
RiskFlagged ==
    \/ Previous = <<>>
    \/ Average(Recent, Quality) < 7500
    \/ Previous # <<>> /\ Average(Recent, Quality) - Average(Previous, Quality) <= -800
    \/ Total(Recent, Blockers) > Total(Previous, Blockers)
    \/ /\ Previous # <<>>
       /\ Average(Previous, Cost) > 0
       /\ 10 * (Average(Recent, Cost) - Average(Previous, Cost)) >= 3 * Average(Previous, Cost)
    \/ \E h \in Hosts : HostReliability(h) # "ok"

Regression ==
    IF runs = <<>> THEN "warning"
    ELSE CASE \/ \E h \in Hosts : HostReliability(h) = "blocker"
              \/ Average(Recent, Quality) < 7000
              \/ Total(Recent, Blockers) >= 3                    -> "blocker"
           [] /\ \A h \in Hosts : HostReliability(h) # "blocker"
              /\ Average(Recent, Quality) >= 7000
              /\ Total(Recent, Blockers) < 3
              /\ RiskFlagged                                     -> "warning"
           [] OTHER                                              -> "ok"

-----------------------------------------------------------------------------
(* What has been learnt of each product that has outcomes.                  *)

OutcomesOf(rows, p) == SelectSeq(rows, LAMBDA o : o.product = p)
FeedbackOf(rows, p) == SelectSeq(rows, LAMBDA f : f.form.product = p)
WithSatisfaction(rows) == SelectSeq(rows, LAMBDA o : o.satisfaction # None)
WithDelta(rows) == SelectSeq(rows, LAMBDA o : o.delta # None)

Rows(p) == OutcomesOf(outcomes, p)
Rated(p) == WithSatisfaction(Rows(p))
Given(p) == FeedbackOf(feedback, p)
Priced(p) == WithDelta(Rows(p))

\* The mean of the averages of the outcomes and of the feedback, of those there are.
ProductSatisfaction(p) ==
    LET rated == Average(Rated(p), LAMBDA o : o.satisfaction)
        given == Average(Given(p), LAMBDA f : f.form.rating)
    IN  CASE Rated(p) # <<>> /\ Given(p) # <<>> -> (rated + given) \div 2
          [] Rated(p) # <<>> /\ Given(p) = <<>> -> rated
          [] Rated(p) = <<>> /\ Given(p) # <<>> -> given
          [] OTHER -> 0

Insight(p) ==
    LET n == Len(Rows(p))
        with(status) == Count(Rows(p), LAMBDA o : o.status = status)
        returns == 5 * with("returned") >= n
        below(points) == ProductSatisfaction(p) \in 1..(points - 1)
        tagged == \/ Priced(p) # <<>> /\ Average(Priced(p), LAMBDA o : o.delta) > 5000
                  \/ checkouts[p].all > 0 /\ 100 * checkouts[p].blocked >= 35 * checkouts[p].all
                  \/ with("abandoned") > 0 \/ with("delayed") > 0
                  \/ below(400)
    IN  CASE returns \/ below(300) -> "blocker"
          [] ~returns /\ ~below(300) /\ (2 * with("purchased") < n \/ tagged) -> "warning"
          [] OTHER -> "ok"

Learnt == {p \in Products : Rows(p) # <<>>}

\* The n products whose last outcomes are the newest.
Later(q, p) ==
    \E i \in DOMAIN outcomes :
        outcomes[i].product = q /\ \A j \in DOMAIN outcomes : outcomes[j].product = p => j < i
LastLearnt(n) == {p \in Learnt : Cardinality({q \in Learnt : Later(q, p)}) < n}

Learning ==
    IF Learnt = {} THEN "warning" ELSE Worst({Insight(p) : p \in LastLearnt(GateProducts)})

-----------------------------------------------------------------------------
(* The growth funnel.                                                       *)

\* Percent of the analyses that a step needs for a warning, and to be ok.
Thresholds == [analysis_view |-> <<35, 65>>, recommendation_click |-> <<20, 45>>,
               alternative_click |-> <<8, 20>>, share_cta |-> <<8, 18>>,
               alert_cta |-> <<8, 18>>, subscription_cta |-> <<3, 8>>]

FunnelStep(step) ==
    LET baseline == NotBelow(Len(runs), 1)
    IN  AtLeast(100 * events[step], Thresholds[step][1] * baseline, Thresholds[step][2] * baseline)

\* Only the first two steps can block it.
Growth ==
    CASE runs = <<>> \/ FunnelStep("analysis_view") = "blocker"
                     \/ FunnelStep("recommendation_click") = "blocker" -> "blocker"
      [] OTHER -> IF \E i \in DOMAIN GrowthSteps : FunnelStep(GrowthSteps[i]) = "warning"
                  THEN "warning" ELSE "ok"

-----------------------------------------------------------------------------
(* External integrations, and how long rows are kept.                       *)

\* The best provider of a category decides, by weight.
Best(c) ==
    CASE "verified" \in providers[c] -> "verified"
      [] "verified" \notin providers[c] /\ "configured" \in providers[c] -> "configured"
      [] providers[c] \cap {"verified", "configured"} = {} /\ "mock" \in providers[c] -> "mock"
      [] providers[c] = {"blocked"} -> "blocked"
      [] OTHER -> "missing"

IntegrationCheck(c) ==
    CASE Best(c) = "blocked" -> "blocker"
      [] Best(c) \in {"missing", "mock"} -> IF Critical[c] THEN "blocker" ELSE "warning"
      [] Best(c) = "configured" -> IF Critical[c] THEN "warning" ELSE "ok"
      [] Best(c) = "verified" -> "ok"

Integration == Worst({IntegrationCheck(c) : c \in Categories})

Expired(t) == first[t] # None /\ first[t] + RetentionDays[t] < now
DataGovernance == IF \E t \in Tables : Expired(t) THEN "warning" ELSE "ok"

-----------------------------------------------------------------------------
(* The improvement backlog.                                                 *)

Item(id, severity, created) == [id |-> id, severity |-> severity, created |-> created]

\* Items of readiness and learning are as old as the request that computes them.
ReadinessItems ==
    LET readiness == Readiness
    IN  {Item(<<"readiness", a>>, readiness[a], now) :
            a \in {a \in DOMAIN readiness : readiness[a] # "ok"}}

LearningItems == {Item(<<"learning", p>>, Insight(p), now) : p \in LastLearnt(BacklogProducts)}

\* The newest rows of a table.
Latest(rows) == {i \in DOMAIN rows : Len(rows) - i < BacklogLimit}

FeedbackItems ==
    {Item(<<"feedback", i>>,
          IF feedback[i].form.rating <= 2 THEN "blocker" ELSE "warning", feedback[i].at) :
        i \in {i \in Latest(feedback) : feedback[i].form.rating < 4 \/ feedback[i].form.requests}}

QualityItems ==
    UNION {{Item(<<"quality", i, j>>, "blocker", runs[i].at) : j \in 1..runs[i].form.launchBlockers} :
             i \in Latest(runs)}

Listed == ReadinessItems \cup LearningItems \cup FeedbackItems \cup QualityItems

\* The order of the list: by source, the newest first.
SourceRank == [readiness |-> 1, learning |-> 2, feedback |-> 3, quality |-> 4]
Ahead(a, b) ==
    \/ SourceRank[a[1]] < SourceRank[b[1]]
    \/ a[1] = "learning" /\ b[1] = "learning" /\ Later(a[2], b[2])
    \/ a[1] = "feedback" /\ b[1] = "feedback" /\ a[2] > b[2]
    \/ /\ a[1] = "quality" /\ b[1] = "quality"
       /\ a[2] > b[2] \/ (a[2] = b[2] /\ a[3] < b[3])

\* The list is cut, whatever was done about the items.
Shown ==
    LET listed == Listed
    IN  {item \in listed : Cardinality({a \in listed : Ahead(a.id, item.id)}) < BacklogLimit}

DefaultDue(item) ==
    item.created + (CASE item.severity = "blocker" -> 2
                      [] item.severity = "warning" -> 5
                      [] item.severity = "ok" -> 7)

\* An item with the action stored for it.
Merged(item) ==
    LET stored == item.id \in DOMAIN actions
    IN  [id |-> item.id, severity |-> item.severity,
         status |-> IF stored THEN actions[item.id].status ELSE "open",
         due |-> IF stored THEN actions[item.id].due ELSE DefaultDue(item)]

Backlog == {Merged(item) : item \in Shown}

Unfinished(item) == item.status \notin {"done", "dismissed"}
Overdue(item) == Unfinished(item) /\ item.due # Unreadable /\ item.due < now
DueSoon(item) == Unfinished(item) /\ item.due # Unreadable /\ item.due \in now..(now + 1)
CountedBlockers(items) == {item \in items : item.severity = "blocker"}

BacklogCheck ==
    LET items == Backlog
    IN  CASE \E item \in items : Overdue(item) -> "blocker"
          [] /\ \A item \in items : ~Overdue(item)
             /\ CountedBlockers(items) # {} \/ \E item \in items : DueSoon(item) -> "warning"
          [] OTHER -> "ok"

-----------------------------------------------------------------------------
(* The gate.                                                                *)

Conversion ==
    CASE outcomes = <<>> /\ feedback = <<>> -> "blocker"
      [] ~(outcomes = <<>> /\ feedback = <<>>) /\ (Len(outcomes) < 3 \/ 4 * Purchased < Len(outcomes))
            -> "warning"
      [] OTHER -> "ok"

DeliveryCheck ==
    IF \/ counts["channels"] = 0
       \/ counts["completions"] = 0 /\ counts["sent"] = 0
       \/ counts["sent"] > 0 /\ counts["failed"] > counts["sent"]
    THEN "warning" ELSE "ok"

Gate == [
    readiness       |-> AtLeast(ReadinessScore, Points(45), Points(70)),
    regression      |-> Regression,
    learning        |-> Learning,
    backlog         |-> BacklogCheck,
    conversion      |-> Conversion,
    growth          |-> Growth,
    delivery        |-> DeliveryCheck,
    integration     |-> Integration,
    data_governance |-> DataGovernance]

\* Ok takes more than checks that are all ok: a score that is high as well.
GateStatus ==
    LET checks == Range(Gate)
    IN  CASE "blocker" \in checks -> "blocker"
          [] checks = {"ok"} /\ ReadinessScore >= Points(85) -> "ok"
          [] OTHER -> "warning"

\* The decision that comes with a status.
Decide(status, score) ==
    CASE status = "blocker" -> "blocked"
      [] status = "ok" -> "go"
      [] OTHER -> IF score >= Points(70) THEN "limited_beta" ELSE "hold"
Decision == Decide(GateStatus, ReadinessScore)

DecisionRank(d) ==
    CASE d = "blocked" -> 0 [] d = "hold" -> 1 [] d = "limited_beta" -> 2 [] d = "go" -> 3

-----------------------------------------------------------------------------
(* Requests that add rows.  Tables are never cleaned up.                    *)

Dated(t) == [first EXCEPT ![t] = IF @ = None THEN now ELSE @]

Analyse(form) ==
    /\ runs' = Append(runs, [form |-> form, at |-> now])
    /\ first' = Dated("analysis_runs")
    /\ UNCHANGED <<now, feedback, outcomes, checkouts, counts, events, fetches, providers,
                   actions, patch>>

GiveFeedback(form) ==
    /\ runs # <<>>
    /\ feedback' = Append(feedback, [form |-> form, at |-> now])
    /\ first' = Dated("user_feedback")
    /\ UNCHANGED <<now, runs, outcomes, checkouts, counts, events, fetches, providers,
                   actions, patch>>

RecordOutcome(form) ==
    /\ counts["saved"] > 0
    /\ outcomes' = Append(outcomes, form)
    /\ first' = Dated("purchase_outcomes")
    /\ UNCHANGED <<now, runs, feedback, checkouts, counts, events, fetches, providers,
                   actions, patch>>

ReviewCheckout(p, blocked) ==
    /\ counts["saved"] > 0
    /\ checkouts' = [checkouts EXCEPT ![p] =
                       [all |-> @.all + 1, blocked |-> @.blocked + One(blocked)]]
    /\ first' = Dated("checkout_reviews")
    /\ UNCHANGED <<now, runs, feedback, outcomes, counts, events, fetches, providers,
                   actions, patch>>

RecordEvent(form) ==
    /\ events' = [events EXCEPT ![form.type] = @ + 1]
    /\ counts' = [counts EXCEPT !["traces"] = @ + One(form.fresh)]
    /\ first' = Dated("growth_events")
    /\ UNCHANGED <<now, runs, feedback, outcomes, checkouts, fetches, providers, actions, patch>>

RecordFetch(h, blocked) ==
    /\ fetches' = [fetches EXCEPT ![h] =
                     [allowed |-> @.allowed + One(~blocked), blocked |-> @.blocked + One(blocked)]]
    /\ UNCHANGED <<now, runs, feedback, outcomes, checkouts, counts, events, providers, first,
                   actions, patch>>

RegisterProvider(c, status) ==
    /\ providers' = [providers EXCEPT ![c] = @ \cup {status}]
    /\ UNCHANGED <<now, runs, feedback, outcomes, checkouts, counts, events, fetches, first,
                   actions, patch>>

\* The table whose earliest row a counted row may be.
TableOf == [saved |-> "saved_reports", subscriptions |-> "alert_subscriptions",
            leads |-> "beta_leads", sent |-> "alert_delivery_attempts",
            failed |-> "alert_delivery_attempts", completions |-> "completion_report_deliveries"]

Possible(c) ==
    /\ c = "saved" => runs # <<>>
    /\ c = "shared" => counts["shared"] < counts["saved"]
    /\ c = "views" => counts["shared"] > 0
    /\ c \in {"sent", "failed"} => counts["subscriptions"] > 0
    /\ c = "sent" => counts["channels"] > 0
    /\ c = "completions" => counts["saved"] > 0

CountUp(c) ==
    /\ Possible(c)
    /\ counts' = [counts EXCEPT ![c] = @ + 1]
    /\ first' = IF c \in DOMAIN TableOf THEN Dated(TableOf[c]) ELSE first
    /\ UNCHANGED <<now, runs, feedback, outcomes, checkouts, events, fetches, providers,
                   actions, patch>>

RevokeShare ==
    /\ counts["shared"] > 0
    /\ counts' = [counts EXCEPT !["shared"] = @ - 1]
    /\ UNCHANGED <<now, runs, feedback, outcomes, checkouts, events, fetches, providers, first,
                   actions, patch>>

\* A row of a table that is read for its age only.
Others == {"report_advisor_answers", "alert_delivery_events", "completion_delivery_engagement"}
AddOther(t) ==
    /\ first' = Dated(t)
    /\ UNCHANGED <<now, runs, feedback, outcomes, checkouts, counts, events, fetches, providers,
                   actions, patch>>

-----------------------------------------------------------------------------
(* PATCH /beta/backlog/{id}: the item is looked for in the backlog, the      *)
(* action stored for it is read, and the row is written.                    *)

\* A deadline in the request is given as days from now.
PatchFind(p, item, form) ==
    /\ patch[p] = None
    /\ patch' = [patch EXCEPT ![p] = [
         id |-> item.id, status |-> form.status, due |-> item.due, decided |-> FALSE,
         asked |-> IF form.due \in {None, Unreadable} THEN form.due ELSE now + form.due]]
    /\ UNCHANGED <<now, ledger, actions>>

\* The deadline asked for, or the stored one, or that of the item.
PatchRead(p) ==
    /\ patch[p] # None /\ ~patch[p].decided
    /\ patch' = [patch EXCEPT ![p].decided = TRUE, ![p].due =
         CASE patch[p].asked # None -> patch[p].asked
           [] patch[p].asked = None /\ patch[p].id \in DOMAIN actions -> actions[patch[p].id].due
           [] OTHER -> @]
    /\ UNCHANGED <<now, ledger, actions>>

PatchWrite(p) ==
    /\ patch[p] # None /\ patch[p].decided
    /\ actions' = [id \in DOMAIN actions \cup {patch[p].id} |->
         IF id = patch[p].id THEN [status |-> patch[p].status, due |-> patch[p].due] ELSE actions[id]]
    /\ patch' = [patch EXCEPT ![p] = None]
    /\ UNCHANGED <<now, ledger>>

\* Requests take less than a day.
Pass(days) ==
    /\ \A p \in Patchers : patch[p] = None
    /\ now' = now + days
    /\ UNCHANGED <<ledger, actions, patch>>

AddRow ==
    \/ \E form \in RunForms : Analyse(form)
    \/ \E form \in FeedbackForms : GiveFeedback(form)
    \/ \E form \in OutcomeForms : RecordOutcome(form)
    \/ \E p \in Products, blocked \in BOOLEAN : ReviewCheckout(p, blocked)
    \/ \E form \in EventForms : RecordEvent(form)
    \/ \E h \in Hosts, blocked \in BOOLEAN : RecordFetch(h, blocked)
    \/ \E c \in Categories, status \in IntegrationStatuses : RegisterProvider(c, status)
    \/ \E c \in Counted \ {"traces"} : CountUp(c)
    \/ RevokeShare
    \/ \E t \in Others : AddOther(t)

Patch(p) ==
    \/ \E item \in Backlog, form \in PatchForms : PatchFind(p, item, form)
    \/ PatchRead(p)
    \/ PatchWrite(p)

GateNext ==
    \/ AddRow
    \/ \E p \in Patchers : Patch(p)
    \/ \E days \in Days : Pass(days)

-----------------------------------------------------------------------------
(* Properties.                                                              *)

GateTypeOK ==
    /\ now \in Nat
    /\ runs \in Seq(Row(RunForm)) /\ feedback \in Seq(Row(FeedbackForm))
    /\ outcomes \in Seq(OutcomeForm)
    /\ checkouts \in [Products -> [all : Nat, blocked : Nat]]
    /\ \A p \in Products : checkouts[p].blocked <= checkouts[p].all
    /\ counts \in [Counted -> Nat] /\ counts["shared"] <= counts["saved"]
    /\ events \in [GrowthEventType -> Nat]
    /\ fetches \in [Hosts -> [allowed : Nat, blocked : Nat]]
    /\ providers \in [Categories -> SUBSET IntegrationStatuses]
    /\ first \in [Tables -> Nat \cup {None}]
    /\ \A id \in DOMAIN actions : actions[id] \in [status : Statuses, due : Deadline]

\* The rows that a backlog has room for: before a complaint come items of readiness, of
\* learning and of newer feedback, and before a launch blocker all items of feedback and the
\* launch blockers of newer analyses.
Room == BacklogLimit - Cardinality(ReadinessItems \cup LearningItems)
ComplaintInSight(i) == Len(feedback) - i < Room

LaunchBlockersBefore(i, j) ==
    {<<i, l>> : l \in 1..(j - 1)} \cup
      UNION {{<<k, l>> : l \in 1..runs[k].form.launchBlockers} : k \in (i + 1)..Len(runs)}
LaunchBlockerInSight(i, j) ==
    /\ i \in Latest(runs)
    /\ Cardinality(FeedbackItems) + Cardinality(LaunchBlockersBefore(i, j)) < Room

\* A complaint or a launch blocker on which nobody acts blocks the launch from its deadline
\* on, and so does one that is put off to a day that has passed, as long as newer rows leave
\* it room in the backlog; what happens elsewhere, or is stored for other items, does not
\* hide it.
PastDeadline(id, due) ==
    /\ due < now
    /\ \/ id \notin DOMAIN actions
       \/ /\ actions[id].status \in {"open", "in_progress"}
          /\ actions[id].due \in Int
          /\ actions[id].due < now

OverdueBlocks ==
    /\ \A i \in DOMAIN feedback :
         (/\ feedback[i].form.rating <= 2 /\ ComplaintInSight(i)
          /\ PastDeadline(<<"feedback", i>>, feedback[i].at + 2)) => Decision = "blocked"
    /\ \A i \in DOMAIN runs : \A j \in 1..runs[i].form.launchBlockers :
         (/\ LaunchBlockerInSight(i, j)
          /\ PastDeadline(<<"quality", i, j>>, runs[i].at + 2)) => Decision = "blocked"
=============================================================================
