---------------------------- MODULE LaunchBoards ----------------------------
(****************************************************************************)
(* The boards of a launch: pulse, acquisition, conversion, proof, and those *)
(* that judge other boards, up to the preflight that decides whether to     *)
(* open.  Each is a function of the rows of LaunchGate and of the audience: *)
(* the waitlist, subscription intents, CTA experiments and trace exports.   *)
(*                                                                          *)
(* Scores are ten-thousandths of a point.  A board's score is rounded to a  *)
(* tenth of a point, halves up; what it is made from as in LaunchGate.      *)
(****************************************************************************)
EXTENDS LaunchGate, FiniteSetsExt, SequencesExt

CONSTANTS
    IntentForms,  \* what a subscription intent may be like
    Limit,        \* how many rows a board looks at
    SiteUrl       \* whether PUBLIC_SITE_URL is set

Plans == {"free", "premium", "team"}
MonthlyPrice == [premium |-> 9900, team |-> 49000]
AnnualPrice == [premium |-> 99000, team |-> 490000]
IntentForm == [plan : Plans, annual : BOOLEAN, size : 1..10000]
Trial == [metric : GrowthEventType, impressions : Nat, conversions : Nat]

ASSUME BoardsAssumption ==
    IntentForms \subseteq IntentForm /\ Limit \in Nat \ {0} /\ SiteUrl \in BOOLEAN

\* The pricing dashboard sums the newest intents only.
IntentWindow == 200
ExportStatuses == {"queued", "sent", "failed"}

VARIABLES
    waitlist,  \* waitlist_referrals, oldest first: whose code each gave, 0 for none, and
               \* None for a code that nobody has
    intents,   \* subscription_intents, oldest first
    trials,    \* launch_experiments, the last updated last, with the events of their variants
    exports,   \* observability_exports, oldest first: their statuses
    before     \* what the boards showed before the last request, if that was a sign-up:
               \* history

\* Tables as a behaviour may begin with.
Ledger == [
    runs : Seq(Row(RunForm)), feedback : Seq(Row(FeedbackForm)), outcomes : Seq(OutcomeForm),
    checkouts : [Products -> [all : Nat, blocked : Nat]], counts : [Counted -> Nat],
    events : [GrowthEventType -> Nat], fetches : [Hosts -> [allowed : Nat, blocked : Nat]],
    providers : [Categories -> SUBSET IntegrationStatuses], first : [Tables -> Nat \cup {None}],
    waitlist : Seq(Nat \cup {None}), intents : Seq(IntentForm), trials : Seq(Trial),
    exports : Seq(ExportStatuses)]

ASSUME LedgersAssumption ==
    /\ Ledgers \subseteq Ledger
    /\ \A l \in Ledgers :
         /\ \A p \in Products : l.checkouts[p].blocked <= l.checkouts[p].all
         /\ l.counts["shared"] <= l.counts["saved"]
         /\ \A i \in DOMAIN l.waitlist : l.waitlist[i] \in 0..(i - 1) \cup {None}

audience == <<waitlist, intents, trials, exports>>
vars == <<gateVars, audience, before>>

Init ==
    \E l \in Ledgers :
        /\ GateInit(l)
        /\ waitlist = l.waitlist /\ intents = l.intents /\ trials = l.trials
        /\ exports = l.exports
        /\ before = None

-----------------------------------------------------------------------------
(* What boards are made from.                                               *)

\* Round to a tenth of a point.
Tenth(score) == 1000 * ((score + 500) \div 1000)
Capped(score) == AtMost(score, Points(100))

\* A weighted sum, with weights in percent.
Blend(parts) == Tenth(Total(parts, LAMBDA q : q[1] * q[2]) \div 100)
StatusAt(score, warning, ok) == AtLeast(score, Points(warning), Points(ok))

\* Monthly revenue of an intent, in won.
Mrr(form) ==
    CASE form.plan = "free" -> 0
      [] form.plan # "free" /\ form.annual -> (AnnualPrice[form.plan] + 6) \div 12
      [] form.plan = "premium" /\ ~form.annual -> MonthlyPrice["premium"]
      [] form.plan = "team" /\ ~form.annual -> MonthlyPrice["team"] * form.size

Plan(rows, plan) == Count(rows, LAMBDA form : form.plan = plan)
Pricing(rows) ==
    [number |-> Len(rows), premium |-> Plan(rows, "premium"), team |-> Plan(rows, "team"),
     mrr |-> Total(rows, Mrr)]

PricingStatus(p) ==
    CASE p.number >= 5 /\ p.mrr >= 100000 /\ p.team > 0 -> "ok"
      [] p.number = 0 -> "blocker"
      [] OTHER -> "warning"

Referred == Count(waitlist, LAMBDA by : by # 0)
Referrers == Range(waitlist) \ {0, None}
\* Referred sign-ups per sign-up, in thousandths.
ShareRateHint == IF waitlist = <<>> THEN 0
                 ELSE (1000 * Referred + Len(waitlist) \div 2) \div Len(waitlist)

\* Of the experiments looked at; the rate is in ten-thousandths.
Impressions == Total(Newest(trials, Limit), LAMBDA t : t.impressions)
Conversions == Total(Newest(trials, Limit), LAMBDA t : t.conversions)
TrialRate == IF Impressions = 0 THEN 0 ELSE (10000 * Conversions) \div Impressions
TrialStatus ==
    CASE Impressions >= 40 /\ TrialRate >= 600 -> "ok"
      [] Impressions >= 10 /\ ~(Impressions >= 40 /\ TrialRate >= 600) -> "warning"
      [] OTHER -> IF TrialRate > 0 THEN "warning" ELSE "blocker"
TrialScore ==
    Capped(12000 * Impressions + Points(15 * Conversions) + 120 * TrialRate)

\* Events of a step per analysis, in ten-thousandths.
EventRate(step) == (10000 * events[step]) \div NotBelow(Len(runs), 1)

IntegrationScore ==
    LET checked(status) == Cardinality({c \in Categories : IntegrationCheck(c) = status})
    IN  Points(100 * checked("ok") + 55 * checked("warning")) \div Cardinality(Categories)

\* Voices on the wall: newest feedback and outcomes that speak for the service, and those
\* who referred somebody.
Voices ==
    AtMost(Clamp(Limit, 1, 12),
      Count(Newest(feedback, NotBelow(Limit, 12)), LAMBDA r : r.form.rating >= 4 \/ r.form.intent)
        + Count(Newest(outcomes, NotBelow(Limit, 12)), LAMBDA o : o.status \in {"purchased", "delayed"})
        + AtMost(Cardinality(Referrers), Clamp(Limit, 3, 8)))

Checkouts == Total(SetToSeq(Products), LAMBDA p : checkouts[p].all)

Exports(status) == Count(Newest(exports, Clamp(Limit, 5, 30)), LAMBDA s : s = status)
OutboxStatus ==
    CASE Exports("failed") >= 3 -> "blocker"
      [] Exports("failed") \in 1..2 -> "warning"
      [] Exports("failed") = 0 -> IF Exports("queued") > 0 THEN "warning" ELSE "ok"

\* All that boards read; the boards fill in their scores, each those that come after it read.
Facts == [
    runs |-> Len(runs), feedback |-> Len(feedback), counts |-> counts, events |-> events,
    ready |-> ReadinessScore, quality |-> 100 * AverageQuality,
    picked |-> Percent(Count(runs, LAMBDA r : r.form.picked), Len(runs)),
    gate |-> GateStatus, regression |-> Regression, growth |-> Growth, governance |-> DataGovernance,
    integration |-> Integration, connected |-> IntegrationScore,
    satisfaction |-> Satisfaction, intent |-> IntentRate, purchased |-> Purchased,
    checkouts |-> Checkouts, voices |-> Voices,
    pricing |-> Pricing(Newest(intents, IntentWindow)),
    joined |-> Len(waitlist), referred |-> Referred, hint |-> ShareRateHint,
    conversions |-> Conversions, trial |-> TrialStatus, trialScore |-> TrialScore,
    outbox |-> OutboxStatus,
    delivered |-> NotBelow(Points(100 - 8 * Exports("queued") - 18 * Exports("failed")), 0),
    clicks |-> Total(GrowthSteps, LAMBDA e : events[e])
                 + events["purchase_link_cta"] + events["feedback_cta"],
    clickRate |-> EventRate("recommendation_click"), shareRate |-> EventRate("share_cta"),
    pulse |-> 0, acquisition |-> 0, conversion |-> 0, proof |-> 0, wall |-> 0, objections |-> 0,
    sharePack |-> 0, router |-> 0, smoke |-> 0, surface |-> "blocker", command |-> 0, incident |-> 0]

-----------------------------------------------------------------------------
(* Mistakes the operators below could make; no specification uses them.     *)

\* The preflight goes by the scores alone.
PreflightByScore(checks, score) == StatusAt(score, 46, 78)

-----------------------------------------------------------------------------
(* First boards: pulse, acquisition, conversion.                            *)

Activation(rate) ==
    CASE rate <= 0 -> 0
      [] rate \in 1..3000 -> Tenth((rate * 550) \div 3)
      [] rate \in 3001..6499 -> Tenth(Points(55) + ((rate - 3000) * 900) \div 7)
      [] rate >= 6500 -> Points(100)

PulseScore(f) == Blend(<<
    <<22, Activation(f.clickRate)>>,
    <<24, Capped(1600 * f.satisfaction + 3500 * f.intent + Points(2) * AtMost(f.feedback, 10))>>,
    <<20, Capped(Points(12 * f.events["share_cta"] + 10 * f.joined + 18 * f.referred) + 350 * f.hint)>>,
    <<16, Capped(Points(16 * f.pricing.premium + 24 * f.pricing.team)
                   + AtMost(f.pricing.mrr, Points(35)))>>,
    <<18, Capped((65 * f.ready + 25 * f.quality) \div 100 + 1000 * f.picked)>>>>)
Pulse(f) == [f EXCEPT !.pulse = PulseScore(f)]

PulseStatus(f) ==
    CASE f.pulse < Points(35) \/ f.ready < Points(35) \/ f.growth = "blocker" -> "blocker"
      [] OTHER -> IF f.pulse < Points(70) \/ f.ready < Points(70) THEN "warning" ELSE "ok"

\* The score of each public surface.
Surfaces(f) == <<
    Points(48 + 5 * f.runs + 8 * f.events["recommendation_click"]),
    Points(62 + 2 * f.runs) + 15000 * f.clicks,
    Points(62 + 2 * f.runs) + 15000 * f.clicks,
    Points(18 * f.counts["shared"] + 5 * f.counts["views"] + 8 * f.events["share_cta"])
      + 40 * f.shareRate,
    Points(14 * f.joined + 22 * f.referred) + 350 * f.hint,
    (80 * f.ready + 20 * f.quality) \div 100,
    Points(18 * f.pricing.number + 14 * (f.pricing.premium + f.pricing.team))
      + (5 * AtMost(f.pricing.mrr, 360000)) \div 6>>

Acquisition(f) == [f EXCEPT !.acquisition =
    Tenth(Total(Surfaces(f), LAMBDA s : Tenth(Capped(s))) \div Len(Surfaces(f)))]
AcquisitionStatus(f) == StatusAt(f.acquisition, 55, 75)

Converting(f) == [f EXCEPT !.conversion = Blend(<<
    <<38, f.pulse>>, <<28, f.acquisition>>, <<18, f.ready>>,
    <<8, Capped(Points(4 * f.counts["views"] + 10 * f.events["share_cta"]))>>,
    <<8, Capped(Points(12 * f.joined + 14 * f.pricing.number))>>>>)]

ConversionStatus(f) ==
    Worst({StatusAt(f.conversion, 35, 70), PulseStatus(f), AcquisitionStatus(f),
           StatusAt(f.ready, 35, 70)})

-----------------------------------------------------------------------------
(* Boards that show proof, and what a visitor is offered.                   *)

\* Each asset of the proof hub counts by its status.
AssetScores(f) == <<
    Points(85),
    Points(2 * f.runs + 5 * f.counts["saved"] + 3 * f.counts["views"]),
    Points(18 * f.counts["shared"] + 8 * f.counts["views"]),
    Points(10 * f.feedback) + 1200 * f.satisfaction + 3500 * f.intent,
    f.trialScore,
    f.acquisition>>

StatusScore(status) ==
    CASE status = "ok" -> Points(82) [] status = "warning" -> Points(58) [] status = "blocker" -> Points(28)

ProofScore(f) == Tenth(Capped(
    Total(AssetScores(f), LAMBDA s : StatusScore(StatusAt(s, 45, 75))) \div Len(AssetScores(f))
      + AtMost(8000 * f.counts["views"] + Points(f.feedback) + 15000 * f.conversions, Points(12))))
Proof(f) == [f EXCEPT !.proof = ProofScore(f)]
ProofStatus(f) == StatusAt(f.proof, 55, 78)

WallScore(f) == Tenth(Clamp(
    Points(12 * f.voices + 6 * f.feedback + 12 * f.purchased) + 3000 * f.intent
      + 800 * f.satisfaction + AtMost(15000 * f.counts["views"], Points(18)),
    Points(20), Points(100)))
Wall(f) == [f EXCEPT !.wall = WallScore(f)]
WallStatus(f) == StatusAt(f.wall, 45, 72)

Objections(f) == [f EXCEPT !.objections = Blend(<<
    <<42, f.proof>>, <<22, f.wall>>, <<18, f.ready>>,
    <<18, Capped(Points(8 * f.checkouts + 8 * f.counts["monitors"] + 4 * f.counts["views"]
                          + 6 * f.feedback))>>>>)]
ObjectionStatus(f) == StatusAt(f.objections, 55, 75)

SharePack(f) == [f EXCEPT !.sharePack = Blend(<<
    <<24, f.proof>>, <<22, f.objections>>, <<18, f.pulse>>,
    <<18, Capped(Points(5 * f.counts["views"] + 15 * f.events["share_cta"]))>>,
    <<18, Capped(Points(12 * f.joined + 20 * f.referred))>>>>)]
ShareStatus(f) == StatusAt(f.sharePack, 55, 76)

\* What the router offers to each kind of visitor.
Routes(f) == <<
    Points(68) + 14000 * f.runs + (12 * f.proof) \div 100,
    Points(52 + 3 * f.counts["views"]) + (28 * f.sharePack) \div 100,
    Points(46 + 7 * f.joined) + f.pulse \div 4,
    Points(58 + 12 * f.pricing.team) + (18 * f.objections) \div 100,
    Points(50 + 9 * f.pricing.number) + f.pricing.mrr \div 5>>
Router(f) == [f EXCEPT !.router = Tenth(Total(Routes(f), LAMBDA s : Tenth(Capped(s))) \div Len(Routes(f)))]
RouterStatus(f) == StatusAt(f.router, 55, 76)

-----------------------------------------------------------------------------
(* Boards that judge boards: smoke, war room, incident center, preflight.   *)

\* A board that is ok only if all its checks and its score are.
Judged(checks, score, blocked, ok) == Worst(Range(checks) \cup {StatusAt(score, blocked, ok)})

Measured(f) == IF f.clicks > 0 THEN "ok" ELSE "warning"
Site == IF SiteUrl THEN "ok" ELSE "warning"

SmokeChecks(f) == <<
    StatusAt(Tenth((f.proof + f.acquisition + f.pulse) \div 3), 55, 75),
    "ok", ProofStatus(f), ObjectionStatus(f), ShareStatus(f), RouterStatus(f),
    ConversionStatus(f), f.gate, Site, Measured(f)>>

SmokeScore(checks) ==
    Tenth(Total(checks, LAMBDA c : CASE c = "ok" -> Points(100)
                                     [] c = "warning" -> Points(62)
                                     [] c = "blocker" -> Points(18)) \div Len(checks))
Smoke(f) == [f EXCEPT !.smoke = SmokeScore(SmokeChecks(f)),
                  !.surface = Judged(SmokeChecks(f), SmokeScore(SmokeChecks(f)), 45, 76)]

WarRoomSignals(f) == <<
    PulseStatus(f), f.surface, ConversionStatus(f), f.gate, f.regression, f.trial,
    AtLeast(f.joined, 1, 5), PricingStatus(f.pricing), Measured(f)>>

Command(f) == [f EXCEPT !.command = Blend(<<
    <<24, f.pulse>>, <<20, f.smoke>>, <<20, f.conversion>>, <<20, f.ready>>,
    <<16, CASE f.regression = "ok" -> Points(92) [] f.regression = "warning" -> Points(62)
            [] f.regression = "blocker" -> Points(24)>>>>)]
WarRoomStatus(f) == Judged(WarRoomSignals(f), f.command, 45, 75)

WarRoomDecision(f) ==
    CASE WarRoomStatus(f) = "ok" -> "scale"
      [] "blocker" \in Range(WarRoomSignals(f)) -> "hold_and_fix"
      [] OTHER -> IF f.command >= Points(62) THEN "limited_push" ELSE "collect_more_signal"

IncidentSignals(f) == <<
    Site, StatusAt(f.ready, 45, 70), f.regression, f.integration, f.governance, f.outbox,
    Measured(f)>>

Incident(f) == [f EXCEPT !.incident = Blend(<<
    <<20, f.ready>>, <<18, StatusScore(f.regression)>>, <<18, f.connected>>,
    <<14, StatusScore(f.governance)>>, <<14, f.delivered>>,
    <<10, Capped(Points(8 * f.clicks + 10 * f.counts["traces"] + 8 * f.events["share_cta"]
                          + 10 * f.events["subscription_cta"]))>>,
    <<6, Points(IF SiteUrl THEN 95 ELSE 45)>>>>)]
IncidentStatus(f) == Judged(IncidentSignals(f), f.incident, 45, 76)

IncidentLevel(f) ==
    CASE IncidentStatus(f) = "blocker" -> "sev1_hold_launch"
      [] /\ IncidentStatus(f) # "blocker"
         /\ \/ f.incident < Points(62)
            \/ Count(IncidentSignals(f), LAMBDA s : s = "warning") >= 4 -> "sev2_limited_launch"
      [] OTHER -> IF IncidentStatus(f) = "warning" THEN "sev3_watch" ELSE "green_scale"

PreflightChecks(f) == [
    public_surface |-> f.surface, launch_gate |-> f.gate, war_room |-> WarRoomStatus(f),
    incident_response |-> IncidentStatus(f), measurement |-> Measured(f), share_preview |-> Site,
    rollback |-> IF IncidentStatus(f) = "blocker" THEN "blocker" ELSE WarRoomStatus(f)]

Penalty(checks) ==
      9 * Cardinality({c \in DOMAIN checks : checks[c] = "warning"})
    + 22 * Cardinality({c \in DOMAIN checks : checks[c] = "blocker"})

PreflightScore(f, checks) == Blend(<<
    <<24, f.smoke>>, <<24, f.ready>>, <<22, f.command>>, <<20, f.incident>>,
    <<10, Points(NotBelow(100 - Penalty(checks), 0))>>>>)

PreflightStatus(checks, score) == Judged(checks, score, 46, 78)

PreflightDecision(checks, score) ==
    CASE \E c \in {"launch_gate", "incident_response", "rollback"} : checks[c] = "blocker" -> "blocked"
      [] /\ \A c \in {"launch_gate", "incident_response", "rollback"} : checks[c] # "blocker"
         /\ PreflightStatus(checks, score) = "blocker" -> "hold"
      [] OTHER -> IF score >= Points(82) /\ PreflightStatus(checks, score) = "ok"
                  THEN "go" ELSE "limited_beta"

Preflight(f, checks) == PreflightDecision(checks, PreflightScore(f, checks))

\* How well each board stands, the larger the better.
Good(status) == 2 - Rank(status)

Standing(f) == [
    gate        |-> DecisionRank(Decide(f.gate, f.ready)),
    pulse       |-> Good(PulseStatus(f)),
    acquisition |-> Good(AcquisitionStatus(f)),
    conversion  |-> Good(ConversionStatus(f)),
    proof       |-> Good(ProofStatus(f)),
    wall        |-> Good(WallStatus(f)),
    objections  |-> Good(ObjectionStatus(f)),
    share_pack  |-> Good(ShareStatus(f)),
    router      |-> Good(RouterStatus(f)),
    smoke       |-> Good(f.surface),
    war_room    |-> CASE WarRoomDecision(f) = "hold_and_fix" -> 0
                      [] WarRoomDecision(f) = "collect_more_signal" -> 1
                      [] WarRoomDecision(f) = "limited_push" -> 2
                      [] WarRoomDecision(f) = "scale" -> 3,
    incident    |-> CASE IncidentLevel(f) = "sev1_hold_launch" -> 0
                      [] IncidentLevel(f) = "sev2_limited_launch" -> 1
                      [] IncidentLevel(f) = "sev3_watch" -> 2
                      [] IncidentLevel(f) = "green_scale" -> 3,
    preflight   |-> DecisionRank(Preflight(f, PreflightChecks(f)))]

Scored(f) == Incident(Command(Smoke(Router(SharePack(Objections(Wall(Proof(
            Converting(Acquisition(Pulse(f)))))))))))
Boards == CHOOSE b \in {Standing(g) : g \in {Scored(f) : f \in {Facts}}} : TRUE

-----------------------------------------------------------------------------
(* Requests of the audience.                                                *)

\* A code that nobody has is stored like any other.
JoinWaitlist(by) ==
    /\ waitlist' = Append(waitlist, by)
    /\ UNCHANGED <<gateVars, intents, trials, exports>>

RecordIntent(form) ==
    /\ intents' = Append(intents, form)
    /\ first' = Dated("subscription_intents")
    /\ UNCHANGED <<now, runs, feedback, outcomes, checkouts, counts, events, fetches, providers,
                   actions, patch, waitlist, trials, exports>>

StartExperiment(metric) ==
    /\ trials' = Append(trials, [metric |-> metric, impressions |-> 0, conversions |-> 0])
    /\ first' = Dated("launch_experiments")
    /\ UNCHANGED <<now, runs, feedback, outcomes, checkouts, counts, events, fetches, providers,
                   actions, patch, waitlist, intents, exports>>

\* The experiment becomes the last updated one.
Updated(i, field) == Append(RemoveAt(trials, i), [trials[i] EXCEPT ![field] = @ + 1])

See(i) ==
    /\ trials' = Updated(i, "impressions")
    /\ first' = Dated("launch_experiment_events")
    /\ UNCHANGED <<now, runs, feedback, outcomes, checkouts, counts, events, fetches, providers,
                   actions, patch, waitlist, intents, exports>>

\* A conversion is also a growth event, of the experiment's primary metric.
Convert(i, fresh) ==
    /\ trials' = Updated(i, "conversions")
    /\ events' = [events EXCEPT ![trials[i].metric] = @ + 1]
    /\ counts' = [counts EXCEPT !["traces"] = @ + One(fresh)]
    /\ first' = [first EXCEPT !["launch_experiment_events"] = IF @ = None THEN now ELSE @,
                             !["growth_events"] = IF @ = None THEN now ELSE @]
    /\ UNCHANGED <<now, runs, feedback, outcomes, checkouts, fetches, providers, actions, patch,
                   waitlist, intents, exports>>

QueueExport ==
    /\ runs # <<>>
    /\ exports' = Append(exports, "queued")
    /\ first' = Dated("observability_exports")
    /\ UNCHANGED <<now, runs, feedback, outcomes, checkouts, counts, events, fetches, providers,
                   actions, patch, waitlist, intents, trials>>

\* Some of the queued exports are sent or given up; ObservabilityOutbox says which.
Dispatch(outcome) ==
    /\ exports' = [i \in DOMAIN exports |-> IF exports[i] = "queued" THEN outcome[i] ELSE exports[i]]
    /\ UNCHANGED <<gateVars, waitlist, intents, trials>>

\* All items of the backlog are shown.
Fits == Cardinality(Listed) <= BacklogLimit

\* People who save, share, visit, subscribe, are invited or ask for a plan.  Where the backlog
\* is cut, one that makes a check of readiness ok lets another item in; past the window a free
\* intent pushes a paid one out.
SignUp ==
    \/ /\ \E c \in {"saved", "shared", "views", "subscriptions", "leads", "channels"} : CountUp(c)
       /\ Fits \/ Readiness' = Readiness
       /\ UNCHANGED audience
    \/ \E by \in 1..Len(waitlist) \cup {None} : JoinWaitlist(by)
    \/ Len(intents) < IntentWindow /\ \E form \in IntentForms : RecordIntent(form)

Serve ==
    \/ GateNext /\ UNCHANGED audience
    \/ \E by \in 0..Len(waitlist) \cup {None} : JoinWaitlist(by)
    \/ \E form \in IntentForms : RecordIntent(form)
    \/ \E form \in EventForms : StartExperiment(form.type)
    \/ \E i \in DOMAIN trials : See(i) \/ \E fresh \in BOOLEAN : Convert(i, fresh)
    \/ QueueExport
    \/ \E outcome \in [{i \in DOMAIN exports : exports[i] = "queued"} -> ExportStatuses] : Dispatch(outcome)

Next == \E shown \in {Boards} : Serve /\ before' = IF SignUp THEN shown ELSE None

Spec == Init /\ [][Next]_vars

-----------------------------------------------------------------------------
(* Properties.                                                              *)

TypeOK ==
    /\ GateTypeOK
    /\ waitlist \in Seq(Nat \cup {None}) /\ \A i \in DOMAIN waitlist : waitlist[i] \in 0..(i - 1) \cup {None}
    /\ intents \in Seq(IntentForm)
    /\ trials \in Seq(Trial) /\ exports \in Seq(ExportStatuses)
    /\ before # None => Range(before) \subseteq 0..3

\* Neither the gate nor the preflight, which adds up five boards, says go to a service with
\* a stain: an analysis that ever had a blocker, a launch blocker or a feedback rated 1 or 2
\* that newer rows leave room in the backlog, a critical integration that is not verified.
\* Closing backlog items changes none of that.
Clean ==
    /\ \A i \in DOMAIN runs : runs[i].form.blockers = 0
    /\ \A i \in DOMAIN runs : runs[i].form.launchBlockers > 0 => ~LaunchBlockerInSight(i, 1)
    /\ \A i \in DOMAIN feedback : ComplaintInSight(i) => feedback[i].form.rating > 2
    /\ \A c \in Categories : Critical[c] => "verified" \in providers[c]

Stained(shown) == DecisionRank("go") \notin {shown.gate, shown.preflight}
GoMeansClean == Clean \/ Stained(Boards)

\* Growth is never punished: who saves, shares, visits, subscribes, is invited or asks for a
\* plan worsens no board, though one request moves scores of a dozen boards, the checks and
\* the backlog of the gate, shares of the invited, and the retention of a table.
NoneWorse(shown) == \A b \in DOMAIN shown : before[b] <= shown[b]
SignUpNeverHurts == before # None => NoneWorse(Boards)
=============================================================================
