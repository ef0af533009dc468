---------------------------- MODULE MCLaunchGate ----------------------------
(* Five workspaces for TLC, and a few requests in each.                     *)
EXTENDS LaunchBoards, TLC

CONSTANTS p1, p2, h1, MaxSteps

VARIABLE steps

RunOf(quality, warnings, blockers, cost) ==
    [quality |-> quality, warnings |-> warnings, blockers |-> blockers,
     launchBlockers |-> blockers, cost |-> cost, picked |-> blockers = 0]
SomeRuns == {RunOf(95, 0, 0, 10), RunOf(60, 2, 1, 20)}

FeedbackWith(rating, requests) ==
    [rating |-> rating, intent |-> rating > 3, requests |-> requests, product |-> p1]
SomeFeedback == {FeedbackWith(5, FALSE), FeedbackWith(4, TRUE), FeedbackWith(2, FALSE)}

OutcomeOf(status, satisfaction, delta) ==
    [product |-> p1, status |-> status, satisfaction |-> satisfaction, delta |-> delta]
SomeOutcomes == {OutcomeOf("purchased", 5, 0), OutcomeOf("returned", 2, None),
                 [OutcomeOf("delayed", None, 60) EXCEPT !.product = p2]}

IntentTo(plan, size) == [plan |-> plan, annual |-> FALSE, size |-> size]
SomeIntents == {IntentTo("free", 1), IntentTo("team", 2)}
SomeEvents == {[type |-> e, fresh |-> e = "recommendation_click"] :
                  e \in {"analysis_view", "recommendation_click", "share_cta", "feedback_cta"}}

SomePatches == {[status |-> "done", due |-> None], [status |-> "in_progress", due |-> 1],
                [status |-> "open", due |-> Unreadable]}

Same(n, form, at) == [i \in 1..n |-> [form |-> form, at |-> at]]
Nothing == [t \in Tables |-> None]
Since(day) == [t \in Tables |-> day]
AllOf(n) == [c \in Counted |-> n]
EventsOf(n) == [e \in GrowthEventType |-> n]

Empty == [runs |-> <<>>, feedback |-> <<>>, outcomes |-> <<>>,
          checkouts |-> [p \in Products |-> [all |-> 0, blocked |-> 0]],
          counts |-> AllOf(0), events |-> EventsOf(0),
          fetches |-> [h \in Hosts |-> [allowed |-> 0, blocked |-> 0]],
          providers |-> [c \in Categories |-> {}], first |-> Nothing,
          waitlist |-> <<>>, intents |-> <<>>,
          trials |-> <<>>, exports |-> <<>>]

Tried(impressions, conversions) ==
    [metric |-> "subscription_cta", impressions |-> impressions, conversions |-> conversions]

\* Everything is there and well: go.
Ready == [runs |-> Same(12, RunOf(98, 0, 0, 10), 90),
          feedback |-> Same(10, FeedbackWith(5, FALSE), 90),
          outcomes |-> [i \in 1..6 |-> OutcomeOf("purchased", 5, 0)],
          checkouts |-> [p \in Products |-> [all |-> 3, blocked |-> 1]],
          counts |-> [AllOf(5) EXCEPT !["leads"] = 10, !["failed"] = 2], events |-> EventsOf(9),
          fetches |-> [h \in Hosts |-> [allowed |-> 9, blocked |-> 2]],
          providers |-> [c \in Categories |-> {"verified"}], first |-> Since(90),
          waitlist |-> <<0, 1, 1, 0, 2, 3>>,
          intents |-> <<IntentTo("team", 3), IntentTo("premium", 1), IntentTo("free", 1),
                        IntentTo("team", 2), IntentTo("premium", 1)>>,
          trials |-> <<Tried(20, 1), Tried(30, 4)>>, exports |-> <<"sent">>]

\* Limited beta, two revoked reports from hold, with a blocker in each window of five runs.
Pilot == [Ready EXCEPT
          !.runs = Same(4, RunOf(90, 1, 0, 10), 80) \o Same(1, RunOf(80, 1, 1, 10), 99)
                     \o Same(4, RunOf(90, 0, 0, 12), 99) \o Same(1, RunOf(90, 0, 1, 12), 99),
          !.counts = [AllOf(1) EXCEPT !["saved"] = 3, !["shared"] = 2, !["views"] = 4,
                        !["subscriptions"] = 3, !["leads"] = 8, !["failed"] = 2],
          !.providers = [c \in Categories |-> IF Critical[c] THEN {"configured"} ELSE {"mock"}],
          !.first = Since(60),
          !.waitlist = <<0, 1>>, !.intents = <<IntentTo("free", 1)>>,
          !.trials = <<Tried(12, 0)>>, !.exports = <<"failed", "queued", "failed">>]

\* Newer feedback fills the backlog up to its limit of eight items; an old complaint, or a
\* launch blocker, would be the ninth.
Crowded(rating, launchBlockers) ==
    [Ready EXCEPT
     !.runs = Same(7, RunOf(98, 0, 0, 10), 90)
                \o Same(1, [RunOf(98, 0, 0, 10) EXCEPT !.launchBlockers = launchBlockers], 90)
                \o Same(4, RunOf(98, 0, 0, 10), 90),
     !.feedback = Same(3, FeedbackWith(5, FALSE), 90) \o Same(1, FeedbackWith(rating, FALSE), 90)
                    \o Same(6, FeedbackWith(4, TRUE), 99),
     !.counts["shared"] = 2]

SomeLedgers == {Empty, Pilot, Ready, Crowded(2, 0), Crowded(5, 1)}

PatchersAlike == Permutations(Patchers)

\* Only the first step of a PATCH is a request.
MCInit == Init /\ steps = 0
MCNext ==
    /\ Next
    /\ steps' = IF \E q \in Patchers : patch[q] # None /\ patch'[q] # patch[q] THEN steps ELSE steps + 1
    /\ steps' <= MaxSteps
MCSpec == MCInit /\ [][MCNext]_<<vars, steps>>
=============================================================================
