# SpecPilot AI in TLA+

A model of SpecPilot AI (`specpilot_ai/`): the FastAPI service that analyses PC and laptop purchases, stores the
analyses in SQLite, shares and sends reports, alerts on target prices, refreshes sources, judges its own launch, and
answers some forty public decision kits. The modules are checked with TLC on small instances; the main results about
the tables, the launch gate and the decisions that kits hand on are proved with TLAPS for every value of the constants.

## The system

`specpilot_ai/api/main.py` holds 190 endpoints. They are plain `def` functions, so the server
runs them on a thread pool and **requests overlap**. Every endpoint makes a `SpecPilotStore`
(`storage/sqlite_store.py`) and every store method opens its own SQLite connection with the default isolation level:

* a `SELECT` before the first `INSERT`/`UPDATE`/`DELETE` of a `with self._connect() as conn:` block runs in autocommit
  and sees what is committed at that moment;
* the first write opens a transaction that lasts to the end of the block, and excludes other writers;
* an error (SQLite's busy timeout, say) rolls that block back and answers 500; blocks that committed before it stay;
* a restart keeps the tables and loses the two in-memory dictionaries and the requests in progress.

So a request is a short sequence of atomic steps, between which the other requests run. This is what the models of the
tables keep; it is also what the repository's tests, which send one request after the other, do not reach. The rest of
the program — the boards of a launch, the purchase agent and the kits in `services/` — keeps no state of its own. It is
modelled as functions, and what is hard there is to see how a fact travels through many of them.

### Components

| component | state | operations | hard behaviour | correct when |
|---|---|---|---|---|
| Analyses, saved reports, share links | `_TRACE_CACHE`, `analysis_runs`, `saved_reports` | analyze, alert preview, save, share, revoke, public visit | share and revoke read, then write; a save stores a cached analysis again; the visit counts by token | a token opens one report of its owner, shared reports open, revoked links stay dead, visits are counted |
| Target-price alerts | `alert_subscriptions`, `alert_delivery_events`, `alert_notification_channels`, `alert_delivery_attempts` | subscribe, evaluate, set a channel, dispatch | dispatches overlap; several channels share one status; retry limits; lost dispatches | delivered once, failed means nobody was reached, nothing open waits for ever |
| Launch dashboard cache | `_LAUNCH_DASHBOARD_CACHE` | lookup, remember, invalidate; sixteen dashboards computed from each other | computations overlap writes; entries built from entries; eviction | fresh after a write, bounded age, bounded size |
| Completion delivery, templates, groups | `completion_report_batches`, `_deliveries`, provider events, engagement, templates, groups, targets | upsert, batch, tracking pixel and link, provider webhook, engagement | retry count shared by recipients and read early; webhooks over each other; upserts by name that overlap; a group edited during a batch | the provider's last word is shown, retries are not cut short, who is unsubscribed is skipped, ids stay |
| Observability exports | `observability_exports` | create, dispatch | the retry counter is written from a stale read | what can be delivered never fails, nothing is given up early |
| Source monitors, provider gate, review queue | `source_monitors`, `source_provider_policies`, `source_provider_fetch_log`, `source_refresh_runs`, `source_review_queue` | create monitor, policy; refresh, refresh-due, ingest; decide | quota counted and recorded in two statements; a list of due monitors worked off with network calls; a refresh that stops half-way; items found by a digest of the page | hourly limit respected, due monitors get run, decisions stand, new evidence is reviewed |
| Feedback, outcomes, checkout reviews, experiments, waitlist, intents, integration providers | one table each | insert, record, convert | read back only by the launch gate and its boards | see there |
| Improvement backlog | `beta_backlog_actions` over items computed from the other tables | PATCH, list | stored actions over items that come, go and age | no complaint gets lost |
| Launch gate and boards | none: functions of the tables | the gate, eleven boards, the preflight | boards made of boards, each with thresholds of its own | go means clean, an overdue complaint blocks, growth is never punished |
| Purchase agent | the state of a LangGraph pipeline | ten fixed nodes | later nodes read what earlier ones left | targets and picks stay within the budget |
| Decision kits (`services/*.py`) | none | pure functions that fill in each other's requests | thresholds, cut lists, words read out of texts, bounds of request models | a worse fact never gives a better verdict, a hold is not lost on the way |
| Purchase links, source adapters, API keys, graph client, tracing, HTML, scripts | one table each or none | insert, lookup, rendering, external calls | — | — |

## Modules

| module | what it is |
|---|---|
| `ReportSharing` (`MC…`, `…_proofs`) | reports and share links: requests as sequences of reads and transactions |
| `AlertDelivery` | what an outbox promises, seen from outside |
| `AlertOutbox` (`MC…`, `…_proofs`) | subscriptions, evaluation, channels, dispatch; implements `AlertDelivery` |
| `ObservabilityOutbox` (`MC…`, `…_proofs`) | trace exports and their dispatch; implements `AlertDelivery` |
| `CompletionDelivery` (`MC…`, `…_proofs`) | templates, groups, batches, webhooks, tracking |
| `DashboardCache` (`MC…`, `…_proofs`) | the cache, the nested computations, the invalidating writes |
| `SourceRefresh` (`MC…`, `…_proofs`) | monitors, refresh requests, ingestion, provider gate and quota, review items |
| `Verdicts` | ok, warning, blocker, and the arithmetic of scores |
| `LaunchGate` | the tables that the gate reads, the backlog, the nine checks, the decision |
| `LaunchBoards` (`MCLaunchGate`, `…_proofs`) | the audience's tables, and the boards from pulse to preflight |
| `KitText` | what the kits look for in texts and lists |
| `CheckoutKits`, `ListingKits`, `OfferKits`, `BuildKits`, `OwnerKits`, `PriceKits`, `ChoiceKits`, `BuyerKits` | the kits, by what they are asked |
| `AgentCatalog`, `PurchaseAgent` | the catalog's candidates, the agent's nodes |
| `RequestModels` | the bounds of the kits' request models |
| `PurchaseCase` (`MC…`, `…_proofs`) | one purchase, carried from kit to kit |

`LaunchBoards` extends `LaunchGate`; `PurchaseCase` composes all kits, the agent and the request models; both outboxes
are composed with `AlertDelivery` by `INSTANCE … WITH`.

Each main module contains a short section of *mistakes*: operators that no specification uses, each a plausible error
in the code. Put in the place of the definition it resembles, it makes the property named in `PROJECT.json` fail; so
each property is known to depend on the code.

### ReportSharing

Requests are named by the identifier they mint (trace, report, token), which `uuid4` makes unique. `pc` says where a
request is; `caller`, `target` and `held` are its key's workspace, the identifier it names and what it has read.
`ShareRead` and `ShareUpdate` are the `SELECT` and the `UPDATE` of `share_report_for_workspace`; `RevokeRead` and
`RevokeUpdate` those of the revocation; `SaveLookup` is the handler's lookup in cache and table, `SaveUpsert` and
`SaveInsert` the two transactions of `save_report_for_workspace`; `ViewRead`, `ViewCount`, `ViewReply` the public page.
`Fail` is an error in any step, `Restart` the server's. `AnalyzeRun` stands for both endpoints that analyse and store.

### AlertOutbox

`Evaluate` lists the active subscriptions and takes the time of its events, `QueueEvents` inserts them. A dispatch is
`Select` (the oldest `limit` open events, among those asked for), `ReadChannels`, `CountFirst` (the only attempt number
that is read outside the transaction) and `Deliver` (all attempts and statuses, one transaction). `Lose` is an error in
any of them. Prices are abstracted to the choice of which subscriptions trigger; a channel's target to whether
`_dispatch_status` accepts it, which only a webhook's can fail. The channels of a subscription are a set, possibly
empty: a list that names a channel twice is not modelled. An event without channels is selected and left alone, as in
the code.

### ObservabilityOutbox

`Insert` is the row of an export that `Create` has asked for; a dispatch is `Select` on one connection and `Commit` on
another, which writes back each row as it was selected with what `_observability_dispatch_status` decided: overlapping
dispatches lose counts and hand an export over twice. A form is a destination that exists or not and a payload or none.

### CompletionDelivery

An upsert looks its name up and then inserts, or updates what it found. A batch reads reports, template, group and the
failures of each report and channel, and then writes all its deliveries in one transaction (`CommitBatch`). A webhook
reads the delivery and its newest message, then inserts the event and rewrites the delivery; a visit of the pixel reads
the delivery, then inserts the engagement. A delivery's `outcome` is what the dispatcher decided, `status` what the row
shows. `excluded` is history: who has been unsubscribed from a batch's group ever since the batch came in.

### DashboardCache

A dashboard is abstracted to the version of the tables and the time it shows, the minimum over everything it was
computed from. `stack` holds the computations of a thread, innermost last: `Request` misses and starts one, `UseCached`
takes an input from the cache, `Descend` computes a missing input, `Finish` remembers the result and hands it on.
`Commit` and `Invalidate` are the two halves of the writes that invalidate; the writes that do not, such as a dispatch
of exports, are covered by the age of what is shown. `before` is the dictionary's insertion order, which decides what is
evicted.

### SourceRefresh

A request of thread `t` is `StartRefresh` (both refresh endpoints: list, filter, keep the list) or `StartIngest`, then
per monitor `Take`, the gate `ReadPolicy`, `CountFetches`, `RecordFetch` when there is no html, the page (`FetchPage`,
`FetchFails` for errors the handler catches, `FetchAborts` for those it does not), `AddReviewItem` and `RecordRun`; each
is one statement or one transaction of the code. `Governing` is `_matching_source_provider`. Time is kept as ages: a
monitor's last run ages up to its cadence, a log row until it leaves the window of the quota; from there on nothing in
the code tells the values apart, so no clock has to be bounded. `Keys` and `Prices` split a page into what its review
id is derived from and what it says beyond. Monitors and policies are only ever added in the code, and so here. More
than 500 policies, from where the gate would not see the oldest, are not modelled; neither is the time between
the clock reading of a row and its `INSERT`.

### LaunchGate and LaunchBoards

The state is the rows that the gate and the boards read (`runs`, `feedback`, `outcomes`, `waitlist`, `trials`, …), the
stored backlog actions, and the day. Tables of which only the number of rows and the age of the oldest is read are a
number in `counts` and a day in `first`. Each request that adds a row is an action; a PATCH of a backlog item finds the
item in the backlog (`PatchFind`), reads the action stored for it (`PatchRead`) and writes the row (`PatchWrite`), three
statements with others in between. A backlog is bounded twice, as in the code: it looks at the newest `BacklogLimit` rows
of feedback and of analyses (`Latest`), and shows the first `BacklogLimit` items of the list (`Listed`, `Shown`):
readiness, learning, feedback, launch blockers, each the newest first; rows of one creation time count as created in the
order in which they were added. The pricing board sums the newest 200 intents (`IntentWindow`). Everything else is a
function of this state: `Readiness`, `Regression`, `Insight`, `Growth`, `Integration`, `DataGovernance`, the items of
the `Backlog` merged with their stored actions, the gate's nine checks and `Decide`; `GateStatus` is ok together with go
alone, and a warning in the decisions between go and a block. `LaunchBoards` chains the boards:
`Scored` adds their scores one by one to the `Facts`, `Standing` reads statuses and decisions off the result. Scores
are integers, ten-thousandths of a point; a board's score is rounded to a tenth of a point as the code rounds it.
Averages and rates that the code rounds to two or four decimals are rounded down. The boards are computed without the
cache, whose staleness `DashboardCache` treats. `before` is history: what the boards showed before a sign-up.

### The kits, the agent and PurchaseCase

A kit is a function from a request to an answer: verdict, score, the status of each check it shows, and the requests it
fills in for other kits (`handoffs`, the code's prefills). A text is the set of the words in it that some kit looks for,
and generated texts carry the words they would be read for; amounts are in units of 10,000 won. `RequestModels` are the
bounds of the Pydantic models: a kit that fills in a request the model rejects raises, and its answer is `failed`.
`PurchaseAgent` has an operator for each node of the graph and for each part of the report; the graph is a line, so it
is their composition. `PurchaseCase` is the state machine over them: `Follow` posts one of the requests that the answer
filled in, `Worsen` posts the same request with one fact changed for the worse, at most `MaxChanges` times.
`Decisions` are the pairs of kits that pass a decision on, `Unsaid` the reasons for a hold that the code does not pass on
(see below); between them `HoldIsKept` says for each pair what must not get lost. `KitText` says what is left of a list
that a kit cuts, filters or merges by the places that are left (`At`, `Only`, `Distinct`), not by a fold, because the
prover can expand it; for the same reason the modules extend the community modules and do not make local instances.

## Runs

| run | instance | shows |
|---|---|---|
| `sharing` | 2 workspaces, 1 analysis, 2 saves, 2 shares, 1 revocation, 2 visits | the six properties of sharing hold under every interleaving, failure and restart |
| `revoked_token` | 1 report, 2 shares, 1 revocation | **violation**: a share that read the token before the revocation writes it back; the product plan promises a 404 |
| `alert_serial` | two evaluations of a subscription on two channels and of one on none, limit 1, 1 fair dispatcher | nothing delivered twice, failed reached nobody; `AlertDelivery` is implemented; an event stays queued for ever only behind as many failed or channelless ones as a dispatch takes |
| `alert_concurrent` | 1 subscription, 2 channels, 2 dispatchers | what is left when dispatches overlap |
| `cache_concurrent` | 4 dashboards in a chain of three levels, 2 threads, room for 2 | bounded size; age at most a TTL per level |
| `cache_serial` | 4 dashboards, 1 thread, 2 writes | fresh after every write |
| `source_concurrent` | 1 page of a host that may hang, 2 policies of which the narrower is not approved, 2 threads | quota overshoot bounded, runs have review items, decisions stand |
| `source_serial` | 2 monitors, one of a host that may hang and which overrides can replace, limit 2, 1 thread, fair scheduler | hourly quota, only due monitors are run, a monitor stays due for ever only behind one that hangs or beyond the limit |
| `completion` | 1 name, 2 upserts, 2 batches of 1 report to 2 addresses, 2 webhooks, 1 visit, four requests at a time | the provider's last word is shown, opens are of accepted deliveries, retries are not cut short, ids stay, who is unsubscribed is skipped |
| `exports` | 2 exports, 2 dispatchers, limit 1, retry limit 2 | an export that can be delivered never fails, none is given up early |
| `gates` | five workspaces: empty, at the edge of limited beta, ready, and two whose backlog is full (limits of 8 rows and items); every two requests, two of them patches that overlap | go means clean, overdue complaints block while they are in sight, sign-ups worsen no board unless they let an item in |
| `kits` | a few requests to each of 42 kits, clean, flawed, and with lists that are full but for one place, and up to two changes | every ordinary request is answered, advice stays within the budget, worse is better only in the four ways that the property names, a hold is kept |

**Bounds.** A violation of sharing needs a request that overlaps a share and a revocation, on two reports and two
workspaces to tell owners apart: all are in `sharing`. Alerts and exports need two dispatchers to overlap, two channels
to disagree, and two events for order to matter; with a limit of 0 a first attempt is within it and a second beyond, and
the attempt counter stops counting two above the largest limit (`AttemptCap`, `Cap`), from where no comparison changes;
larger limits, and limits that change between attempts, are covered by the proofs.
`sends` stops at two: once is right, twice is a duplicate. The cache needs three levels for ages to add up, less room
than keys to evict, and a clock that passes the TTL (`MaxClock`, `MaxWrites` bound the model only). `Tick` waits for
computations to end: computing takes milliseconds against a TTL of fifteen seconds. A source needs two policies for
precedence, two monitors for the order of a refresh, and a quota of one, which two threads exceed; `Fetches` has an id
to spare in every reachable state, so `RecordFetch` never waits. A completion needs two batches to share a retry
count, two upserts to race for a name and two webhooks to overlap on one delivery; `Busy` bounds the requests of a
behaviour to four, two of a kind and two others. The code's retry limit of four is one there, as reaching it takes a
batch per retry. The gate's properties compare neighbouring states or sum up a state, so the workspaces
that a behaviour begins with matter more than its length: the five ledgers of `MCLaunchGate` sit on both sides of the
thresholds, with a blocker in each window of five runs and, in two of them, a backlog so full that one more row or item
pushes one out; two requests are enough for a complaint and the day after its deadline, or a patch, which counts once with
its three steps. The code's 200 is 8 there, `BacklogLimit`, which the proofs leave open; making a window one row longer or
shorter breaks the properties. Kits are functions of one request; a change and
a handoff on each side of it is what their properties relate, and the requests of `MCPurchaseCase` are chosen per kit so
that each check is passed and failed; four of them (`Crowded`) have lists of risks with room for one more or none. Requests of one kind are interchangeable, and symmetry reduces them where no
liveness property is checked. Where `CHECK_DEADLOCK FALSE` is said, a behaviour ends because its requests are used up.

**Fairness.** Nothing in the code dispatches by itself: `POST /alerts/dispatch` is called from outside. `FairSpec` of
`AlertOutbox` assumes an operator's job that calls it again and again without `event_ids`, and that no event has all its
dispatches lost. It is used for `QueuedUnlessBlocked`. The documents say the same of `POST /sources/refresh-due`, which
cron or a cloud scheduler is to call: `SourceRefresh`'s `FairSpec` has it called again and again without `monitor_ids`
and overrides, requests progress, and it leaves out failing statements and restarts, which, going on for ever, would stop
anything; what they can leave in the tables can be there without them. Both liveness properties have the same form: what
is left waiting for ever is left behind something that takes its place for ever, and these are the only ways
(`Blocking`, `Kept`). The simpler promises, that every queued event is attempted and every due monitor run, are not kept
by the code, as the configurations below show. The other modules state safety only.

**Further configurations.** The violation above is recorded in `PROJECT.json` with the sentence it contradicts. These
configurations, of the same form, show what does not hold, and can be run with TLC on the `MC` module of their
component:

| configuration | property | counterexample |
|---|---|---|
| `AlertDuplicate.cfg` | `OnlyOpenEventsDispatched` | two dispatchers: an event already sent is delivered again |
| `AlertPartial.cfg` | `ScheduledRetryIsReachable` | one channel accepts, the other gets a `next_retry_at`; the event is sent and never selected again |
| `AlertStarved.cfg` | `QueuedIsAttempted` | with limit 1 an exhausted event, still `failed`, is selected for ever |
| `CacheRace.cfg` | `FreshAfterWrite` | a dashboard read before a write is remembered after the invalidation, which the repository's README.md:114 calls immediate |
| `CacheConcurrent.cfg` with `ServedWithinTTL` added | `ServedWithinTTL` | a dashboard computed from cached ones is older than the documented 15 seconds |
| `SourceQuota.cfg` | `HourlyQuota` | two requests count before either records |
| `SourceSerial.cfg` with `Limit = 1`, `Responsive = {s1, s2}` and two snapshots | `DueIsRefreshed` | 2 monitors, limit 1: the older monitor is never run |
| `SourceHangs.cfg` | `DueIsRefreshed` | a read timeout is neither a `URLError` nor a `ValueError`: the refresh ends without a run, its monitor stays due and in front of the older ones |
| `SourceEvidence.cfg` | `EvidenceIsReviewed` | one page with two prices: the reviewed evidence is not what the run extracted |

## Proofs

Every theorem holds for all values of the constants under the modules' named assumptions: limits and bounds are natural
numbers, sets of requests and the products on sale are finite and, where the code takes identifiers from `uuid4`,
requests are disjoint (`RequestsDisjoint`, `RequestsAreDistinct`), `None` is no value and no number (`NoneAssumption`), request forms and
the tables to begin with are typed (`FormsAreForms`, `LedgersAssumption`), the limits of the backlog are numbers
(`LimitsAssumption`), the fetches to look at are those of a hundred hosts at most (`HostsAssumption`), the requests
that a buyer posts first are those that the kits' models accept (`PostedAssumption`), the dashboards' dependencies descend
(`LevelsDescend`). TLC evaluates them in the passing runs.
Where a theorem holds for one dispatcher or thread only, it says so as a hypothesis. Nothing else is assumed.

| module | theorems | argument |
|---|---|---|
| `ReportSharing_proofs` | types; a token opens one report of its owner; shared reports open; only the owner's requests change sharing; gone tokens stay gone; views match visits | The first three are conjuncts of one inductive invariant `Inv`. The property of the tables alone is not inductive: a token also travels in requests that have read it and not yet written it, so `Inv` says of every token, wherever it is, which report it was minted for, and that no two share requests mint the same. `ViewsMatchVisits` is an invariant of counts: `VisitInv` adds that a visit about to count still finds its token in the row unless the report has been revoked or has had a second token, and each step is followed through the two sets of visits that the bounds count. |
| `AlertOutbox_proofs` | types; attempts, deliveries and statuses agree; early counts are behind; with one dispatcher nothing is delivered twice, failed reached nobody, sent is final, and `AlertDelivery` is implemented | `Inv` holds under any overlap. The serial theorems assume one dispatcher and add that what it has selected is still as it was selected, so that the refinement mapping takes each step to a step of the abstract outbox or a stutter. |
| `ObservabilityOutbox_proofs` | types; what can be delivered never fails; nothing is given up early; with one dispatcher `AlertDelivery` is implemented | A lost update can only lower a retry count: the invariant bounds the count of a row, and of a row as a dispatcher has picked it, by the number of times it was worked. |
| `DashboardCache_proofs` | types; bounded size; age at most a TTL per level; fresh after a write with one thread | The age of an entry is bounded by its dashboard's level and, in the same invariant, that of every unfinished computation on the stack by the levels of the inputs it has used. |
| `SourceRefresh_proofs` | types; overshoot of the quota is at most one per other thread; serial requests keep it and run only due monitors; runs have their review item; decisions stand | A thread that has counted and not yet recorded is a promise: fetches plus promises are bounded. |
| `CompletionDelivery_proofs` | types; the last word is shown; counted opens were accepted; nothing given up early; ids stay; unsubscribed recipients are skipped | Layers on `Typed`: each adds what webhooks, visits, plans of a batch or upserts in progress hold of the tables they have read. The count that a batch has read is at most the table's, since failures are only added. |
| `LaunchBoards_proofs` | types; an overdue complaint or launch blocker in sight blocks; neither the gate nor the preflight says go with a stain in sight; a sign-up never hurts where all items are shown or readiness stays | The second and third need of the past only that rows are dated (`Dates`). That an item is in sight is a count: what the list has before it is embedded in the rows and items that the property counts, source by source, so that fewer than `BacklogLimit` items come first. The rest follows an item from its row through `Backlog`, `BacklogCheck`, `GateStatus` and `Decide`, and the gate's status through the boards, which keep it (`Kept`), into the preflight. For the types, a PATCH stores later what it has read of an item (`PatchesTyped`). `SignUpNeverHurts` compares two states: every operator that boards are made of (`AtMost`, `Percent`, `Blend`, `StatusAt`, sums over rows or products, sorted ranks) is shown to rise with its arguments, every fact that a board reads to rise with a sign-up (`FactsRise`), and so each board in turn (`BoardsRise`); the backlog only loses items if it showed all of them, and stays as it is if readiness does. Steps that read a sequence from its first element to its last take the least index at which the claim fails, which needs no induction scheme. |
| `PurchaseCase_proofs` | a hold is kept; no kit that weighs the price (those of `CostOf`) recommends over the budget; an ordinary request is answered | `RequestAccepted` (the request of a case is one that its kit's model accepts) is the invariant: without it a list could be of anything, a status of no known kind. The first part says what is left of a list that is cut, filtered or merged; the second follows each reason for which a kit holds (a refusal, a hard risk, a budget, a mark of another kit) into the request that it fills in, and from there to the reason for which the next kit holds it, for each of the nine pairs. Proving it corrected the property: the exceptions in `Unsaid` are what the code does not pass on, met where the proof of the wider property failed. `BudgetsAreKept` needs the same invariant: an accepted request makes every amount that a kit adds up, caps or floors a number (most of the lemmas say just that); the flag for the budget is then shown to be among those that are kept, the first candidate of a sorted list to be one of those that were scored (`SortedOf`), and the shares of a blueprint to add up to at most its budget. Its premise is only that the kit has a budget and the request names one above 0. `OrdinaryAreAnswered` has two halves: no verdict that a kit puts together is `failed` (`KitsAnswer`), and every request that an ordinary one fills in fits the model of the next kit, amount by amount and list by list (`OrdinaryHands`, one lemma per kit that fills in a request). Its counting arguments are the ones a test would not reach: what a cart misses and what it has twice are different ones of eleven roles, so that nine lines stay within the 20 warnings of the approval; a lock has at most twelve checks; the buyer with the highest budget makes the median of a consensus exist; the parts, sizes and prices that a text names are those that the next model takes. |

Only model-checked: one property of the kits (`WorseIsNeverBetter`), the violation, and all liveness (`QueuedUnlessBlocked`, `DueUnlessKept`), which is beyond this prover. `WorseIsNeverBetter` is
about a parameter, `Worse`, of which nothing is assumed: it cannot be a theorem before each field's changes are defined.

## What the code does that one might not expect

All of it is in the models as it is in the code; the properties are stated so that they say what holds beside it.

* **Bounds that do not fit together.** Reply and journey take budgets up to 200 million won and fill in triage and review
  requests that stop at 30 million; a cart above 30 million, or with more than 20 warnings, fills in an approval request
  that is rejected, although the repository's README.md:635 promises it; a listing of up to 200 million fills in a breakdown that stops
  at 50 million, and one with more than 5 million of shipping, 40 million of coupon or 20 million of points, which the
  deal takes, a breakdown that takes less. The answer is then an error. `OrdinaryIsAnswered` is about requests that stay
  within these bounds: `Smallest` has the smaller model's bound of each amount, `Ordinary` what it asks of a cart and of
  the scanner. The proof found the bounds of the deal, which no request of the run had exceeded. The scanner
  without a total price always raises (`spec_risk_scanner.py:400`), and so does what review, terms and setup hand to it.
* **Cut lists.** Flags are cut to their first eight or ten, and the buyer's own come first: in the community reply, the
  seller's evidence, the page and the custom candidates one more harmless remark pushes out what the kit had found by
  itself, a price far over the budget (`community_reply.py:90`) or a used part (`custom_candidate_decision.py:219`), and the
  verdict improves. `PushesOut` names these four; with the exception removed for any one of them, the run `kits` fails. In
  the kits that cut otherwise (journey, final, deal, ownership, the claims) what is left of a full list still decides the same.
  A page hands six of its flags to the seller. A refusal in
  the usage context is lost on the way from reply to journey when there is any remark or anything missing, and so is one
  beyond the tenth remark; the sentence about 8 % over budget is not read back from a remark (`Unsaid`).
* **Words read out of generated words.** A cart that is held for a missing part, or because each of its lines is
  doubtful, hands the scanner a request that only warns. The sentence a cart fills in for the scanner counts as evidence of delivery and
  returns; `AS 불가` and `반품 불가` count as AS and return evidence of scanner and lock; the decoder takes `반품 가능` for a
  blocking condition; the final kit's checklist reaches execution as evidence; ownership's sentence that there is no
  risk contains the word; its check of `AS 불가` reads four conditions and minds case. `512GB` is no disk for triage,
  scanner RAM of 8 or 16 is never confirmed, the `m4` rule for the GPU never matches, a prebuilt's line in a cart names
  no CPU.
* **Rules that always or never fire.** The seller priority is never ok, a blueprint's list of things to avoid is always
  long enough for its warning, a checkout score of 0 counts as 70, and with the shipped catalog the agent's verdict is
  always `review_required`, because open-market offers are counted over all candidates.
* **The budget.** The verdicts of the reviewer and of the approval (`purchase_approval.py:51-57`) do not look at it, nor do
  those of the kits that are not in `CostOf`; a defence can be ok over budget while its price objection
  is a blocker; the expanded stress test can be ok over budget; the price watch starts one percent above the
  target; the kits that choose from the catalog take a budget below 300,000 won for 300,000 won, and recommend up to that.
* **Worse input, better verdict.** A worse clean candidate can make price trust select a cheaper one and lift a blocker;
  lowering a stakeholder's higher budget can lift that of the consensus; a blocked candidate that loses makes the
  winner's verdict `verify`; an affiliate-only candidate hides a stale price; see also *Cut lists*. `WorseIsNeverBetter`
  names the kits and changes that it excepts.
* **Boards.** An invited sign-up never hurts, one without an invitation can, through the share rate; past 200 intents a
  free one pushes a paid one out of the sum. With a full backlog the gate can say go over a complaint: 200 newer feedbacks,
  or 200 items before it, hide an overdue one, which `ComplaintInSight` and `LaunchBlockerInSight` say. And a sign-up that
  makes a readiness check ok takes an item off the list and so lets a hidden overdue one in, which blocks the launch:
  `SignUpNeverHurts` excepts a backlog that is full (`Fits`). A dispatch of exports does not invalidate the cache. `waitlist_referrals` is missing from the
  data inventory.
* **Tables.** A batch that names a disabled group sends to the request's own address. Two first upserts of a name both
  answer with an id, of which one names no row afterwards. Two overlapping refresh-due calls run a monitor twice within
  its cadence.

## Not modelled

* Dry runs and previews, which write nothing; several server processes on one database file.
* Neo4j, Langfuse and mail: external, called with what the models compute. Source adapters are static.
* Purchase links and clicks, advisor answers, beta cohorts, members and tasks, variants of experiments, referral
  rewards: inserts and updates of single rows that no modelled decision reads.
* Of the boards the week recap, the community and media kits, the activation offer, the response loop and the retention
  hub, and of the kits those that only write texts; of the others the wording.
* API keys (a lookup, whose result every request takes as a parameter), the product graph, HTML, trace spans, scripts.
* Exact rounding of averages and rates to two or four decimals: they are rounded down.

## Plan

1. Purchase links: a click that read an active link and is recorded after its deactivation.
2. Beta cohorts, members and tasks.
3. The boards listed under *Not modelled*, into `Scored`, and their standing into `SignUpNeverHurts`.
