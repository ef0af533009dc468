------------------------- MODULE CompletionDelivery -------------------------
(****************************************************************************)
(* Completion reports: the templates and recipient groups of a workspace,   *)
(* the batches that send saved reports to recipients, the provider's        *)
(* webhooks, and the tracking pixel and link.                               *)
(*                                                                          *)
(* Requests overlap as in ReportSharing: a step is a read in autocommit or  *)
(* a transaction.  A batch decides every delivery from reads and writes all *)
(* of them in one transaction.  An identifier is the request that mints it, *)
(* a delivery the batch, report and recipient it is for.                    *)
(****************************************************************************)
EXTENDS FiniteSets, Naturals, Sequences

CONSTANTS
    Names,         \* the names templates and groups are stored under
    Upserts,       \* POST completion-templates and completion-recipient-groups, and the ids they mint
    Batches,       \* POST completion-batches
    Webhooks,      \* POST completion-deliveries/provider-webhooks
    Visits,        \* GET /t/o, GET /t/c and POST completion-deliveries/{id}/engagement
    Reports,       \* saved reports of the workspace
    Channels,
    Targets,       \* addresses
    Unanswerable,  \* <<channel, target>>: channel not supported, or target blank
    Malformed,     \* <<channel, target>>: a webhook whose target is no URL
    RetryLimit,    \* 4 in the code
    TemplateForms, \* what an upsert says of a template,
    GroupForms,    \*   and of a group
    Orders,        \* what a batch request asks for besides the two ids
    None

ASSUME RetryLimitIsPositive == RetryLimit \in Nat \ {0}

Kinds == {"template", "group"}
Forms(kind) == IF kind = "group" THEN GroupForms ELSE TemplateForms

ASSUME FormsAreForms ==
    /\ TemplateForms \subseteq [channel : Channels, enabled : BOOLEAN]
    /\ GroupForms \subseteq
         [channel : Channels, enabled : BOOLEAN, to : SUBSET Targets, out : SUBSET Targets]
    /\ Orders \subseteq [channel : Channels, target : Targets, respect : BOOLEAN]

Deliveries == Batches \X Reports \X Targets
Requests == Upserts \cup Batches \cup Webhooks \cup Visits

ASSUME RequestsAreDistinct ==
    /\ Upserts \cap (Batches \cup Webhooks \cup Visits) = {}
    /\ Batches \cap (Webhooks \cup Visits) = {}
    /\ Webhooks \cap Visits = {}
    /\ None \notin Requests

VARIABLES
    saved,        \* completion_report_templates and _recipient_groups: by name, a row or None
    batchStatus,  \* completion_report_batches: the status column, None without a row
    deliveries,   \* completion_report_deliveries: a row or None
    events,       \* completion_delivery_provider_events: of each delivery, oldest first
    engagement,   \* completion_delivery_engagement: <<visit, delivery>>
    pc,           \* where each request is
    job,          \* what each request has read and decided
    excluded      \* of a batch, who has been unsubscribed from its group ever since it came in;
                  \* a history variable, which no step of the code reads

vars == <<saved, batchStatus, deliveries, events, engagement, pc, job, excluded>>
tables == <<saved, batchStatus, deliveries, events, engagement>>

\* What the dispatcher decides of a delivery.  `exhausted' is a failure without next_retry_at.
Outcomes == {"skipped", "refused", "exhausted", "sent"}

\* completion_dispatch: the status column of a delivery never touched by a webhook.
StatusOf(outcome) ==
    CASE outcome = "sent" -> "sent"
      [] outcome = "skipped" -> "skipped"
      [] outcome \in {"refused", "exhausted"} -> "failed"

\* Event types after normalisation; `complained' and `dropped' are treated as `bounced'.
EventTypes == {"delivered", "bounced", "suppressed", "deferred", "custom"}
ProviderStatus(type) ==
    CASE type \in {"delivered", "custom"} -> "sent"
      [] type = "bounced" -> "failed"
      [] type = "suppressed" -> "skipped"
      [] type = "deferred" -> "retry_scheduled"

\* `outcome' stands for sent_at, next_retry_at and the first part of provider_message, which
\* no later statement changes; `told' for the events appended to provider_message.
Event == [by : Webhooks, type : EventTypes]
Delivery == [channel : Channels, outcome : Outcomes,
             status : {"sent", "failed", "skipped", "retry_scheduled"}, told : Seq(Event)]

Saved(kind) == [id : Upserts, form : Forms(kind)]

ASSUME NoneIsNoRow == None \notin Delivery /\ \A kind \in Kinds : None \notin Saved(kind)
ASSUME RequestsAreFinite == IsFiniteSet(Batches) /\ IsFiniteSet(Reports) /\ IsFiniteSet(Targets)

Init ==
    /\ saved = [kind \in Kinds |-> [n \in Names |-> None]]
    /\ batchStatus = [b \in Batches |-> None]
    /\ deliveries = [d \in Deliveries |-> None]
    /\ events = [d \in Deliveries |-> <<>>]
    /\ engagement = {}
    /\ pc = [q \in Requests |-> "idle"]
    /\ job = [q \in Requests |-> None]
    /\ excluded = [b \in Batches |-> {}]

Step(q, from, to) == pc[q] = from /\ pc' = [pc EXCEPT ![q] = to]

-----------------------------------------------------------------------------
(* Mistakes the steps below could make; no specification uses them.         *)

\* ON CONFLICT also takes the new identifier.
UpsertTakesNewId(u) ==
    /\ Step(u, "upsert", "done")
    /\ LET j == job[u] IN
         saved' = [saved EXCEPT ![j.kind][j.name] = [id |-> u, form |-> j.form]]
    /\ UNCHANGED <<batchStatus, deliveries, events, engagement, job, excluded>>

\* The retry number counts every delivery that was not accepted.
CountsSkipped(r, ch) ==
    {d \in Deliveries : /\ d[2] = r
                        /\ deliveries[d] # None
                        /\ deliveries[d].channel = ch
                        /\ deliveries[d].status # "sent"}

\* A webhook on a failed delivery is recorded, and the status stays.
WebhookKeepsFailure(w) ==
    /\ Step(w, "record", "done")
    /\ LET d == job[w].delivery
           e == [by |-> w, type |-> job[w].type]
       IN  /\ events' = [events EXCEPT ![d] = Append(@, e)]
           /\ deliveries' = [deliveries EXCEPT ![d].told = Append(job[w].told, e),
                 ![d].status = IF @ = "failed" THEN @ ELSE ProviderStatus(e.type)]
    /\ UNCHANGED <<saved, batchStatus, engagement, job, excluded>>

\* A webhook is recorded without the test that its delivery was found.
WebhookReadsBlindly(w, d, type) ==
    /\ Step(w, "idle", "record")
    /\ job' = [job EXCEPT ![w] = [delivery |-> d, type |-> type, told |-> <<>>]]
    /\ UNCHANGED <<tables, excluded>>

\* The pixel counts whatever became of the delivery.
TrackAnything(d) == deliveries[d] # None

\* The unsubscribe list is compared with the address of the request.
ExcludesOrderOnly(order, group) ==
    IF group = None THEN {<<order.target, FALSE>>}
    ELSE {<<t, t = order.target /\ t \in group.form.out>> : t \in group.form.to}

-----------------------------------------------------------------------------
(* Templates and recipient groups are upserted by name, looked up by id.    *)

\* The SELECT.  It compares the name as it came, the INSERT stores it stripped: with blanks
\* around it (`padded') the name is never found.
UpsertLookup(u, kind, n, padded, form) ==
    /\ Step(u, "idle", "upsert")
    /\ job' = [job EXCEPT ![u] =
         [kind |-> kind, name |-> n, form |-> form,
          id |-> IF padded \/ saved[kind][n] = None THEN u ELSE saved[kind][n].id]]
    /\ UNCHANGED <<tables, excluded>>

\* INSERT ... ON CONFLICT(workspace_id, name): an existing row keeps its id.  The answer
\* shows job[u].id.
UpsertCommit(u) ==
    /\ Step(u, "upsert", "done")
    /\ LET j == job[u]
           row == saved[j.kind][j.name]
           id == IF row = None THEN j.id ELSE row.id
       IN  /\ saved' = [saved EXCEPT ![j.kind][j.name] = [id |-> id, form |-> j.form]]
           /\ excluded' = [b \in Batches |->
                IF j.kind = "group" /\ pc[b] \notin {"idle", "done", "failed"} /\ job[b].group = id
                THEN IF j.form.enabled THEN excluded[b] \cap j.form.out ELSE {}
                ELSE excluded[b]]
    /\ UNCHANGED <<batchStatus, deliveries, events, engagement, job>>

\* _completion_template and _completion_recipient_group: the enabled row with this id.
Enabled(kind, id) ==
    LET found == {n \in Names : /\ saved[kind][n] # None
                                /\ saved[kind][n].id = id
                                /\ saved[kind][n].form.enabled}
    IN  IF id = None \/ found = {} THEN None ELSE saved[kind][CHOOSE n \in found : TRUE]

-----------------------------------------------------------------------------
(* A batch.                                                                 *)

\* The order of precedence of _completion_channel.
BatchChannel(order, template, group) ==
    CASE group # None -> group.form.channel
      [] group = None /\ template # None -> template.form.channel
      [] OTHER -> order.channel

\* Pairs of an address and whether it is unsubscribed.
BatchTargets(order, group) ==
    IF group = None THEN {<<order.target, FALSE>>}
    ELSE {<<t, t \in group.form.out>> : t \in group.form.to}

Failed(r, ch) ==
    {d \in Deliveries : /\ d[2] = r
                        /\ deliveries[d] # None
                        /\ deliveries[d].channel = ch
                        /\ deliveries[d].status = "failed"}

\* One call of _completion_dispatch_status, after the test of the unsubscribe policy.
Outcome(order, ch, target, unsubscribed, failures) ==
    CASE unsubscribed /\ order.respect -> "skipped"
      [] ~(unsubscribed /\ order.respect) /\ <<ch, target>> \in Unanswerable -> "refused"
      [] OTHER -> IF failures + 1 > RetryLimit THEN "exhausted"
                  ELSE IF <<ch, target>> \in Malformed THEN "refused" ELSE "sent"

\* The reports are selected; none found, and the batch ends as `empty' without a row.
SelectReports(b, rs, order, template, group) ==
    /\ Step(b, "idle", IF rs = {} THEN "done" ELSE "template")
    /\ job' = [job EXCEPT ![b] = [reports |-> rs, order |-> order, template |-> template,
                                  group |-> group, channel |-> None, todo |-> {}, plan |-> {}]]
    /\ excluded' = [excluded EXCEPT ![b] =
         IF Enabled("group", group) = None THEN {} ELSE Enabled("group", group).form.out]
    /\ UNCHANGED tables

ReadTemplate(b) ==
    /\ Step(b, "template", "group")
    /\ job' = [job EXCEPT ![b].template = Enabled("template", @)]
    /\ UNCHANGED <<tables, excluded>>

ReadGroup(b) ==
    /\ Step(b, "group", "count")
    /\ LET row == Enabled("group", job[b].group)
       IN  job' = [job EXCEPT
             ![b].channel = BatchChannel(job[b].order, job[b].template, row),
             ![b].todo = job[b].reports \X BatchTargets(job[b].order, row)]
    /\ UNCHANGED <<tables, excluded>>

\* The loop: a SELECT COUNT for each delivery, in any order.
CountRetries(b) ==
    /\ Step(b, "count", "count")
    /\ \E x \in job[b].todo :
        LET d == <<b, x[1], x[2][1]>>
            outcome == Outcome(job[b].order, job[b].channel, x[2][1], x[2][2],
                               Cardinality(Failed(x[1], job[b].channel)))
        IN  /\ job' = [job EXCEPT ![b].todo = @ \ {x}, ![b].plan = @ \cup {<<d, outcome>>}]
            /\ UNCHANGED <<tables, excluded>>

\* The batch of a plan: `failed' covers a group without recipients.
BatchStatus(plan) ==
    LET outcomes == {x[2] : x \in plan}
        failing  == outcomes \cap {"refused", "exhausted"} # {}
    IN  CASE plan = {} \/ (failing /\ "sent" \notin outcomes) -> "failed"
          [] failing /\ "sent" \in outcomes -> "partial"
          [] ~failing /\ "sent" \in outcomes -> "sent"
          [] OTHER -> "skipped"

\* The batch row and all deliveries, in one transaction.
CommitBatch(b) ==
    /\ Step(b, "count", "done")
    /\ job[b].todo = {}
    /\ batchStatus' = [batchStatus EXCEPT ![b] = BatchStatus(job[b].plan)]
    /\ deliveries' = [d \in Deliveries |->
         IF \E o \in Outcomes : <<d, o>> \in job[b].plan
         THEN LET o == CHOOSE o \in Outcomes : <<d, o>> \in job[b].plan
              IN  [channel |-> job[b].channel, outcome |-> o, status |-> StatusOf(o), told |-> <<>>]
         ELSE deliveries[d]]
    /\ UNCHANGED <<saved, events, engagement, job, excluded>>

-----------------------------------------------------------------------------
(* The provider calls back, and the recipients react.                       *)

\* A webhook names a delivery by id, by tracking token, or one by each, of which SQLite
\* returns one it finds: d.
WebhookRead(w, d, type) ==
    /\ IF deliveries[d] = None
       THEN Step(w, "idle", "done") /\ UNCHANGED job
       ELSE /\ Step(w, "idle", "record")
            /\ job' = [job EXCEPT ![w] = [delivery |-> d, type |-> type, told |-> deliveries[d].told]]
    /\ UNCHANGED <<tables, excluded>>

\* The event and the status, in one transaction; provider_message is the one read before.
WebhookRecord(w) ==
    /\ Step(w, "record", "done")
    /\ LET d == job[w].delivery
           e == [by |-> w, type |-> job[w].type]
       IN  /\ events' = [events EXCEPT ![d] = Append(@, e)]
           /\ deliveries' = [deliveries EXCEPT ![d].status = ProviderStatus(e.type),
                                               ![d].told = Append(job[w].told, e)]
    /\ UNCHANGED <<saved, batchStatus, engagement, job, excluded>>

\* The pixel and the link answer whatever happens, and count only what was sent; the
\* workspace's own endpoint records for any delivery.
Trackable(d) == deliveries[d] # None /\ deliveries[d].status = "sent"

VisitRead(v, d, tracked) ==
    /\ IF (IF tracked THEN Trackable(d) ELSE deliveries[d] # None)
       THEN Step(v, "idle", "engage") /\ job' = [job EXCEPT ![v] = [delivery |-> d, tracked |-> tracked]]
       ELSE Step(v, "idle", "done") /\ UNCHANGED job
    /\ UNCHANGED <<tables, excluded>>

VisitRecord(v) ==
    /\ Step(v, "engage", "done")
    /\ engagement' = engagement \cup {<<v, job[v].delivery>>}
    /\ UNCHANGED <<saved, batchStatus, deliveries, events, job, excluded>>

\* A statement fails, or the server restarts: the request is lost, nothing is written.
Fail(q) ==
    /\ pc[q] \notin {"idle", "done", "failed"}
    /\ pc' = [pc EXCEPT ![q] = "failed"]
    /\ job' = [job EXCEPT ![q] = None]
    /\ UNCHANGED <<tables, excluded>>

-----------------------------------------------------------------------------
Ids == Upserts \cup {None}

UpsertStep(u) ==
    \/ \E kind \in Kinds, n \in Names, padded \in BOOLEAN :
         \E form \in Forms(kind) : UpsertLookup(u, kind, n, padded, form)
    \/ UpsertCommit(u)

BatchStep(b) ==
    \/ \E rs \in SUBSET Reports, order \in Orders, template \in Ids, group \in Ids :
         SelectReports(b, rs, order, template, group)
    \/ ReadTemplate(b)
    \/ ReadGroup(b)
    \/ CountRetries(b)
    \/ CommitBatch(b)

WebhookStep(w) ==
    \/ \E d \in Deliveries, type \in EventTypes : WebhookRead(w, d, type)
    \/ WebhookRecord(w)

VisitStep(v) ==
    \/ \E d \in Deliveries, tracked \in BOOLEAN : VisitRead(v, d, tracked)
    \/ VisitRecord(v)

Next ==
    \/ \E u \in Upserts : UpsertStep(u)
    \/ \E b \in Batches : BatchStep(b)
    \/ \E w \in Webhooks : WebhookStep(w)
    \/ \E v \in Visits : VisitStep(v)
    \/ \E q \in Requests : Fail(q)

Spec == Init /\ [][Next]_vars

-----------------------------------------------------------------------------
(* Properties.                                                              *)

Plans == Deliveries \X Outcomes
UpsertJob == UNION {[kind : {kind}, name : Names, form : Forms(kind), id : Upserts] : kind \in Kinds}
BatchJob == [reports : SUBSET Reports, order : Orders, template : Ids \cup Saved("template") \cup {None},
             group : Ids, channel : Channels \cup {None},
             todo : SUBSET (Reports \X (Targets \X BOOLEAN)), plan : SUBSET Plans]
WebhookJob == [delivery : Deliveries, type : EventTypes, told : Seq(Event)]
VisitJob == [delivery : Deliveries, tracked : BOOLEAN]

\* Types, and that a delivery a request has read exists.
TypeOK ==
    /\ saved \in [Kinds -> [Names -> Saved("template") \cup Saved("group") \cup {None}]]
    /\ \A kind \in Kinds, n \in Names : saved[kind][n] \in Saved(kind) \cup {None}
    /\ batchStatus \in [Batches -> {"failed", "partial", "sent", "skipped", None}]
    /\ deliveries \in [Deliveries -> Delivery \cup {None}]
    /\ events \in [Deliveries -> Seq(Event)]
    /\ engagement \subseteq Visits \X Deliveries
    /\ pc \in [Requests -> {"idle", "done", "failed", "upsert", "template", "group", "count",
                            "record", "engage"}]
    /\ excluded \in [Batches -> SUBSET Targets]
    /\ \A u \in Upserts : pc[u] = "upsert" => job[u] \in UpsertJob
    /\ \A b \in Batches : pc[b] \in {"template", "group", "count"} => job[b] \in BatchJob
    /\ \A w \in Webhooks : pc[w] = "record" =>
         job[w] \in WebhookJob /\ deliveries[job[w].delivery] # None
    /\ \A v \in Visits : pc[v] = "engage" => job[v] \in VisitJob
    /\ \A d \in Deliveries : deliveries[d] = None => events[d] = <<>>

\* Once stored, a template or a group keeps its identifier: the ids handed out to callers
\* and written into batches go on naming it, however upserts of one name overlap.
IdsNeverChange ==
    [][\A kind \in Kinds, n \in Names :
         saved[kind][n] # None => saved'[kind][n] # None /\ saved'[kind][n].id = saved[kind][n].id]_vars

\* What a delivery shows is the provider's last word: its status is the one of the newest
\* event, which is also the end of its provider_message, in whatever order the webhooks
\* overlap; without an event it is what the dispatcher decided.
LastWordIsShown ==
    \A d \in Deliveries : deliveries[d] # None =>
        LET n == Len(events[d])
            told == deliveries[d].told
        IN  IF n = 0 THEN deliveries[d].status = StatusOf(deliveries[d].outcome) /\ told = <<>>
            ELSE /\ deliveries[d].status = ProviderStatus(events[d][n].type)
                 /\ told # <<>> /\ told[Len(told)] = events[d][n]

\* The opens and clicks counted by the public pixel and link are of deliveries that were
\* accepted: by the dispatcher, or later according to the provider, even if a failure was
\* reported since.
Accepted(d) ==
    /\ deliveries[d] # None
    /\ \/ deliveries[d].outcome = "sent"
       \/ \E i \in DOMAIN events[d] : ProviderStatus(events[d][i].type) = "sent"

TrackedWasAccepted ==
    \A v \in Visits, d \in Deliveries :
        (<<v, d>> \in engagement /\ job[v].tracked) => Accepted(d)

\* A delivery is given up (failed, without another retry) only when as many deliveries of
\* its report and channel as the limit says have failed, at some time, in other batches.
EverFailed(b, r, ch) ==
    {d \in Deliveries :
        /\ d[1] # b
        /\ d[2] = r
        /\ deliveries[d] # None
        /\ deliveries[d].channel = ch
        /\ \/ deliveries[d].outcome \in {"refused", "exhausted"}
           \/ \E i \in DOMAIN events[d] : ProviderStatus(events[d][i].type) = "failed"}

NotGivenUpEarly ==
    \A d \in Deliveries :
        (deliveries[d] # None /\ deliveries[d].outcome = "exhausted") =>
            Cardinality(EverFailed(d[1], d[2], deliveries[d].channel)) >= RetryLimit

\* Who is unsubscribed from the group a batch names, from before the batch comes in until
\* its deliveries are written, is sent nothing, whatever is saved meanwhile.
UnsubscribedIsSkipped ==
    [][\A b \in Batches, r \in Reports, t \in Targets :
         (/\ deliveries[<<b, r, t>>] = None
          /\ deliveries'[<<b, r, t>>] # None
          /\ job[b].order.respect
          /\ t \in excluded[b])
         => deliveries'[<<b, r, t>>].outcome = "skipped"]_vars
=============================================================================
