----------------------------- MODULE AlertOutbox -----------------------------
(****************************************************************************)
(* Target-price alerts of one workspace: subscriptions, the evaluation that *)
(* queues delivery events, the notification channels, and the dispatch that *)
(* works the queue off and records an attempt per event and channel.        *)
(*                                                                          *)
(* Every statement filters on workspace_id, so one workspace is the whole   *)
(* system.  Requests run on a thread pool; a dispatch selects its events,   *)
(* then reads the channel settings, then reads the number of its first      *)
(* attempt, and only its first INSERT opens the transaction that writes     *)
(* everything it has decided.  A dry run writes nothing and is not modelled.*)
(****************************************************************************)
EXTENDS FiniteSets, Naturals

CONSTANTS
    Subscriptions,   \* POST /alerts/subscribe requests and the ids they mint
    Evaluations,     \* POST /alerts/evaluate requests
    Dispatchers,     \* worker threads that serve POST /alerts/dispatch
    Channels,        \* email, webhook, sms
    Webhooks,        \* the channels whose target must be a URL
    ChannelsOf,      \* the channels a subscription asks for, each once; maybe none
    MaxRetryLimit,   \* the largest retry_limit a channel can have (10 in the code)
    Limit,           \* the `limit' of a dispatch request
    None             \* the SQL NULL: no such row, no such value

ASSUME ChannelsOfSubscription ==
    ChannelsOf \in [Subscriptions -> SUBSET Channels]
ASSUME WebhooksAreChannels == Webhooks \subseteq Channels
ASSUME LimitIsPositive == Limit \in Nat \ {0}
ASSUME MaxRetryLimitIsNat == MaxRetryLimit \in Nat

\* An event is what one evaluation queues for one subscription.
Events == Evaluations \X Subscriptions
EventChannels(e) == ChannelsOf[e[2]]
Deliveries == {x \in Events \X Channels : x[2] \in EventChannels(x[1])}

\* alert_notification_channels: `reachable' abstracts the URL check, which only
\* a webhook can fail.
Settings == [enabled : BOOLEAN, retryLimit : 0..MaxRetryLimit, reachable : BOOLEAN]

\* The number of attempts is counted up to AttemptCap and stays there: from it
\* on every retry limit is exceeded and an attempt's number decides nothing.
AttemptCap == MaxRetryLimit + 2
Bump(n, cap) == IF n < cap THEN n + 1 ELSE cap

VARIABLES
    active,      \* alert_subscriptions, all of status active
    channel,     \* alert_notification_channels by channel, or None
    status,      \* alert_delivery_events: delivery_status, or None
    older,       \* created_at order: <<f, e>> when f was created before e
    attempts,    \* alert_delivery_attempts: how many per event and channel
    last,        \* the newest attempt's delivery_status and next_retry_at
    sends,       \* how often the channel's outbox accepted the event (up to 2)
    evaluation,  \* where each evaluation is, and the subscriptions it triggers
    pc,          \* where each dispatch is
    selected,    \* the events a dispatch has selected
    settings,    \* the channel settings it has read
    first        \* its first event and channel, with the count it has read

tableVars == <<active, channel, status, older, attempts, last, sends>>
localVars == <<selected, settings, first>>
vars == <<active, channel, status, older, attempts, last, sends, evaluation,
          pc, selected, settings, first>>

Outcomes == {"sent", "retry", "exhausted"}
Progress == [at : {"idle", "insert", "done"}, triggered : SUBSET Subscriptions]

\* What a dispatch remembers of its first count.
First == [delivery : Deliveries, count : 0..AttemptCap]

ASSUME NoneIsNoValue ==
    None \notin {"queued", "sent", "failed"} \cup Outcomes \cup Settings \cup First

TypeOK ==
    /\ active \subseteq Subscriptions
    /\ channel \in [Channels -> Settings \cup {None}]
    /\ status \in [Events -> {"queued", "sent", "failed", None}]
    /\ older \subseteq Evaluations \X Evaluations
    /\ attempts \in [Deliveries -> 0..AttemptCap]
    /\ last \in [Deliveries -> Outcomes \cup {None}]
    /\ sends \in [Deliveries -> 0..2]
    /\ evaluation \in [Evaluations -> Progress]
    /\ pc \in [Dispatchers -> {"idle", "selected", "configured", "counted"}]
    /\ selected \in [Dispatchers -> SUBSET Events]
    /\ settings \in [Dispatchers -> [Channels -> Settings \cup {None}]]
    /\ first \in [Dispatchers -> First \cup {None}]

NoSettings == [c \in Channels |-> None]

Init ==
    /\ active = {}
    /\ channel = NoSettings
    /\ status = [e \in Events |-> None]
    /\ older = {}
    /\ attempts = [x \in Deliveries |-> 0]
    /\ last = [x \in Deliveries |-> None]
    /\ sends = [x \in Deliveries |-> 0]
    /\ evaluation = [v \in Evaluations |-> [at |-> "idle", triggered |-> {}]]
    /\ pc = [d \in Dispatchers |-> "idle"]
    /\ selected = [d \in Dispatchers |-> {}]
    /\ settings = [d \in Dispatchers |-> NoSettings]
    /\ first = [d \in Dispatchers |-> None]

-----------------------------------------------------------------------------
(* Mistakes the operators below could make.  No specification uses these:   *)
(* put in the place of the one they resemble, each is rejected by one of    *)
(* the properties.                                                          *)

\* The dispatch filters no status out, or only for explicit event_ids.
OpenOrSent(e) == status[e] # None

\* LIMIT is off by one.
OneTooFew(asked) ==
    LET open == {e \in asked : status[e] \in {"queued", "failed"}} IN
    {chosen \in SUBSET open :
        /\ Cardinality(chosen) < Limit
        /\ \A e \in chosen, f \in open \ chosen : <<f[1], e[1]>> \notin older}

\* The newest open events go first.
NewestOpen(asked) ==
    LET open == {e \in asked : status[e] \in {"queued", "failed"}} IN
    {chosen \in SUBSET open :
        /\ Cardinality(chosen) <= Limit
        /\ Cardinality(chosen) < Limit => chosen = open
        /\ \A e \in chosen, f \in open \ chosen : <<e[1], f[1]>> \notin older}

\* The event's own status is written where the attempt's belongs.
EventStatusForAttempt(setting, number) ==
    IF setting # None /\ setting.enabled /\ setting.reachable /\ number <= setting.retryLimit + 1
    THEN "sent" ELSE "failed"

\* Channels without settings are skipped instead of recorded as failing.
AttemptedIfConfigured(d) ==
    {x \in Deliveries : x[1] \in selected[d] /\ settings[d][x[2]] # None}

\* An event is sent only when every channel has accepted it.
SentOnEveryChannel(d, e) ==
    \A c \in EventChannels(e) :
        settings[d][c] # None /\ settings[d][c].enabled /\ settings[d][c].reachable
            /\ attempts[<<e, c>>] <= settings[d][c].retryLimit

\* The first attempt counts itself before it is stored.
CountFirstOnceMore(d) ==
    /\ pc[d] = "configured"
    /\ \E e \in selected[d], c \in Channels :
          /\ c \in EventChannels(e)
          /\ first' = [first EXCEPT ![d] =
                 [delivery |-> <<e, c>>, count |-> Bump(attempts[<<e, c>>], AttemptCap)]]
    /\ pc' = [pc EXCEPT ![d] = "counted"]
    /\ UNCHANGED <<tableVars, evaluation, selected, settings>>

-----------------------------------------------------------------------------
(* Subscriptions, channel settings, evaluation.                             *)

Subscribe(s) ==
    /\ s \notin active
    /\ active' = active \cup {s}
    /\ UNCHANGED <<channel, status, older, attempts, last, sends, evaluation, pc, localVars>>

\* The upsert on (workspace_id, channel) overwrites the settings whatever they
\* were; there is no deletion.
UpsertChannel(c, setting) ==
    /\ setting.reachable \/ c \in Webhooks
    /\ channel' = [channel EXCEPT ![c] = setting]
    /\ UNCHANGED <<active, status, older, attempts, last, sends, evaluation, pc, localVars>>

\* The evaluation lists the subscriptions, takes the time that will be its
\* events' created_at, and keeps those whose price is at or below the target.
\* Which ones these are depends on the overrides of the request: any.
Evaluate(v, triggered) ==
    /\ evaluation[v].at = "idle"
    /\ triggered # {}
    /\ evaluation' = [evaluation EXCEPT ![v] = [at |-> "insert", triggered |-> triggered]]
    /\ older' = older \cup {u \in Evaluations : evaluation[u].at # "idle"} \X {v}
    /\ UNCHANGED <<active, channel, status, attempts, last, sends, pc, localVars>>

\* add_alert_events: one transaction for all of them.
QueueEvents(v) ==
    /\ evaluation[v].at = "insert"
    /\ status' = [e \in Events |->
                    IF e[1] = v /\ e[2] \in evaluation[v].triggered
                    THEN "queued" ELSE status[e]]
    /\ evaluation' = [evaluation EXCEPT ![v] = [at |-> "done", triggered |-> {}]]
    /\ UNCHANGED <<active, channel, older, attempts, last, sends, pc, localVars>>

-----------------------------------------------------------------------------
(* Dispatch.                                                                *)

Open(e) == status[e] \in {"queued", "failed"}
OlderThan(f, e) == <<f[1], e[1]>> \in older

\* The LIMIT oldest open events among those asked for; the order of events of
\* one evaluation, which share their created_at, is left to SQLite.
OldestOpen(asked) ==
    LET open == {e \in asked : Open(e)} IN
    {chosen \in SUBSET open :
        /\ Cardinality(chosen) <= Limit
        /\ Cardinality(chosen) < Limit => chosen = open
        /\ \A e \in chosen, f \in open \ chosen : ~ OlderThan(f, e)}

\* Without event_ids a request asks for every event.
Select(d, asked) ==
    /\ pc[d] = "idle"
    /\ \E chosen \in OldestOpen(asked) :
          /\ chosen # {}
          /\ selected' = [selected EXCEPT ![d] = chosen]
    /\ pc' = [pc EXCEPT ![d] = "selected"]
    /\ UNCHANGED <<tableVars, evaluation, settings, first>>

ReadChannels(d) ==
    /\ pc[d] = "selected"
    /\ settings' = [settings EXCEPT ![d] = channel]
    /\ pc' = [pc EXCEPT ![d] = "configured"]
    /\ UNCHANGED <<tableVars, evaluation, selected, first>>

\* An event without channels is selected and left as it is.
Worked(d) == {e \in selected[d] : EventChannels(e) # {}}

\* The first _next_attempt_number runs before the first INSERT, outside the
\* transaction; the later ones run inside it.
CountFirst(d) ==
    /\ pc[d] = "configured"
    /\ \/ Worked(d) = {} /\ UNCHANGED first
       \/ \E e \in Worked(d) :
             /\ \A f \in Worked(d) : ~ OlderThan(f, e)
             /\ \E c \in EventChannels(e) :
                   first' = [first EXCEPT ![d] =
                               [delivery |-> <<e, c>>, count |-> attempts[<<e, c>>]]]
    /\ pc' = [pc EXCEPT ![d] = "counted"]
    /\ UNCHANGED <<tableVars, evaluation, selected, settings>>

\* _dispatch_status: a missing or disabled channel and a bad URL fail with a
\* next_retry_at, an exceeded limit without.
DispatchStatus(setting, number) ==
    IF setting = None \/ ~ setting.enabled THEN "retry"
    ELSE IF number > setting.retryLimit + 1 THEN "exhausted"
    ELSE IF setting.reachable THEN "sent"
    ELSE "retry"

\* The number of the attempt that dispatcher d makes now.
AttemptNumber(d, x) ==
    1 + IF x = first[d].delivery THEN first[d].count ELSE attempts[x]

Outcome(d, x) == DispatchStatus(settings[d][x[2]], AttemptNumber(d, x))

Attempted(d) == {x \in Deliveries : x[1] \in Worked(d)}
EventSent(d, e) == \E x \in Attempted(d) : x[1] = e /\ Outcome(d, x) = "sent"

\* The transaction: an attempt for every channel of every selected event, and
\* the status of each of these events, whatever it is by now.
Deliver(d) ==
    /\ pc[d] = "counted"
    /\ attempts' = [x \in Deliveries |->
                      IF x \in Attempted(d) THEN Bump(attempts[x], AttemptCap) ELSE attempts[x]]
    /\ last' = [x \in Deliveries |->
                  IF x \in Attempted(d) THEN Outcome(d, x) ELSE last[x]]
    /\ sends' = [x \in Deliveries |->
                   IF x \in Attempted(d) /\ Outcome(d, x) = "sent"
                   THEN Bump(sends[x], 2) ELSE sends[x]]
    /\ status' = [e \in Events |->
                    IF e \notin Worked(d) THEN status[e]
                    ELSE IF EventSent(d, e) THEN "sent" ELSE "failed"]
    /\ pc' = [pc EXCEPT ![d] = "idle"]
    /\ selected' = [selected EXCEPT ![d] = {}]
    /\ settings' = [settings EXCEPT ![d] = NoSettings]
    /\ first' = [first EXCEPT ![d] = None]
    /\ UNCHANGED <<active, channel, older, evaluation>>

\* A statement of the dispatch fails, and its transaction is rolled back.
Lose(d) ==
    /\ pc[d] # "idle"
    /\ pc' = [pc EXCEPT ![d] = "idle"]
    /\ selected' = [selected EXCEPT ![d] = {}]
    /\ settings' = [settings EXCEPT ![d] = NoSettings]
    /\ first' = [first EXCEPT ![d] = None]
    /\ UNCHANGED <<tableVars, evaluation>>

\* An evaluation that fails before its INSERTs commit queues nothing.
LoseEvaluation(v) ==
    /\ evaluation[v].at = "insert"
    /\ evaluation' = [evaluation EXCEPT ![v] = [at |-> "done", triggered |-> {}]]
    /\ UNCHANGED <<tableVars, pc, localVars>>

\* The server restarts: the tables stay, the requests in progress are lost.
Restart ==
    /\ evaluation' = [v \in Evaluations |->
                        IF evaluation[v].at = "idle" THEN evaluation[v]
                        ELSE [at |-> "done", triggered |-> {}]]
    /\ pc' = [d \in Dispatchers |-> "idle"]
    /\ selected' = [d \in Dispatchers |-> {}]
    /\ settings' = [d \in Dispatchers |-> NoSettings]
    /\ first' = [d \in Dispatchers |-> None]
    /\ UNCHANGED tableVars

-----------------------------------------------------------------------------

Dispatch(d) ==
    \/ \E asked \in SUBSET Events : Select(d, asked)
    \/ ReadChannels(d)
    \/ CountFirst(d)
    \/ Deliver(d)

Next ==
    \/ \E s \in Subscriptions : Subscribe(s)
    \/ \E c \in Channels, setting \in Settings : UpsertChannel(c, setting)
    \/ \E v \in Evaluations :
          \/ \E triggered \in SUBSET active : Evaluate(v, triggered)
          \/ QueueEvents(v)
          \/ LoseEvaluation(v)
    \/ \E d \in Dispatchers : Dispatch(d) \/ Lose(d)
    \/ Restart

Spec == Init /\ [][Next]_vars

\* The operator's job calls POST /alerts/dispatch without event_ids again and
\* again, and no event has every one of its dispatches lost.  Nothing in the
\* code dispatches on its own: this is what the deployment must provide.
Fairness ==
    \A d \in Dispatchers :
        /\ SF_vars(Select(d, Events))
        /\ \A e \in Events :
              []<>(e \in selected[d]) => []<><<e \in selected[d] /\ Deliver(d)>>_vars

FairSpec == Spec /\ Fairness

-----------------------------------------------------------------------------
(* Properties that hold for any number of dispatchers.                      *)

\* An event is sent only on the strength of an accepted delivery, and an event
\* that has been attempted on one of its channels has been on all of them, the
\* same number of times: the attempts of a dispatch commit with its statuses.
AttemptsCommitTogether ==
    \A e \in Events :
        /\ status[e] = "sent" => \E c \in EventChannels(e) : sends[<<e, c>>] > 0
        /\ status[e] \in {"queued", None} => \A c \in EventChannels(e) : attempts[<<e, c>>] = 0
        /\ \A b, c \in EventChannels(e) : attempts[<<e, b>>] = attempts[<<e, c>>]

\* The number a dispatch has read is never ahead of the table: a stale number
\* errs towards another attempt, never towards giving up early.
StaleCountIsBehind ==
    \A d \in Dispatchers :
        first[d] # None => first[d].count <= attempts[first[d].delivery]

-----------------------------------------------------------------------------
(* Properties of a queue worked by one dispatcher at a time.                *)

\* An accepted delivery is not repeated.
DeliveredOnce == \A x \in Deliveries : sends[x] <= 1

\* A failed event has reached nobody; so a retry duplicates nothing.
FailedReachedNobody ==
    \A e \in Events : status[e] = "failed" =>
        \A c \in EventChannels(e) : sends[<<e, c>>] = 0

\* sent is final: neither a late failure nor a restart reopens the event.
SentIsFinal == [][\A e \in Events : status[e] = "sent" => status'[e] = "sent"]_vars

\* Every queued event that has a channel is attempted, which holds while a dispatch
\* can take the whole queue.
QueuedIsAttempted ==
    \A e \in Events :
        EventChannels(e) # {} => (status[e] = "queued" ~> status[e] # "queued")

\* The events that may be selected before e and are open for good, as far as it
\* goes by them: those that have failed and those without a channel.
Blocking(e) ==
    {f \in Events \ {e} : /\ Open(f) /\ ~ OlderThan(e, f)
                          /\ status[f] = "failed" \/ EventChannels(f) = {}}

\* With a limit, an event that has a channel is left queued for ever only behind as
\* many failed or channelless events as a dispatch takes: whatever is sent, fails or
\* is evaluated meanwhile, nothing else keeps a queued event from its attempt.
QueuedUnlessBlocked ==
    \A e \in Events :
        EventChannels(e) # {} /\ <>[](status[e] = "queued")
            => <>[](Cardinality(Blocking(e)) >= Limit)

\* A queue worked by one dispatcher at a time delivers as AlertDelivery says.
Delivery == INSTANCE AlertDelivery WITH
    Events <- Events, Deliveries <- Deliveries, None <- None, status <- status, sends <- sends
DeliversAsPromised == Delivery!Spec

-----------------------------------------------------------------------------
(* What the documents say.                                                  *)

\* The product plan: /alerts/dispatch processes queued and failed events.  A
\* step that adds attempts to an event finds it queued or failed.
OnlyOpenEventsDispatched ==
    [][\A d \in Dispatchers :
         Deliver(d) => \A e \in selected[d] : Open(e)]_vars

\* The product plan: the dispatch records that a retry is scheduled.  A delivery
\* whose newest attempt has a next_retry_at belongs to an event that a dispatch
\* can still select.
ScheduledRetryIsReachable ==
    \A x \in Deliveries : last[x] = "retry" => Open(x[1])
=============================================================================
