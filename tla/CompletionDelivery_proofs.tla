--------------------- MODULE CompletionDelivery_proofs ---------------------
(****************************************************************************)
(* For any requests, reports, channels and addresses: types, that a         *)
(* delivery shows the provider's last word, that what the pixel counts was  *)
(* accepted, that nothing is given up early, that identifiers stay, and     *)
(* that who is unsubscribed is skipped.                                     *)
(*                                                                          *)
(* The invariants come in layers, each proved with those before it.         *)
(****************************************************************************)
EXTENDS CompletionDelivery, FiniteSetTheorems, TLAPS

-----------------------------------------------------------------------------
(* Types.                                                                   *)

\* What a batch has read by the stage that it is in, and that the deliveries of a batch are
\* written when it is done.
BatchReads ==
    \A b \in Batches :
        /\ pc[b] = "template" => job[b].template \in Ids
        /\ pc[b] \in {"template", "group"} => job[b].plan = {}
        /\ pc[b] \in {"group", "count"} => job[b].template \in Saved("template") \cup {None}
        /\ pc[b] = "count" => job[b].channel \in Channels /\ \A x \in job[b].plan : x[1][1] = b
WrittenWhenDone == \A d \in Deliveries : deliveries[d] # None => pc[d[1]] = "done"

\* job is a function on the requests: EXCEPT changes the entry of one request and no other.
JobIsFunction == job = [q \in Requests |-> job[q]]

Typed == TypeOK /\ BatchReads /\ WrittenWhenDone /\ JobIsFunction

LEMMA KindsAre == "template" \in Kinds /\ "group" \in Kinds /\ Kinds = {"template", "group"}
BY DEF Kinds

\* The four sorts of requests, and that none of them is another.
LEMMA Sorts ==
    /\ Upserts \subseteq Requests /\ Batches \subseteq Requests
    /\ Webhooks \subseteq Requests /\ Visits \subseteq Requests
    /\ \A u \in Upserts : u \notin Batches /\ u \notin Webhooks /\ u \notin Visits
    /\ \A b \in Batches : b \notin Webhooks /\ b \notin Visits
    /\ \A w \in Webhooks : w \notin Visits
BY RequestsAreDistinct DEF Requests

\* A template or group that a batch finds is a stored row with this id.
LEMMA EnabledIsRow ==
    ASSUME TypeOK, NEW kind \in Kinds, NEW id, Enabled(kind, id) # None
    PROVE  /\ Enabled(kind, id) \in Saved(kind)
           /\ Enabled(kind, id).id = id
           /\ Enabled(kind, id).form.enabled
           /\ \E n \in Names : Enabled(kind, id) = saved[kind][n]
<1> DEFINE found == {n \in Names : /\ saved[kind][n] # None
                                   /\ saved[kind][n].id = id
                                   /\ saved[kind][n].form.enabled}
<1>1. found # {} /\ Enabled(kind, id) = saved[kind][CHOOSE n \in found : TRUE]
  BY DEF Enabled
<1>2. PICK n \in found : n = CHOOSE m \in found : TRUE
  BY <1>1
<1>3. Enabled(kind, id) = saved[kind][n] /\ saved[kind][n] # None
  BY <1>1, <1>2
<1> QED
  BY <1>2, <1>3 DEF TypeOK

LEMMA OutcomeIsOutcome ==
    ASSUME NEW order, NEW ch, NEW t, NEW u, NEW n PROVE Outcome(order, ch, t, u, n) \in Outcomes
BY DEF Outcome, Outcomes

LEMMA BatchStatusIsStatus ==
    ASSUME NEW plan PROVE BatchStatus(plan) \in {"failed", "partial", "sent", "skipped"}
BY DEF BatchStatus

LEMMA BatchTargetsAreTargets ==
    ASSUME NEW order \in Orders, NEW row \in Saved("group") \cup {None}
    PROVE  BatchTargets(order, row) \in SUBSET (Targets \X BOOLEAN)
<1>1. order.target \in Targets
  BY FormsAreForms
<1>2. CASE row = None
  <2>1. BatchTargets(order, row) = {<<order.target, FALSE>>}
    BY <1>2 DEF BatchTargets
  <2>2. <<order.target, FALSE>> \in Targets \X BOOLEAN
    BY <1>1, Zenon
  <2> QED BY <2>1, <2>2, Zenon
<1>3. CASE row # None
  <2>1. row.form.to \in SUBSET Targets
    BY <1>3, FormsAreForms DEF Saved, Forms
  <2>2. BatchTargets(order, row) = {<<t, t \in row.form.out>> : t \in row.form.to}
    BY <1>3 DEF BatchTargets
  <2>3. \A t \in row.form.to : (t \in row.form.out) \in BOOLEAN
    OBVIOUS
  <2>4. \A t \in row.form.to : <<t, t \in row.form.out>> \in Targets \X BOOLEAN
    BY <2>1, <2>3, Zenon
  <2> QED BY <2>2, <2>4, Zenon
<1> QED BY <1>2, <1>3

LEMMA BatchChannelIsChannel ==
    ASSUME NEW order \in Orders, NEW template \in Saved("template") \cup {None},
           NEW row \in Saved("group") \cup {None}
    PROVE  BatchChannel(order, template, row) \in Channels
BY FormsAreForms DEF BatchChannel, Saved, Forms

\* A new delivery, and one that the provider has spoken of once more.
LEMMA NewDelivery ==
    ASSUME NEW ch \in Channels, NEW o \in Outcomes
    PROVE  [channel |-> ch, outcome |-> o, status |-> StatusOf(o), told |-> <<>>] \in Delivery
<1>1. StatusOf(o) \in {"sent", "failed", "skipped", "retry_scheduled"}
  BY DEF StatusOf, Outcomes
<1> QED BY <1>1 DEF Delivery

LEMMA ProviderStatusIsStatus ==
    ASSUME NEW type \in EventTypes
    PROVE  ProviderStatus(type) \in {"sent", "failed", "skipped", "retry_scheduled"}
BY DEF ProviderStatus, EventTypes

\* Empty tables and idle requests are of their types.
THEOREM InitTyped == Init => Typed
<1> SUFFICES ASSUME Init PROVE Typed
  OBVIOUS
<1>1. \A kind \in Kinds : saved[kind] = [n \in Names |-> None]
  BY DEF Init
<1>2. saved \in [Kinds -> [Names -> Saved("template") \cup Saved("group") \cup {None}]]
  BY DEF Init
<1>3. \A d \in Deliveries : events[d] = <<>> /\ <<>> \in Seq(Event) /\ deliveries[d] = None
  BY DEF Init
<1>4. events \in [Deliveries -> Seq(Event)] /\ deliveries \in [Deliveries -> Delivery \cup {None}]
  BY <1>3 DEF Init
<1>5. \A q \in Requests : pc[q] = "idle"
  BY DEF Init
<1>6. TypeOK
  BY <1>1, <1>2, <1>3, <1>4, <1>5, Sorts DEF Init, TypeOK
<1>7. BatchReads /\ WrittenWhenDone /\ JobIsFunction
  BY <1>3, <1>5, Sorts DEF BatchReads, WrittenWhenDone, JobIsFunction, Init, Deliveries
<1> QED
  BY <1>6, <1>7 DEF Typed

\* The parts of TypeOK that speak of one sort of request in its stages.
JobsOK ==
    /\ \A u \in Upserts : pc[u] = "upsert" => job[u] \in UpsertJob
    /\ \A b \in Batches : pc[b] \in {"template", "group", "count"} => job[b] \in BatchJob
    /\ \A w \in Webhooks : pc[w] = "record" =>
         job[w] \in WebhookJob /\ deliveries[job[w].delivery] # None
    /\ \A v \in Visits : pc[v] = "engage" => job[v] \in VisitJob

TablesOK ==
    /\ saved \in [Kinds -> [Names -> Saved("template") \cup Saved("group") \cup {None}]]
    /\ \A kind \in Kinds, n \in Names : saved[kind][n] \in Saved(kind) \cup {None}
    /\ batchStatus \in [Batches -> {"failed", "partial", "sent", "skipped", None}]
    /\ deliveries \in [Deliveries -> Delivery \cup {None}]
    /\ events \in [Deliveries -> Seq(Event)]
    /\ engagement \subseteq Visits \X Deliveries
    /\ excluded \in [Batches -> SUBSET Targets]
    /\ \A d \in Deliveries : deliveries[d] = None => events[d] = <<>>

PcOK ==
    pc \in [Requests -> {"idle", "done", "failed", "upsert", "template", "group", "count",
                         "record", "engage"}]

LEMMA TypeOKIs ==
    /\ TypeOK <=> TablesOK /\ PcOK /\ JobsOK
    /\ TypeOK' <=> TablesOK' /\ PcOK' /\ JobsOK'
BY DEF TypeOK, TablesOK, PcOK, JobsOK

LEMMA UpsertLookupTyped ==
    ASSUME Typed, NEW u \in Upserts, NEW kind \in Kinds, NEW n \in Names,
           NEW padded \in BOOLEAN, NEW form \in Forms(kind), UpsertLookup(u, kind, n, padded, form)
    PROVE  Typed'
<1>1. u \in Requests /\ u \notin Batches /\ u \notin Webhooks /\ u \notin Visits
  BY Sorts
<1>1a. job = [q \in Requests |-> job[q]] /\ pc = [q \in Requests |-> pc[q]]
  BY DEF Typed, TypeOK, JobIsFunction
<1>2. /\ job'[u] = [kind |-> kind, name |-> n, form |-> form,
                    id |-> IF padded \/ saved[kind][n] = None THEN u ELSE saved[kind][n].id]
      /\ \A q \in Requests \ {u} : job'[q] = job[q] /\ pc'[q] = pc[q]
      /\ JobIsFunction'
  BY <1>1, <1>1a DEF UpsertLookup, Step, JobIsFunction
<1>3. job'[u] \in UpsertJob
  <2>1. (IF padded \/ saved[kind][n] = None THEN u ELSE saved[kind][n].id) \in Upserts
    BY DEF Typed, TypeOK, Saved
  <2>2. job'[u] \in [kind : {kind}, name : Names, form : Forms(kind), id : Upserts]
    BY <1>2, <2>1
  <2> QED BY <2>2 DEF UpsertJob
<1>4. TablesOK' /\ PcOK'
  BY TypeOKIs, <1>1 DEF Typed, TablesOK, PcOK, UpsertLookup, Step, tables
<1>5. JobsOK'
  BY <1>1, <1>2, <1>3, Sorts DEF Typed, TypeOK, JobsOK, UpsertLookup, tables
<1>6. BatchReads' /\ WrittenWhenDone'
  BY <1>1, <1>2, Sorts DEF Typed, BatchReads, WrittenWhenDone, UpsertLookup, Step, tables, Deliveries
<1> QED
  BY <1>2, <1>4, <1>5, <1>6, TypeOKIs DEF Typed

LEMMA UpsertCommitTyped ==
    ASSUME Typed, NEW u \in Upserts, UpsertCommit(u) PROVE Typed'
<1> DEFINE kind == job[u].kind
           n == job[u].name
           id == IF saved[kind][n] = None THEN job[u].id ELSE saved[kind][n].id
<1>1. job[u] \in UpsertJob /\ u \in Requests /\ u \notin Batches /\ u \notin Webhooks /\ u \notin Visits
  BY Sorts DEF UpsertCommit, Step, Typed, TypeOK
<1>2. kind \in Kinds /\ n \in Names /\ job[u].form \in Forms(kind) /\ job[u].id \in Upserts
  BY <1>1 DEF UpsertJob
<1>3. id \in Upserts
  BY <1>2 DEF Typed, TypeOK, Saved
<1>4. [id |-> id, form |-> job[u].form] \in Saved(kind)
  BY <1>2, <1>3 DEF Saved
<1>5. saved' = [saved EXCEPT ![kind][n] = [id |-> id, form |-> job[u].form]]
  BY DEF UpsertCommit
<1>6. saved \in [Kinds -> [Names -> Saved("template") \cup Saved("group") \cup {None}]]
      /\ \A k \in Kinds, m \in Names : saved[k][m] \in Saved(k) \cup {None}
  BY DEF Typed, TypeOK
<1>6a. [id |-> id, form |-> job[u].form] \in Saved("template") \cup Saved("group") \cup {None}
  BY <1>2, <1>4, KindsAre
<1>7. saved' \in [Kinds -> [Names -> Saved("template") \cup Saved("group") \cup {None}]]
      /\ \A k \in Kinds, m \in Names : saved'[k][m] \in Saved(k) \cup {None}
  BY <1>2, <1>4, <1>5, <1>6, <1>6a
<1>8. excluded' \in [Batches -> SUBSET Targets]
  <2>1. \A b \in Batches : excluded[b] \in SUBSET Targets
    BY DEF Typed, TypeOK
  <2> QED BY <2>1 DEF UpsertCommit
<1>9. TablesOK' /\ PcOK'
  BY <1>7, <1>8, <1>1, TypeOKIs DEF Typed, TablesOK, PcOK, UpsertCommit, Step
<1>10. \A q \in Requests \ {u} : pc'[q] = pc[q]
  BY <1>1 DEF UpsertCommit, Step, Typed, TypeOK
<1>11. pc'[u] = "done" /\ job' = job /\ deliveries' = deliveries
  BY <1>1 DEF UpsertCommit, Step, Typed, TypeOK
<1>12. JobsOK' /\ BatchReads' /\ WrittenWhenDone' /\ JobIsFunction'
  BY <1>1, <1>10, <1>11, Sorts
     DEF Typed, TypeOK, JobsOK, BatchReads, WrittenWhenDone, JobIsFunction, Deliveries
<1> QED
  BY <1>9, <1>12, TypeOKIs DEF Typed

LEMMA FailTyped ==
    ASSUME Typed, NEW q \in Requests, Fail(q) PROVE Typed'
<1>1. job = [r \in Requests |-> job[r]] /\ pc = [r \in Requests |-> pc[r]]
  BY DEF Typed, TypeOK, JobIsFunction
<1>2. /\ \A r \in Requests \ {q} : job'[r] = job[r] /\ pc'[r] = pc[r]
      /\ pc'[q] = "failed" /\ pc[q] # "done"
      /\ JobIsFunction'
  BY <1>1 DEF Fail, JobIsFunction
<1>3. TablesOK' /\ PcOK'
  BY TypeOKIs DEF Typed, TablesOK, PcOK, Fail, tables
<1>4. JobsOK' /\ BatchReads' /\ WrittenWhenDone'
  BY <1>2, Sorts DEF Typed, TypeOK, JobsOK, BatchReads, WrittenWhenDone, Deliveries, Fail, tables
<1> QED
  BY <1>2, <1>3, <1>4, TypeOKIs DEF Typed

\* A step of a batch that only reads: what is left to show is the batch's own entry.
LEMMA BatchReadTyped ==
    ASSUME Typed, NEW b \in Batches, NEW to \in {"done", "template", "group", "count"},
           pc[b] # "done", pc' = [pc EXCEPT ![b] = to],
           UNCHANGED tables, excluded' \in [Batches -> SUBSET Targets],
           NEW j \in BatchJob, job' = [job EXCEPT ![b] = j],
           to = "template" => j.template \in Ids,
           to \in {"template", "group"} => j.plan = {},
           to \in {"group", "count"} => j.template \in Saved("template") \cup {None},
           to = "count" => j.channel \in Channels /\ \A x \in j.plan : x[1][1] = b
    PROVE  Typed'
<1>1. job = [r \in Requests |-> job[r]] /\ pc = [r \in Requests |-> pc[r]] /\ b \in Requests
  BY Sorts DEF Typed, TypeOK, JobIsFunction
<1>2. /\ \A r \in Requests \ {b} : job'[r] = job[r] /\ pc'[r] = pc[r]
      /\ pc'[b] = to /\ job'[b] = j
      /\ JobIsFunction'
  BY <1>1 DEF JobIsFunction
<1>3. TablesOK' /\ PcOK'
  BY TypeOKIs DEF Typed, TablesOK, PcOK, tables
<1>4. JobsOK'
  BY <1>2, Sorts DEF Typed, TypeOK, JobsOK, tables
<1>5. BatchReads'
  BY <1>2, Sorts DEF Typed, BatchReads, tables
<1>6. WrittenWhenDone'
  BY <1>2, Sorts DEF Typed, WrittenWhenDone, Deliveries, tables
<1> QED
  BY <1>2, <1>3, <1>4, <1>5, <1>6, TypeOKIs DEF Typed

LEMMA SelectReportsTyped ==
    ASSUME Typed, NEW b \in Batches, NEW rs \in SUBSET Reports, NEW order \in Orders,
           NEW template \in Ids, NEW group \in Ids, SelectReports(b, rs, order, template, group)
    PROVE  Typed'
<1> DEFINE j == [reports |-> rs, order |-> order, template |-> template,
                 group |-> group, channel |-> None, todo |-> {}, plan |-> {}]
           to == IF rs = {} THEN "done" ELSE "template"
<1>1. j \in BatchJob
  BY DEF BatchJob
<1>2. pc[b] = "idle" /\ pc' = [pc EXCEPT ![b] = to] /\ job' = [job EXCEPT ![b] = j] /\ UNCHANGED tables
  BY DEF SelectReports, Step
<1>3. excluded' \in [Batches -> SUBSET Targets]
  <2>1. Enabled("group", group) # None => Enabled("group", group).form.out \in SUBSET Targets
    BY EnabledIsRow, KindsAre, FormsAreForms DEF Typed, Saved, Forms
  <2> QED BY <2>1 DEF SelectReports, Typed, TypeOK
<1> QED
  BY <1>1, <1>2, <1>3, BatchReadTyped

LEMMA ReadTemplateTyped ==
    ASSUME Typed, NEW b \in Batches, ReadTemplate(b) PROVE Typed'
<1> DEFINE j == [job[b] EXCEPT !.template = Enabled("template", job[b].template)]
<1>1. job[b] \in BatchJob /\ b \in Requests
  BY Sorts DEF ReadTemplate, Step, Typed, TypeOK
<1>2. j.template \in Saved("template") \cup {None} /\ j \in BatchJob /\ j.plan = {}
  BY <1>1, EnabledIsRow, KindsAre DEF BatchJob, Typed, ReadTemplate, Step, BatchReads
<1>3. pc[b] = "template" /\ pc' = [pc EXCEPT ![b] = "group"] /\ UNCHANGED tables
  BY DEF ReadTemplate, Step
<1>4. job' = [job EXCEPT ![b] = j]
  BY <1>1 DEF ReadTemplate, Typed, JobIsFunction
<1>5. excluded' \in [Batches -> SUBSET Targets]
  BY DEF ReadTemplate, Typed, TypeOK
<1> QED
  BY <1>2, <1>3, <1>4, <1>5, BatchReadTyped

LEMMA ReadGroupTyped ==
    ASSUME Typed, NEW b \in Batches, ReadGroup(b) PROVE Typed'
<1> DEFINE row == Enabled("group", job[b].group)
           j == [job[b] EXCEPT !.channel = BatchChannel(job[b].order, job[b].template, row),
                               !.todo = job[b].reports \X BatchTargets(job[b].order, row)]
<1>1. job[b] \in BatchJob /\ b \in Requests /\ job[b].template \in Saved("template") \cup {None}
  BY Sorts DEF ReadGroup, Step, Typed, TypeOK, BatchReads
<1>2. row \in Saved("group") \cup {None}
  BY EnabledIsRow, KindsAre DEF Typed
<1>3. BatchChannel(job[b].order, job[b].template, row) \in Channels
  BY <1>1, <1>2, BatchChannelIsChannel DEF BatchJob
<1>4. BatchTargets(job[b].order, row) \in SUBSET (Targets \X BOOLEAN)
  BY <1>1, <1>2, BatchTargetsAreTargets DEF BatchJob
<1>5. job[b].reports \X BatchTargets(job[b].order, row) \in SUBSET (Reports \X (Targets \X BOOLEAN))
  BY <1>1, <1>4 DEF BatchJob
<1>6. j \in BatchJob /\ j.template \in Saved("template") \cup {None} /\ j.channel \in Channels
  BY <1>1, <1>3, <1>5 DEF BatchJob
<1>7. pc[b] = "group" /\ pc' = [pc EXCEPT ![b] = "count"] /\ UNCHANGED tables
  BY DEF ReadGroup, Step
<1>8. job' = [job EXCEPT ![b] = j]
  BY <1>1 DEF ReadGroup, Typed, JobIsFunction
<1>9. excluded' \in [Batches -> SUBSET Targets]
  BY DEF ReadGroup, Typed, TypeOK
<1>10. j.plan = {}
  BY <1>1 DEF BatchJob, ReadGroup, Step, Typed, BatchReads
<1> QED
  BY <1>6, <1>7, <1>8, <1>9, <1>10, BatchReadTyped

LEMMA CountRetriesTyped ==
    ASSUME Typed, NEW b \in Batches, CountRetries(b) PROVE Typed'
<1>1. job[b] \in BatchJob /\ b \in Requests /\ job[b].template \in Saved("template") \cup {None}
      /\ job[b].channel \in Channels /\ \A x \in job[b].plan : x[1][1] = b
  BY Sorts DEF CountRetries, Step, Typed, TypeOK, BatchReads
<1>2. PICK x \in job[b].todo :
        job' = [job EXCEPT ![b].todo = @ \ {x},
                           ![b].plan = @ \cup {<<<<b, x[1], x[2][1]>>,
                               Outcome(job[b].order, job[b].channel, x[2][1], x[2][2],
                                       Cardinality(Failed(x[1], job[b].channel)))>>}]
  BY DEF CountRetries
<1> DEFINE o == Outcome(job[b].order, job[b].channel, x[2][1], x[2][2],
                        Cardinality(Failed(x[1], job[b].channel)))
           d == <<b, x[1], x[2][1]>>
           j == [job[b] EXCEPT !.todo = job[b].todo \ {x}, !.plan = job[b].plan \cup {<<d, o>>}]
<1>3. x[1] \in Reports /\ x[2][1] \in Targets
  BY <1>1 DEF BatchJob
<1>4. o \in Outcomes /\ d \in Deliveries /\ <<d, o>> \in Plans /\ d[1] = b
  BY <1>3, OutcomeIsOutcome DEF Deliveries, Plans
<1>5. job' = [job EXCEPT ![b] = j]
  BY <1>1, <1>2 DEF Typed, JobIsFunction
<1>6. job[b].todo \ {x} \in SUBSET (Reports \X (Targets \X BOOLEAN))
      /\ job[b].plan \cup {<<d, o>>} \in SUBSET Plans
  BY <1>1, <1>4 DEF BatchJob
<1>7. j \in BatchJob /\ j.template = job[b].template /\ j.channel = job[b].channel
      /\ j.plan = job[b].plan \cup {<<d, o>>}
  BY <1>1, <1>6 DEF BatchJob
<1>8. \A y \in j.plan : y[1][1] = b
  BY <1>1, <1>4, <1>7
<1>9. pc[b] = "count" /\ pc' = [pc EXCEPT ![b] = "count"] /\ UNCHANGED tables
  BY <1>2 DEF CountRetries, Step
<1>10. excluded' \in [Batches -> SUBSET Targets]
  BY DEF CountRetries, Typed, TypeOK
<1> QED
  BY <1>1, <1>5, <1>7, <1>8, <1>9, <1>10, BatchReadTyped

\* What a batch writes: its own deliveries as its plan decided, and no other.
LEMMA Written ==
    ASSUME Typed, NEW b \in Batches, CommitBatch(b), NEW d \in Deliveries
    PROVE  \/ /\ \A o \in Outcomes : <<d, o>> \notin job[b].plan
              /\ deliveries'[d] = deliveries[d]
           \/ \E o \in Outcomes :
                 /\ <<d, o>> \in job[b].plan
                 /\ d[1] = b /\ deliveries[d] = None /\ events[d] = <<>>
                 /\ deliveries'[d] = [channel |-> job[b].channel, outcome |-> o,
                                      status |-> StatusOf(o), told |-> <<>>]
                 /\ deliveries'[d] \in Delivery /\ deliveries'[d] # None
<1>1. CASE \A o \in Outcomes : <<d, o>> \notin job[b].plan
  BY <1>1 DEF CommitBatch
<1>2. CASE \E o \in Outcomes : <<d, o>> \in job[b].plan
  <2> DEFINE o == CHOOSE o \in Outcomes : <<d, o>> \in job[b].plan
  <2>1. o \in Outcomes /\ <<d, o>> \in job[b].plan
    BY <1>2
  <2>2. pc[b] = "count" /\ job[b].channel \in Channels /\ <<d, o>>[1][1] = b
    BY <2>1 DEF CommitBatch, Step, Typed, BatchReads
  <2>3. d[1] = b /\ deliveries[d] = None /\ events[d] = <<>>
    BY <2>2 DEF Typed, WrittenWhenDone, TypeOK
  <2>4. deliveries'[d] = [channel |-> job[b].channel, outcome |-> o, status |-> StatusOf(o), told |-> <<>>]
    BY <1>2 DEF CommitBatch
  <2>5. deliveries'[d] \in Delivery /\ deliveries'[d] # None
    BY <2>1, <2>2, <2>4, NewDelivery, NoneIsNoRow
  <2> QED BY <2>1, <2>3, <2>4, <2>5
<1> QED BY <1>1, <1>2

LEMMA CommitBatchTyped ==
    ASSUME Typed, NEW b \in Batches, CommitBatch(b) PROVE Typed'
<1>1. \A r \in Requests \ {b} : pc'[r] = pc[r]
  BY DEF CommitBatch, Step, Typed, TypeOK
<1>2. b \in Requests /\ pc'[b] = "done" /\ job' = job /\ events' = events
  BY Sorts DEF CommitBatch, Step, Typed, TypeOK
<1>3. \A d \in Deliveries : deliveries'[d] \in Delivery \cup {None}
  <2> SUFFICES ASSUME NEW d \in Deliveries PROVE deliveries'[d] \in Delivery \cup {None}
    OBVIOUS
  <2>1. deliveries[d] \in Delivery \cup {None}
    BY DEF Typed, TypeOK
  <2>2. deliveries'[d] = deliveries[d] \/ deliveries'[d] \in Delivery
    BY Written
  <2> QED BY <2>1, <2>2
<1>4. deliveries' \in [Deliveries -> Delivery \cup {None}]
  BY <1>3 DEF CommitBatch
<1>5. \A d \in Deliveries : deliveries'[d] = None => events'[d] = <<>>
  BY <1>2, Written DEF Typed, TypeOK
<1>6. batchStatus' \in [Batches -> {"failed", "partial", "sent", "skipped", None}]
  BY BatchStatusIsStatus DEF CommitBatch, Typed, TypeOK
<1>7. TablesOK' /\ PcOK'
  BY <1>2, <1>4, <1>5, <1>6, TypeOKIs DEF Typed, TablesOK, PcOK, CommitBatch, Step
<1>8. \A d \in Deliveries : deliveries[d] # None => deliveries'[d] # None
  BY Written
<1>9. \A w \in Webhooks : pc[w] = "record" => job[w].delivery \in Deliveries
  BY DEF Typed, TypeOK, WebhookJob
<1>10. JobsOK'
  BY <1>1, <1>2, <1>8, <1>9, Sorts DEF Typed, TypeOK, JobsOK
<1>11. BatchReads' /\ JobIsFunction'
  BY <1>1, <1>2, Sorts DEF Typed, BatchReads, JobIsFunction
<1>12. WrittenWhenDone'
  <2>1. \A d \in Deliveries : d[1] \in Batches
    BY DEF Deliveries
  <2> QED BY <1>1, <1>2, <2>1, Written, Sorts DEF Typed, WrittenWhenDone
<1> QED
  BY <1>7, <1>10, <1>11, <1>12, TypeOKIs DEF Typed

LEMMA WebhookReadTyped ==
    ASSUME Typed, NEW w \in Webhooks, NEW d \in Deliveries, NEW type \in EventTypes, WebhookRead(w, d, type)
    PROVE  Typed'
<1> DEFINE j == [delivery |-> d, type |-> type, told |-> deliveries[d].told]
<1>1. w \in Requests /\ w \notin Batches /\ w \notin Upserts /\ w \notin Visits /\ pc[w] = "idle"
  BY Sorts DEF WebhookRead, Step
<1>2. job = [r \in Requests |-> job[r]] /\ pc = [r \in Requests |-> pc[r]]
  BY DEF Typed, TypeOK, JobIsFunction
<1>3. /\ \A r \in Requests \ {w} : job'[r] = job[r] /\ pc'[r] = pc[r]
      /\ \/ pc'[w] = "done"
         \/ pc'[w] = "record" /\ job'[w] = j /\ deliveries[d] # None
      /\ JobIsFunction'
  BY <1>1, <1>2 DEF WebhookRead, Step, JobIsFunction
<1>4. deliveries[d] # None => j \in WebhookJob
  BY DEF Typed, TypeOK, Delivery, WebhookJob
<1>5. TablesOK' /\ PcOK'
  BY TypeOKIs DEF Typed, TablesOK, PcOK, WebhookRead, Step, tables
<1>6. JobsOK'
  BY <1>1, <1>3, <1>4, Sorts DEF Typed, TypeOK, JobsOK, WebhookRead, tables
<1>7. BatchReads' /\ WrittenWhenDone'
  BY <1>1, <1>3, Sorts DEF Typed, BatchReads, WrittenWhenDone, Deliveries, WebhookRead, tables
<1> QED
  BY <1>3, <1>5, <1>6, <1>7, TypeOKIs DEF Typed

\* What a webhook writes: one event at the end of its delivery's events and of its message.
LEMMA Recorded ==
    ASSUME Typed, NEW w \in Webhooks, WebhookRecord(w)
    PROVE  \E d \in Deliveries, e \in Event :
             /\ deliveries[d] # None
             /\ job[w].told \in Seq(Event)
             /\ e = [by |-> w, type |-> job[w].type]
             /\ events' = [events EXCEPT ![d] = Append(events[d], e)]
             /\ deliveries' = [deliveries EXCEPT ![d] =
                  [deliveries[d] EXCEPT !.status = ProviderStatus(e.type), !.told = Append(job[w].told, e)]]
             /\ deliveries'[d] \in Delivery /\ deliveries'[d] # None
<1> DEFINE d == job[w].delivery
           e == [by |-> w, type |-> job[w].type]
<1>1. job[w] \in WebhookJob /\ deliveries[d] # None
  BY DEF WebhookRecord, Step, Typed, TypeOK
<1>2. d \in Deliveries /\ job[w].type \in EventTypes /\ job[w].told \in Seq(Event) /\ e \in Event
  BY <1>1 DEF WebhookJob, Event
<1>3. deliveries[d] \in Delivery
  BY <1>1, <1>2 DEF Typed, TypeOK
<1>4. /\ events' = [events EXCEPT ![d] = Append(events[d], e)]
      /\ deliveries' = [deliveries EXCEPT ![d] =
           [deliveries[d] EXCEPT !.status = ProviderStatus(e.type), !.told = Append(job[w].told, e)]]
  BY <1>2 DEF WebhookRecord, Typed, TypeOK
<1>5. Append(job[w].told, e) \in Seq(Event) /\ ProviderStatus(e.type) \in {"sent", "failed", "skipped", "retry_scheduled"}
  BY <1>2, ProviderStatusIsStatus
<1>6. [deliveries[d] EXCEPT !.status = ProviderStatus(e.type), !.told = Append(job[w].told, e)] \in Delivery
  BY <1>3, <1>5 DEF Delivery
<1>7. deliveries'[d] \in Delivery /\ deliveries'[d] # None
  BY <1>2, <1>4, <1>6, NoneIsNoRow DEF Typed, TypeOK
<1> QED BY <1>1, <1>2, <1>4, <1>7

LEMMA WebhookRecordTyped ==
    ASSUME Typed, NEW w \in Webhooks, WebhookRecord(w) PROVE Typed'
<1>1. PICK d \in Deliveries, e \in Event :
             /\ deliveries[d] # None
             /\ job[w].told \in Seq(Event)
             /\ e = [by |-> w, type |-> job[w].type]
             /\ events' = [events EXCEPT ![d] = Append(events[d], e)]
             /\ deliveries' = [deliveries EXCEPT ![d] =
                  [deliveries[d] EXCEPT !.status = ProviderStatus(e.type), !.told = Append(job[w].told, e)]]
             /\ deliveries'[d] \in Delivery /\ deliveries'[d] # None
  BY Recorded
<1>2. /\ w \in Requests /\ w \notin Batches /\ w \notin Upserts /\ w \notin Visits
      /\ job' = job /\ pc[w] # "done"
      /\ \A r \in Requests \ {w} : pc'[r] = pc[r]
      /\ pc'[w] = "done"
  BY Sorts DEF WebhookRecord, Step, Typed, TypeOK
<1>3. \A c \in Deliveries : deliveries'[c] = None <=> deliveries[c] = None
  BY <1>1 DEF Typed, TypeOK
<1>4. deliveries' \in [Deliveries -> Delivery \cup {None}]
  BY <1>1 DEF Typed, TypeOK
<1>5. events' \in [Deliveries -> Seq(Event)]
  <2>1. Append(events[d], e) \in Seq(Event)
    BY DEF Typed, TypeOK
  <2> QED BY <1>1, <2>1 DEF Typed, TypeOK
<1>6. \A c \in Deliveries : deliveries'[c] = None => events'[c] = <<>>
  BY <1>1, <1>3 DEF Typed, TypeOK
<1>7. TablesOK' /\ PcOK'
  BY <1>4, <1>5, <1>6, TypeOKIs DEF Typed, TablesOK, PcOK, WebhookRecord, Step
<1>8. \A v \in Webhooks : pc[v] = "record" => job[v].delivery \in Deliveries
  BY DEF Typed, TypeOK, WebhookJob
<1>9. JobsOK'
  BY <1>2, <1>3, <1>8, Sorts DEF Typed, TypeOK, JobsOK
<1>10. BatchReads' /\ JobIsFunction'
  BY <1>2, Sorts DEF Typed, BatchReads, JobIsFunction
<1>11. WrittenWhenDone'
  BY <1>2, <1>3, Sorts DEF Typed, WrittenWhenDone, Deliveries
<1> QED
  BY <1>7, <1>9, <1>10, <1>11, TypeOKIs DEF Typed

LEMMA VisitReadTyped ==
    ASSUME Typed, NEW v \in Visits, NEW d \in Deliveries, NEW tracked \in BOOLEAN, VisitRead(v, d, tracked)
    PROVE  Typed'
<1> DEFINE j == [delivery |-> d, tracked |-> tracked]
<1>1. v \in Requests /\ v \notin Batches /\ v \notin Upserts /\ v \notin Webhooks /\ pc[v] = "idle"
  BY Sorts DEF VisitRead, Step
<1>2. job = [r \in Requests |-> job[r]] /\ pc = [r \in Requests |-> pc[r]]
  BY DEF Typed, TypeOK, JobIsFunction
<1>3. /\ \A r \in Requests \ {v} : job'[r] = job[r] /\ pc'[r] = pc[r]
      /\ \/ pc'[v] = "done"
         \/ pc'[v] = "engage" /\ job'[v] = j
      /\ JobIsFunction'
  BY <1>1, <1>2 DEF VisitRead, Step, JobIsFunction
<1>4. j \in VisitJob
  BY DEF VisitJob
<1>5. TablesOK' /\ PcOK'
  BY TypeOKIs DEF Typed, TablesOK, PcOK, VisitRead, Step, tables
<1>6. JobsOK'
  BY <1>1, <1>3, <1>4, Sorts DEF Typed, TypeOK, JobsOK, VisitRead, tables
<1>7. BatchReads' /\ WrittenWhenDone'
  BY <1>1, <1>3, Sorts DEF Typed, BatchReads, WrittenWhenDone, Deliveries, VisitRead, tables
<1> QED
  BY <1>3, <1>5, <1>6, <1>7, TypeOKIs DEF Typed

LEMMA VisitRecordTyped ==
    ASSUME Typed, NEW v \in Visits, VisitRecord(v) PROVE Typed'
<1>1. /\ v \in Requests /\ v \notin Batches /\ v \notin Upserts /\ v \notin Webhooks
      /\ job' = job /\ job[v] \in VisitJob
      /\ \A r \in Requests \ {v} : pc'[r] = pc[r]
      /\ pc'[v] = "done"
  BY Sorts DEF VisitRecord, Step, Typed, TypeOK
<1>2. engagement' \subseteq Visits \X Deliveries
  BY <1>1 DEF VisitRecord, Typed, TypeOK, VisitJob
<1>3. TablesOK' /\ PcOK'
  BY <1>2, TypeOKIs DEF Typed, TablesOK, PcOK, VisitRecord, Step
<1>4. JobsOK' /\ BatchReads' /\ WrittenWhenDone' /\ JobIsFunction'
  BY <1>1, Sorts DEF Typed, TypeOK, JobsOK, BatchReads, WrittenWhenDone, JobIsFunction, Deliveries, VisitRecord
<1> QED
  BY <1>3, <1>4, TypeOKIs DEF Typed

\* Every step of an upsert, a batch, a webhook or a visit, and every failure, leaves the tables
\* and what the requests have read of their types.
THEOREM NextTyped == Typed /\ [Next]_vars => Typed'
<1> SUFFICES ASSUME Typed, [Next]_vars PROVE Typed'
  OBVIOUS
<1>1. ASSUME NEW u \in Upserts, UpsertStep(u) PROVE Typed'
  BY <1>1, UpsertLookupTyped, UpsertCommitTyped DEF UpsertStep
<1>2. ASSUME NEW b \in Batches, BatchStep(b) PROVE Typed'
  BY <1>2, SelectReportsTyped, ReadTemplateTyped, ReadGroupTyped, CountRetriesTyped, CommitBatchTyped
     DEF BatchStep
<1>3. ASSUME NEW w \in Webhooks, WebhookStep(w) PROVE Typed'
  BY <1>3, WebhookReadTyped, WebhookRecordTyped DEF WebhookStep
<1>4. ASSUME NEW v \in Visits, VisitStep(v) PROVE Typed'
  BY <1>4, VisitReadTyped, VisitRecordTyped DEF VisitStep
<1>5. CASE UNCHANGED vars
  BY <1>5 DEF vars, Typed, TypeOK, BatchReads, WrittenWhenDone, JobIsFunction
<1> QED
  BY <1>1, <1>2, <1>3, <1>4, <1>5, FailTyped DEF Next

\* TypeOK holds of every reachable state, for any requests that overlap in any way.
THEOREM TypesAreKept == Spec => []TypeOK
<1>1. Typed => TypeOK
  BY DEF Typed
<1> QED
  BY InitTyped, NextTyped, <1>1, PTL DEF Spec

-----------------------------------------------------------------------------
(* What a delivery shows.                                                   *)

\* Two steps change deliveries and events.
LEMMA Writers ==
    ASSUME [Next]_vars
    PROVE  \/ UNCHANGED <<deliveries, events>>
           \/ \E b \in Batches : CommitBatch(b)
           \/ \E w \in Webhooks : WebhookRecord(w)
BY DEF Next, vars, tables, UpsertStep, BatchStep, WebhookStep, VisitStep, UpsertLookup, UpsertCommit,
       SelectReports, ReadTemplate, ReadGroup, CountRetries, WebhookRead, VisitRead, VisitRecord, Fail

\* A delivery stays, with its channel and what was decided of it, and its events stay in front.
Grows ==
    \A d \in Deliveries : deliveries[d] # None =>
        /\ deliveries'[d] # None
        /\ deliveries'[d].channel = deliveries[d].channel
        /\ deliveries'[d].outcome = deliveries[d].outcome
        /\ \A i \in DOMAIN events[d] : i \in DOMAIN events'[d] /\ events'[d][i] = events[d][i]

LEMMA StepGrows == Typed /\ [Next]_vars => Grows
<1> SUFFICES ASSUME Typed, [Next]_vars PROVE Grows
  OBVIOUS
<1>1. CASE UNCHANGED <<deliveries, events>>
  BY <1>1 DEF Grows
<1>2. ASSUME NEW b \in Batches, CommitBatch(b) PROVE Grows
  <2>1. events' = events
    BY <1>2 DEF CommitBatch
  <2>2. \A d \in Deliveries : deliveries[d] # None => deliveries'[d] = deliveries[d]
    BY <1>2, Written
  <2> QED BY <2>1, <2>2 DEF Grows
<1>3. ASSUME NEW w \in Webhooks, WebhookRecord(w) PROVE Grows
  <2>1. PICK d \in Deliveries, e \in Event :
             /\ deliveries[d] # None
             /\ job[w].told \in Seq(Event)
             /\ e = [by |-> w, type |-> job[w].type]
             /\ events' = [events EXCEPT ![d] = Append(events[d], e)]
             /\ deliveries' = [deliveries EXCEPT ![d] =
                  [deliveries[d] EXCEPT !.status = ProviderStatus(e.type), !.told = Append(job[w].told, e)]]
             /\ deliveries'[d] \in Delivery /\ deliveries'[d] # None
    BY <1>3, Recorded
  <2>2. /\ deliveries'[d].channel = deliveries[d].channel
        /\ deliveries'[d].outcome = deliveries[d].outcome
    BY <2>1 DEF Typed, TypeOK, Delivery
  <2>3. /\ events[d] \in Seq(Event) /\ events'[d] = Append(events[d], e)
    BY <2>1 DEF Typed, TypeOK
  <2>4. \A i \in DOMAIN events[d] : i \in DOMAIN events'[d] /\ events'[d][i] = events[d][i]
    BY <2>3
  <2>5. \A c \in Deliveries \ {d} : deliveries'[c] = deliveries[c] /\ events'[c] = events[c]
    BY <2>1 DEF Typed, TypeOK
  <2> QED BY <2>1, <2>2, <2>4, <2>5 DEF Grows
<1> QED
  BY <1>1, <1>2, <1>3, Writers

Shows(d) ==
    LET n == Len(events[d])
        told == deliveries[d].told
    IN  IF n = 0 THEN deliveries[d].status = StatusOf(deliveries[d].outcome) /\ told = <<>>
        ELSE /\ deliveries[d].status = ProviderStatus(events[d][n].type)
             /\ told # <<>> /\ told[Len(told)] = events[d][n]

LEMMA LastWordIs == LastWordIsShown <=> \A d \in Deliveries : deliveries[d] # None => Shows(d)
BY DEF LastWordIsShown, Shows

LEMMA LastWordKept == Typed /\ LastWordIsShown /\ [Next]_vars => LastWordIsShown'
<1> SUFFICES ASSUME Typed, LastWordIsShown, [Next]_vars PROVE LastWordIsShown'
  OBVIOUS
<1>1. CASE UNCHANGED <<deliveries, events>>
  BY <1>1 DEF LastWordIsShown
<1>2. ASSUME NEW b \in Batches, CommitBatch(b) PROVE LastWordIsShown'
  <2> SUFFICES ASSUME NEW d \in Deliveries, deliveries'[d] # None PROVE Shows(d)'
    BY DEF LastWordIsShown, Shows
  <2>1. events' = events
    BY <1>2 DEF CommitBatch
  <2>2. CASE deliveries'[d] = deliveries[d]
    BY <2>1, <2>2, LastWordIs DEF Shows
  <2>3. CASE \E o \in Outcomes :
               /\ events[d] = <<>>
               /\ deliveries'[d] = [channel |-> job[b].channel, outcome |-> o, status |-> StatusOf(o), told |-> <<>>]
    BY <2>1, <2>3 DEF Shows
  <2> QED BY <1>2, <2>2, <2>3, Written
<1>3. ASSUME NEW w \in Webhooks, WebhookRecord(w) PROVE LastWordIsShown'
  <2>1. PICK d \in Deliveries, e \in Event :
             /\ deliveries[d] # None
             /\ job[w].told \in Seq(Event)
             /\ e = [by |-> w, type |-> job[w].type]
             /\ events' = [events EXCEPT ![d] = Append(events[d], e)]
             /\ deliveries' = [deliveries EXCEPT ![d] =
                  [deliveries[d] EXCEPT !.status = ProviderStatus(e.type), !.told = Append(job[w].told, e)]]
             /\ deliveries'[d] \in Delivery /\ deliveries'[d] # None
    BY <1>3, Recorded
  <2>2. /\ deliveries'[d].status = ProviderStatus(e.type)
        /\ deliveries'[d].told = Append(job[w].told, e)
    BY <2>1 DEF Typed, TypeOK, Delivery
  <2>3. events[d] \in Seq(Event) /\ events'[d] = Append(events[d], e)
    BY <2>1 DEF Typed, TypeOK
  <2>4. Len(events'[d]) # 0 /\ events'[d][Len(events'[d])] = e
    BY <2>3
  <2>5. deliveries'[d].told # <<>> /\ deliveries'[d].told[Len(deliveries'[d].told)] = e
    BY <2>1, <2>2
  <2>6. Shows(d)'
    BY <2>2, <2>4, <2>5 DEF Shows
  <2>7. \A c \in Deliveries \ {d} : deliveries'[c] = deliveries[c] /\ events'[c] = events[c]
    BY <2>1 DEF Typed, TypeOK
  <2>8. \A c \in Deliveries \ {d} : deliveries'[c] # None => Shows(c)'
    BY <2>7, LastWordIs DEF Shows
  <2> QED BY <2>6, <2>8 DEF LastWordIsShown, Shows
<1> QED
  BY <1>1, <1>2, <1>3, Writers

\* The status and the message of a delivery are the provider's last word, however webhooks overlap.
THEOREM LastWordStays == Spec => []LastWordIsShown
<1>1. Init => LastWordIsShown
  BY DEF Init, LastWordIsShown
<1> QED
  BY <1>1, InitTyped, NextTyped, LastWordKept, PTL DEF Spec

-----------------------------------------------------------------------------
(* What the pixel counts.                                                   *)

VisitsInProgress ==
    /\ \A v \in Visits : pc[v] = "engage" => (job[v].tracked => Accepted(job[v].delivery))
    /\ \A v \in Visits, d \in Deliveries : <<v, d>> \in engagement => pc[v] = "done"

Tracked == Typed /\ LastWordIsShown /\ VisitsInProgress /\ TrackedWasAccepted

LEMMA SentWasAccepted ==
    ASSUME Typed, LastWordIsShown, NEW d \in Deliveries, Trackable(d) PROVE Accepted(d)
<1>1. deliveries[d] # None /\ deliveries[d].status = "sent" /\ Shows(d) /\ deliveries[d] \in Delivery
  BY LastWordIs DEF Trackable, Typed, TypeOK
<1>2. CASE Len(events[d]) = 0
  <2>1. StatusOf(deliveries[d].outcome) = "sent" /\ deliveries[d].outcome \in Outcomes
    BY <1>1, <1>2 DEF Shows, Delivery
  <2> QED BY <1>1, <2>1 DEF StatusOf, Outcomes, Accepted
<1>3. CASE Len(events[d]) # 0
  <2>1. Len(events[d]) \in DOMAIN events[d]
    BY <1>3 DEF Typed, TypeOK
  <2> QED BY <1>1, <1>3, <2>1 DEF Shows, Accepted
<1> QED BY <1>2, <1>3

LEMMA AcceptedStays ==
    ASSUME Grows, NEW d \in Deliveries, Accepted(d) PROVE Accepted(d)'
<1>1. deliveries[d] # None
  BY DEF Accepted
<1>2. /\ deliveries'[d] # None /\ deliveries'[d].outcome = deliveries[d].outcome
      /\ \A i \in DOMAIN events[d] : i \in DOMAIN events'[d] /\ events'[d][i] = events[d][i]
  BY <1>1 DEF Grows
<1> QED BY <1>2 DEF Accepted

LEMMA TrackedKept == Tracked /\ [Next]_vars => Tracked'
<1> SUFFICES ASSUME Tracked, [Next]_vars PROVE VisitsInProgress' /\ TrackedWasAccepted'
  BY NextTyped, LastWordKept DEF Tracked
<1> USE DEF Tracked
<1>1. Grows
  BY StepGrows
<1>2. \A d \in Deliveries : Accepted(d) => Accepted(d)'
  BY <1>1, AcceptedStays
<1>3. ASSUME \A v \in Visits : pc'[v] = pc[v] /\ (pc[v] # "idle" => job'[v] = job[v]), engagement' = engagement
      PROVE  VisitsInProgress' /\ TrackedWasAccepted'
  <2>1. \A v \in Visits : pc[v] = "engage" => job[v].delivery \in Deliveries
    BY DEF Typed, TypeOK, VisitJob
  <2> QED BY <1>2, <1>3, <2>1 DEF VisitsInProgress, TrackedWasAccepted
<1>4. ASSUME NEW v \in Visits, NEW d \in Deliveries, NEW tracked \in BOOLEAN, VisitRead(v, d, tracked)
      PROVE  VisitsInProgress' /\ TrackedWasAccepted'
  <2>1. /\ pc[v] = "idle" /\ engagement' = engagement /\ UNCHANGED <<deliveries, events>>
        /\ \A x \in Visits \ {v} : pc'[x] = pc[x] /\ job'[x] = job[x]
        /\ \/ pc'[v] = "done"
           \/ /\ pc'[v] = "engage" /\ job'[v] = [delivery |-> d, tracked |-> tracked]
              /\ tracked => Trackable(d)
    BY <1>4, Sorts DEF VisitRead, Step, tables, Typed, TypeOK, JobIsFunction
  <2>2. tracked /\ pc'[v] = "engage" => Accepted(d)'
    BY <2>1, <1>2, SentWasAccepted
  <2>3. \A x \in Visits : pc[x] = "engage" => job[x].delivery \in Deliveries
    BY DEF Typed, TypeOK, VisitJob
  <2>4. \A e \in Deliveries : <<v, e>> \notin engagement
    BY <2>1 DEF VisitsInProgress
  <2>5. VisitsInProgress'
    BY <1>2, <2>1, <2>2, <2>3, <2>4 DEF VisitsInProgress
  <2>6. TrackedWasAccepted'
    BY <1>2, <2>1, <2>4 DEF TrackedWasAccepted
  <2> QED BY <2>5, <2>6
<1>5. ASSUME NEW v \in Visits, VisitRecord(v) PROVE VisitsInProgress' /\ TrackedWasAccepted'
  <2>1. /\ pc[v] = "engage" /\ pc'[v] = "done" /\ job' = job
        /\ \A x \in Visits \ {v} : pc'[x] = pc[x]
        /\ engagement' = engagement \cup {<<v, job[v].delivery>>}
        /\ job[v].delivery \in Deliveries
    BY <1>5, Sorts DEF VisitRecord, Step, Typed, TypeOK, VisitJob
  <2>2. job[v].tracked => Accepted(job[v].delivery)'
    BY <1>2, <2>1 DEF VisitsInProgress
  <2>3. \A x \in Visits : pc[x] = "engage" => job[x].delivery \in Deliveries
    BY DEF Typed, TypeOK, VisitJob
  <2>4. VisitsInProgress'
    BY <1>2, <2>1, <2>3 DEF VisitsInProgress
  <2>5. TrackedWasAccepted'
    BY <1>2, <2>1, <2>2 DEF TrackedWasAccepted
  <2> QED BY <2>4, <2>5
<1>6. ASSUME NEW q \in Requests, Fail(q) PROVE VisitsInProgress' /\ TrackedWasAccepted'
  <2>1. /\ \A x \in Requests \ {q} : pc'[x] = pc[x] /\ job'[x] = job[x]
        /\ pc'[q] = "failed" /\ pc[q] # "done" /\ engagement' = engagement
    BY <1>6 DEF Fail, tables, Typed, TypeOK, JobIsFunction
  <2>2. \A x \in Visits : pc[x] = "engage" => job[x].delivery \in Deliveries
    BY DEF Typed, TypeOK, VisitJob
  <2>3. \A d \in Deliveries : <<q, d>> \notin engagement
    BY <2>1 DEF VisitsInProgress, Typed, TypeOK
  <2>4. VisitsInProgress'
    BY <1>2, <2>1, <2>2, <2>3, Sorts DEF VisitsInProgress
  <2>5. TrackedWasAccepted'
    BY <1>2, <2>1, <2>3, Sorts DEF TrackedWasAccepted
  <2> QED BY <2>4, <2>5
<1>7. ASSUME NEW q \in Requests \ Visits, \A x \in Requests \ {q} : pc'[x] = pc[x] /\ job'[x] = job[x],
             engagement' = engagement
      PROVE  VisitsInProgress' /\ TrackedWasAccepted'
  BY <1>3, <1>7, Sorts
<1>8. ASSUME NEW u \in Upserts, UpsertStep(u) PROVE VisitsInProgress' /\ TrackedWasAccepted'
  <2>1. \A x \in Requests \ {u} : pc'[x] = pc[x] /\ job'[x] = job[x]
    BY <1>8 DEF UpsertStep, UpsertLookup, UpsertCommit, Step, Typed, TypeOK, JobIsFunction
  <2>2. engagement' = engagement
    BY <1>8 DEF UpsertStep, UpsertLookup, UpsertCommit, tables
  <2> QED BY <1>7, <2>1, <2>2, Sorts
<1>9. ASSUME NEW b \in Batches, BatchStep(b) PROVE VisitsInProgress' /\ TrackedWasAccepted'
  <2>1. \A x \in Requests \ {b} : pc'[x] = pc[x] /\ job'[x] = job[x]
    BY <1>9 DEF BatchStep, SelectReports, ReadTemplate, ReadGroup, CountRetries, CommitBatch, Step,
                Typed, TypeOK, JobIsFunction
  <2>2. engagement' = engagement
    BY <1>9 DEF BatchStep, SelectReports, ReadTemplate, ReadGroup, CountRetries, CommitBatch, tables
  <2> QED BY <1>7, <2>1, <2>2, Sorts
<1>10. ASSUME NEW w \in Webhooks, WebhookStep(w) PROVE VisitsInProgress' /\ TrackedWasAccepted'
  <2>1. \A x \in Requests \ {w} : pc'[x] = pc[x] /\ job'[x] = job[x]
    BY <1>10 DEF WebhookStep, WebhookRead, WebhookRecord, Step, Typed, TypeOK, JobIsFunction
  <2>2. engagement' = engagement
    BY <1>10 DEF WebhookStep, WebhookRead, WebhookRecord, tables
  <2> QED BY <1>7, <2>1, <2>2, Sorts
<1>11. CASE UNCHANGED vars
  BY <1>3, <1>11 DEF vars
<1> QED
  BY <1>4, <1>5, <1>6, <1>8, <1>9, <1>10, <1>11 DEF Next, VisitStep

\* The pixel and the link count only deliveries that were accepted at some time.
THEOREM TrackedStaysAccepted == Spec => []TrackedWasAccepted
<1>1. Init => Tracked
  <2>1. Init => LastWordIsShown
    BY DEF Init, LastWordIsShown
  <2>2. Init => VisitsInProgress /\ TrackedWasAccepted
    BY Sorts DEF Init, VisitsInProgress, TrackedWasAccepted
  <2> QED BY <2>1, <2>2, InitTyped DEF Tracked
<1>2. Tracked => TrackedWasAccepted
  BY DEF Tracked
<1> QED
  BY <1>1, <1>2, TrackedKept, PTL DEF Spec

-----------------------------------------------------------------------------
(* When a delivery is given up.                                             *)

LEMMA DeliveriesAreFinite == IsFiniteSet(Deliveries)
<1> DEFINE pairs == (Batches \X Reports) \X Targets
           triple == [x \in pairs |-> <<x[1][1], x[1][2], x[2]>>]
<1>1. IsFiniteSet(pairs)
  BY RequestsAreFinite, FS_Product
<1>2. IsFiniteSet({triple[x] : x \in pairs})
  <2>1. triple \in Surjection(pairs, {triple[x] : x \in pairs})
    BY DEF Surjection
  <2> HIDE DEF triple, pairs
  <2> QED BY <1>1, <2>1, FS_Surjection
<1>3. Deliveries \subseteq {triple[x] : x \in pairs}
  <2> SUFFICES ASSUME NEW d \in Deliveries PROVE \E x \in pairs : d = triple[x]
    OBVIOUS
  <2>1. <<<<d[1], d[2]>>, d[3]>> \in pairs /\ d = triple[<<<<d[1], d[2]>>, d[3]>>]
    BY DEF Deliveries
  <2> QED BY <2>1
<1> QED
  BY <1>2, <1>3, FS_Subset

LEMMA MoreFailed ==
    ASSUME NEW S, NEW T, S \subseteq T, T \subseteq Deliveries
    PROVE  /\ Cardinality(S) \in Nat /\ Cardinality(T) \in Nat
           /\ Cardinality(S) <= Cardinality(T)
<1>1. IsFiniteSet(T)
  BY DeliveriesAreFinite, FS_Subset
<1>2. IsFiniteSet(S) /\ Cardinality(S) <= Cardinality(T)
  BY <1>1, FS_Subset
<1> QED
  BY <1>1, <1>2, FS_CardinalityType

\* What fails now failed at some time, for a batch that is not yet done in another one.
LEMMA FailedEver ==
    ASSUME Typed, LastWordIsShown, NEW b \in Batches, pc[b] # "done", NEW r, NEW ch
    PROVE  Failed(r, ch) \subseteq EverFailed(b, r, ch)
<1> SUFFICES ASSUME NEW d \in Deliveries, d[2] = r, deliveries[d] # None,
                    deliveries[d].channel = ch, deliveries[d].status = "failed"
             PROVE  d \in EverFailed(b, r, ch)
  BY DEF Failed
<1>1. d[1] # b
  BY DEF Typed, WrittenWhenDone
<1>2. Shows(d) /\ deliveries[d] \in Delivery
  BY LastWordIs DEF Typed, TypeOK
<1>3. CASE Len(events[d]) = 0
  <2>1. StatusOf(deliveries[d].outcome) = "failed" /\ deliveries[d].outcome \in Outcomes
    BY <1>2, <1>3 DEF Shows, Delivery
  <2>2. deliveries[d].outcome \in {"refused", "exhausted"}
    BY <2>1 DEF StatusOf, Outcomes
  <2> QED BY <1>1, <2>2 DEF EverFailed
<1>4. CASE Len(events[d]) # 0
  <2>1. Len(events[d]) \in DOMAIN events[d]
    BY <1>4 DEF Typed, TypeOK
  <2> QED BY <1>1, <1>2, <1>4, <2>1 DEF Shows, EverFailed
<1> QED BY <1>3, <1>4

LEMMA EverFailedGrows ==
    ASSUME Grows, NEW b, NEW r, NEW ch PROVE EverFailed(b, r, ch) \subseteq EverFailed(b, r, ch)'
BY DEF EverFailed, Grows

\* As many deliveries as the limit says have failed before one is given up.
Enough(b, r, ch) == Cardinality(EverFailed(b, r, ch)) >= RetryLimit

LEMMA EnoughStays ==
    ASSUME Grows, NEW b, NEW r, NEW ch, Enough(b, r, ch) PROVE Enough(b, r, ch)'
<1>1. EverFailed(b, r, ch) \subseteq EverFailed(b, r, ch)' /\ EverFailed(b, r, ch)' \subseteq Deliveries
  BY EverFailedGrows DEF EverFailed
<1>2. Cardinality(EverFailed(b, r, ch)) <= Cardinality(EverFailed(b, r, ch)')
      /\ Cardinality(EverFailed(b, r, ch)) \in Nat /\ Cardinality(EverFailed(b, r, ch)') \in Nat
  BY <1>1, MoreFailed
<1> QED
  BY <1>2, RetryLimitIsPositive DEF Enough

PlansInProgress ==
    \A b \in Batches, ch \in Channels : pc[b] = "count" /\ job[b].channel = ch =>
        \A x \in job[b].plan : x[2] = "exhausted" => Enough(b, x[1][2], ch)

\* NotGivenUpEarly, channel by channel.
GivenUpLate ==
    \A d \in Deliveries, ch \in Channels :
        deliveries[d] # None /\ deliveries[d].outcome = "exhausted" /\ deliveries[d].channel = ch =>
            Enough(d[1], d[2], ch)

GivenUp == Typed /\ LastWordIsShown /\ PlansInProgress /\ GivenUpLate

LEMMA LateIsNotEarly == Typed /\ GivenUpLate => NotGivenUpEarly
<1> SUFFICES ASSUME Typed, GivenUpLate, NEW d \in Deliveries, deliveries[d] # None,
                    deliveries[d].outcome = "exhausted"
             PROVE  Enough(d[1], d[2], deliveries[d].channel)
  BY DEF NotGivenUpEarly, Enough
<1>1. deliveries[d].channel \in Channels
  BY DEF Typed, TypeOK, Delivery
<1> QED BY <1>1 DEF GivenUpLate

\* A failure is given up only over the limit.
LEMMA ExhaustedOverLimit ==
    ASSUME NEW order, NEW ch, NEW t, NEW u, NEW n \in Nat, Outcome(order, ch, t, u, n) = "exhausted"
    PROVE  n >= RetryLimit
BY RetryLimitIsPositive DEF Outcome

LEMMA CountKeepsPlans ==
    ASSUME GivenUp, NEW b \in Batches, CountRetries(b), NEW ch \in Channels, job'[b].channel = ch
    PROVE  \A y \in job'[b].plan : y[2] = "exhausted" => Enough(b, y[1][2], ch)
<1> USE DEF GivenUp
<1>1. pc[b] = "count" /\ b \in Requests /\ job[b] \in BatchJob
  BY Sorts DEF CountRetries, Step, Typed, TypeOK
<1>2. PICK x \in job[b].todo :
        job' = [job EXCEPT ![b].todo = @ \ {x},
                           ![b].plan = @ \cup {<<<<b, x[1], x[2][1]>>,
                               Outcome(job[b].order, job[b].channel, x[2][1], x[2][2],
                                       Cardinality(Failed(x[1], job[b].channel)))>>}]
  BY DEF CountRetries
<1> DEFINE n == Cardinality(Failed(x[1], job[b].channel))
           o == Outcome(job[b].order, job[b].channel, x[2][1], x[2][2], n)
           d == <<b, x[1], x[2][1]>>
<1>3. job'[b].plan = job[b].plan \cup {<<d, o>>} /\ job[b].channel = ch
  BY <1>1, <1>2 DEF Typed, JobIsFunction, BatchJob
<1>4. Failed(x[1], ch) \subseteq EverFailed(b, x[1], ch)
  BY <1>1, FailedEver
<1>5. EverFailed(b, x[1], ch) \subseteq Deliveries
  BY DEF EverFailed
<1>6. n \in Nat /\ Cardinality(EverFailed(b, x[1], ch)) \in Nat
      /\ n <= Cardinality(EverFailed(b, x[1], ch))
  BY <1>3, <1>4, <1>5, MoreFailed
<1>7. o = "exhausted" => n >= RetryLimit
  BY <1>6, ExhaustedOverLimit
<1>8. o = "exhausted" => Enough(b, x[1], ch)
  BY <1>6, <1>7, RetryLimitIsPositive DEF Enough
<1> QED BY <1>1, <1>3, <1>8 DEF PlansInProgress

\* The stage and the job of a batch change by its own steps only.
LEMMA BatchMoves ==
    ASSUME Typed, [Next]_vars, NEW b \in Batches
    PROVE  (pc'[b] = pc[b] /\ job'[b] = job[b]) \/ BatchStep(b) \/ pc'[b] = "failed"
<1>1. b \in Requests
  BY Sorts
<1>2. ASSUME NEW q \in Requests \ {b}, \A x \in Requests \ {q} : pc'[x] = pc[x] /\ job'[x] = job[x]
      PROVE  pc'[b] = pc[b] /\ job'[b] = job[b]
  BY <1>1, <1>2
<1>3. ASSUME NEW u \in Upserts, UpsertStep(u) PROVE pc'[b] = pc[b] /\ job'[b] = job[b]
  <2>1. \A x \in Requests \ {u} : pc'[x] = pc[x] /\ job'[x] = job[x]
    BY <1>3 DEF UpsertStep, UpsertLookup, UpsertCommit, Step, Typed, TypeOK, JobIsFunction
  <2> QED BY <1>2, <2>1, Sorts
<1>4. ASSUME NEW c \in Batches \ {b}, BatchStep(c) PROVE pc'[b] = pc[b] /\ job'[b] = job[b]
  <2>1. \A x \in Requests \ {c} : pc'[x] = pc[x] /\ job'[x] = job[x]
    BY <1>4 DEF BatchStep, SelectReports, ReadTemplate, ReadGroup, CountRetries, CommitBatch, Step,
                Typed, TypeOK, JobIsFunction
  <2> QED BY <1>2, <1>4, <2>1, Sorts
<1>5. ASSUME NEW w \in Webhooks, WebhookStep(w) PROVE pc'[b] = pc[b] /\ job'[b] = job[b]
  <2>1. \A x \in Requests \ {w} : pc'[x] = pc[x] /\ job'[x] = job[x]
    BY <1>5 DEF WebhookStep, WebhookRead, WebhookRecord, Step, Typed, TypeOK, JobIsFunction
  <2> QED BY <1>2, <2>1, Sorts
<1>6. ASSUME NEW v \in Visits, VisitStep(v) PROVE pc'[b] = pc[b] /\ job'[b] = job[b]
  <2>1. \A x \in Requests \ {v} : pc'[x] = pc[x] /\ job'[x] = job[x]
    BY <1>6 DEF VisitStep, VisitRead, VisitRecord, Step, Typed, TypeOK, JobIsFunction
  <2> QED BY <1>2, <2>1, Sorts
<1>7. ASSUME NEW q \in Requests, Fail(q)
      PROVE  (pc'[b] = pc[b] /\ job'[b] = job[b]) \/ pc'[b] = "failed"
  BY <1>1, <1>7 DEF Fail, Typed, TypeOK, JobIsFunction
<1>8. CASE UNCHANGED vars
  BY <1>8 DEF vars
<1> QED
  BY <1>3, <1>4, <1>5, <1>6, <1>7, <1>8 DEF Next

\* A batch that counts did so before, with the same job, unless this is its own step.
LEMMA CountingBatch ==
    ASSUME Typed, [Next]_vars, NEW b \in Batches, pc'[b] = "count", ~CountRetries(b), ~ReadGroup(b)
    PROVE  pc[b] = "count" /\ job'[b] = job[b]
<1>1. BatchStep(b) => pc'[b] # "count"
  BY Sorts DEF BatchStep, SelectReports, ReadTemplate, CommitBatch, Step, Typed, TypeOK
<1> QED BY <1>1, BatchMoves

\* Who writes a delivery for the first time.
LEMMA NewlyWritten ==
    ASSUME Typed, [Next]_vars, NEW d \in Deliveries, deliveries[d] = None, deliveries'[d] # None
    PROVE  \E b \in Batches, o \in Outcomes :
             /\ CommitBatch(b)
             /\ <<d, o>> \in job[b].plan
             /\ d[1] = b
             /\ deliveries'[d] = [channel |-> job[b].channel, outcome |-> o,
                                  status |-> StatusOf(o), told |-> <<>>]
<1>1. ASSUME NEW w \in Webhooks, WebhookRecord(w) PROVE FALSE
  <2>1. PICK c \in Deliveries : deliveries[c] # None /\ \A e \in Deliveries \ {c} : deliveries'[e] = deliveries[e]
    BY <1>1, Recorded DEF Typed, TypeOK
  <2> QED BY <2>1
<1>2. PICK b \in Batches : CommitBatch(b)
  BY <1>1, Writers
<1>3. \E o \in Outcomes :
         /\ <<d, o>> \in job[b].plan
         /\ d[1] = b
         /\ deliveries'[d] = [channel |-> job[b].channel, outcome |-> o,
                              status |-> StatusOf(o), told |-> <<>>]
  BY <1>2, Written
<1> QED BY <1>2, <1>3

LEMMA GivenUpKept == GivenUp /\ [Next]_vars => GivenUp'
<1> SUFFICES ASSUME GivenUp, [Next]_vars PROVE PlansInProgress' /\ GivenUpLate'
  BY NextTyped, LastWordKept DEF GivenUp
<1> USE DEF GivenUp
<1>1. Grows
  BY StepGrows
<1>2. ASSUME NEW b \in Batches, NEW ch \in Channels, pc'[b] = "count", job'[b].channel = ch,
             NEW x \in job'[b].plan, x[2] = "exhausted"
      PROVE  Enough(b, x[1][2], ch)'
  <2>1. CASE pc[b] = "count" /\ job'[b] = job[b]
    <3>1. Enough(b, x[1][2], ch)
      BY <1>2, <2>1 DEF PlansInProgress
    <3> QED BY <3>1, <1>1, EnoughStays
  <2>2. CASE CountRetries(b)
    <3>1. Enough(b, x[1][2], ch)
      BY <1>2, <2>2, CountKeepsPlans
    <3> QED BY <3>1, <1>1, EnoughStays
  <2>3. CASE ReadGroup(b)
    <3>1. job'[b].plan = {}
      BY <2>3, Sorts DEF ReadGroup, Step, Typed, TypeOK, BatchReads, JobIsFunction, BatchJob
    <3> QED BY <3>1, <1>2
  <2>4. CASE ~CountRetries(b) /\ ~ReadGroup(b)
    BY <1>2, <2>1, <2>4, CountingBatch
  <2> QED BY <2>2, <2>3, <2>4
<1>3. ASSUME NEW d \in Deliveries, NEW ch \in Channels, deliveries'[d] # None,
             deliveries'[d].outcome = "exhausted", deliveries'[d].channel = ch
      PROVE  Enough(d[1], d[2], ch)'
  <2>1. CASE deliveries[d] # None
    <3>1. deliveries'[d].outcome = deliveries[d].outcome /\ deliveries'[d].channel = deliveries[d].channel
      BY <1>1, <2>1 DEF Grows
    <3>2. Enough(d[1], d[2], ch)
      BY <1>3, <2>1, <3>1 DEF GivenUpLate
    <3> QED BY <3>2, <1>1, EnoughStays
  <2>2. CASE deliveries[d] = None
    <3>1. PICK b \in Batches, o \in Outcomes :
             /\ CommitBatch(b)
             /\ <<d, o>> \in job[b].plan
             /\ d[1] = b
             /\ deliveries'[d] = [channel |-> job[b].channel, outcome |-> o,
                                  status |-> StatusOf(o), told |-> <<>>]
      BY <1>3, <2>2, NewlyWritten
    <3>3. o = "exhausted" /\ ch = job[b].channel
      BY <1>3, <3>1
    <3>4. pc[b] = "count"
      BY <3>1 DEF CommitBatch, Step
    <3>5. Enough(d[1], d[2], ch)
      BY <3>1, <3>3, <3>4 DEF PlansInProgress
    <3> QED BY <3>5, <1>1, EnoughStays
  <2> QED BY <2>1, <2>2
<1> QED
  BY <1>2, <1>3 DEF PlansInProgress, GivenUpLate

\* No delivery is given up before as many as the limit says have failed, in other batches.
THEOREM NeverGivenUpEarly == Spec => []NotGivenUpEarly
<1>1. Init => GivenUp
  <2>1. Init => LastWordIsShown /\ GivenUpLate
    BY DEF Init, LastWordIsShown, GivenUpLate
  <2>2. Init => PlansInProgress
    BY Sorts DEF Init, PlansInProgress
  <2> QED BY <2>1, <2>2, InitTyped DEF GivenUp
<1>2. GivenUp => NotGivenUpEarly
  BY LateIsNotEarly DEF GivenUp
<1> QED
  BY <1>1, <1>2, GivenUpKept, PTL DEF Spec

-----------------------------------------------------------------------------
(* Identifiers.                                                             *)

LEMMA DoneStays ==
    ASSUME Typed, [Next]_vars, NEW q \in Requests, pc[q] = "done"
    PROVE  pc'[q] = "done" /\ job'[q] = job[q]
<1>1. ASSUME NEW u \in Upserts, UpsertStep(u) PROVE pc'[q] = "done" /\ job'[q] = job[q]
  BY <1>1 DEF UpsertStep, UpsertLookup, UpsertCommit, Step, Typed, TypeOK, JobIsFunction
<1>2. ASSUME NEW b \in Batches, BatchStep(b) PROVE pc'[q] = "done" /\ job'[q] = job[q]
  BY <1>2 DEF BatchStep, SelectReports, ReadTemplate, ReadGroup, CountRetries, CommitBatch, Step,
              Typed, TypeOK, JobIsFunction
<1>3. ASSUME NEW w \in Webhooks, WebhookStep(w) PROVE pc'[q] = "done" /\ job'[q] = job[q]
  BY <1>3 DEF WebhookStep, WebhookRead, WebhookRecord, Step, Typed, TypeOK, JobIsFunction
<1>4. ASSUME NEW v \in Visits, VisitStep(v) PROVE pc'[q] = "done" /\ job'[q] = job[q]
  BY <1>4 DEF VisitStep, VisitRead, VisitRecord, Step, Typed, TypeOK, JobIsFunction
<1>5. ASSUME NEW r \in Requests, Fail(r) PROVE pc'[q] = "done" /\ job'[q] = job[q]
  BY <1>5 DEF Fail, Typed, TypeOK, JobIsFunction
<1>6. CASE UNCHANGED vars
  BY <1>6 DEF vars
<1> QED
  BY <1>1, <1>2, <1>3, <1>4, <1>5, <1>6 DEF Next

\* Who changes what is saved, and who is unsubscribed.
LEMMA SavedWriters ==
    ASSUME [Next]_vars
    PROVE  \/ UNCHANGED <<saved, excluded>>
           \/ \E u \in Upserts : UpsertCommit(u)
           \/ /\ UNCHANGED saved
              /\ \E b \in Batches, rs \in SUBSET Reports, order \in Orders, template \in Ids, group \in Ids :
                   SelectReports(b, rs, order, template, group)
<1>1. ASSUME NEW u \in Upserts, UpsertStep(u) PROVE UNCHANGED <<saved, excluded>> \/ UpsertCommit(u)
  BY <1>1 DEF UpsertStep, UpsertLookup, tables
<1>2. ASSUME NEW b \in Batches, BatchStep(b)
      PROVE  \/ UNCHANGED <<saved, excluded>>
             \/ /\ UNCHANGED saved
                /\ \E rs \in SUBSET Reports, order \in Orders, template \in Ids, group \in Ids :
                     SelectReports(b, rs, order, template, group)
  <2>1. CASE \E rs \in SUBSET Reports, order \in Orders, template \in Ids, group \in Ids :
               SelectReports(b, rs, order, template, group)
    <3>1. UNCHANGED saved
      BY <2>1 DEF SelectReports, tables
    <3> QED BY <2>1, <3>1
  <2>2. CASE ReadTemplate(b) \/ ReadGroup(b) \/ CountRetries(b) \/ CommitBatch(b)
    BY <2>2 DEF ReadTemplate, ReadGroup, CountRetries, CommitBatch, tables
  <2> QED BY <1>2, <2>1, <2>2 DEF BatchStep
<1>3. ASSUME NEW w \in Webhooks, WebhookStep(w) PROVE UNCHANGED <<saved, excluded>>
  BY <1>3 DEF WebhookStep, WebhookRead, WebhookRecord, tables
<1>4. ASSUME NEW v \in Visits, VisitStep(v) PROVE UNCHANGED <<saved, excluded>>
  BY <1>4 DEF VisitStep, VisitRead, VisitRecord, tables
<1>5. ASSUME NEW q \in Requests, Fail(q) PROVE UNCHANGED <<saved, excluded>>
  BY <1>5 DEF Fail, tables
<1>6. CASE UNCHANGED vars
  BY <1>6 DEF vars
<1> QED
  BY <1>1, <1>2, <1>3, <1>4, <1>5, <1>6 DEF Next

\* The identifier that the upsert of a name commits under.
CommittedId(u) ==
    IF saved[job[u].kind][job[u].name] = None THEN job[u].id ELSE saved[job[u].kind][job[u].name].id

\* What a commit writes, and nothing else.
Commits(u) ==
    /\ job[u].kind \in Kinds /\ job[u].name \in Names /\ CommittedId(u) \in Upserts
    /\ saved'[job[u].kind][job[u].name] = [id |-> CommittedId(u), form |-> job[u].form]
    /\ saved'[job[u].kind][job[u].name] # None
    /\ \A kind \in Kinds, n \in Names : kind # job[u].kind \/ n # job[u].name =>
         saved'[kind][n] = saved[kind][n]

LEMMA Committed == ASSUME Typed, NEW u \in Upserts, UpsertCommit(u) PROVE Commits(u)
<1>1. job[u] \in UpsertJob /\ u \in Requests
  BY Sorts DEF UpsertCommit, Step, Typed, TypeOK
<1>2. job[u].kind \in Kinds /\ job[u].name \in Names
      /\ job[u].form \in Forms(job[u].kind) /\ job[u].id \in Upserts
  BY <1>1 DEF UpsertJob
<1>3. CommittedId(u) \in Upserts
  BY <1>2 DEF Typed, TypeOK, Saved, CommittedId
<1>4. saved \in [Kinds -> [Names -> Saved("template") \cup Saved("group") \cup {None}]]
  BY DEF Typed, TypeOK
<1>5. saved' = [saved EXCEPT ![job[u].kind][job[u].name] = [id |-> CommittedId(u), form |-> job[u].form]]
  BY DEF UpsertCommit, CommittedId
<1>6. saved'[job[u].kind][job[u].name] = [id |-> CommittedId(u), form |-> job[u].form]
      /\ \A kind \in Kinds, n \in Names : kind # job[u].kind \/ n # job[u].name =>
           saved'[kind][n] = saved[kind][n]
  BY <1>2, <1>4, <1>5
<1>7. [id |-> CommittedId(u), form |-> job[u].form] \in Saved(job[u].kind)
  BY <1>2, <1>3 DEF Saved
<1> QED
  BY <1>1, <1>2, <1>3, <1>6, <1>7, NoneIsNoRow DEF Commits

IdsKept ==
    \A kind \in Kinds, n \in Names :
        saved[kind][n] # None => saved'[kind][n] # None /\ saved'[kind][n].id = saved[kind][n].id

LEMMA StepKeepsIds == ASSUME Typed, [Next]_vars PROVE IdsKept
<1>1. CASE UNCHANGED saved
  BY <1>1 DEF IdsKept
<1>2. ASSUME NEW u \in Upserts, UpsertCommit(u) PROVE IdsKept
  <2> SUFFICES ASSUME NEW kind \in Kinds, NEW n \in Names, saved[kind][n] # None
               PROVE  saved'[kind][n] # None /\ saved'[kind][n].id = saved[kind][n].id
    BY DEF IdsKept
  <2>0. Commits(u)
    BY <1>2, Committed
  <2>1. CASE kind = job[u].kind /\ n = job[u].name
    <3>1. saved'[kind][n] # None /\ saved'[kind][n].id = CommittedId(u)
      BY <2>0, <2>1 DEF Commits
    <3> QED BY <2>1, <3>1 DEF CommittedId
  <2>2. CASE kind # job[u].kind \/ n # job[u].name
    BY <2>0, <2>2 DEF Commits
  <2> QED BY <2>1, <2>2
<1> QED
  BY <1>1, <1>2, SavedWriters

\* A stored template or group keeps its identifier.
THEOREM IdsStay == Spec => IdsNeverChange
<1>1. Typed /\ [Next]_vars => [\A kind \in Kinds, n \in Names :
         saved[kind][n] # None => saved'[kind][n] # None /\ saved'[kind][n].id = saved[kind][n].id]_vars
  BY StepKeepsIds DEF IdsKept
<1> QED
  BY <1>1, InitTyped, NextTyped, PTL DEF Spec, IdsNeverChange

\* An upsert that does not commit its own identifier has found a row; and the request that
\* a row's identifier comes from has committed it under this name.
LookedUp ==
    \A u \in Upserts : pc[u] = "upsert" =>
        job[u].id = u \/ saved[job[u].kind][job[u].name] # None
RowsHaveOwners ==
    \A kind \in Kinds, n \in Names : saved[kind][n] # None =>
        /\ pc[saved[kind][n].id] = "done"
        /\ job[saved[kind][n].id].kind = kind
        /\ job[saved[kind][n].id].name = n

LEMMA LookedUpKept == Typed /\ LookedUp /\ [Next]_vars => LookedUp'
<1> SUFFICES ASSUME Typed, LookedUp, [Next]_vars, NEW u \in Upserts, pc'[u] = "upsert"
             PROVE  job'[u].id = u \/ saved'[job'[u].kind][job'[u].name] # None
  BY DEF LookedUp
<1>1. u \in Requests
  BY Sorts
<1>2. CASE pc[u] = "upsert" /\ job'[u] = job[u]
  <2>1. job[u].kind \in Kinds /\ job[u].name \in Names
    BY <1>2 DEF Typed, TypeOK, UpsertJob
  <2> QED BY <1>2, <2>1, StepKeepsIds DEF LookedUp, IdsKept
<1>3. ASSUME NEW q \in Requests \ {u}, \A x \in Requests \ {q} : pc'[x] = pc[x] /\ job'[x] = job[x]
      PROVE  pc[u] = "upsert" /\ job'[u] = job[u]
  BY <1>1, <1>3
<1>4. ASSUME NEW x \in Upserts, UpsertStep(x)
      PROVE  job'[u].id = u \/ saved'[job'[u].kind][job'[u].name] # None
  <2>1. \A q \in Requests \ {x} : pc'[q] = pc[q] /\ job'[q] = job[q]
    BY <1>4 DEF UpsertStep, UpsertLookup, UpsertCommit, Step, Typed, TypeOK, JobIsFunction
  <2>2. CASE x # u
    BY <1>2, <1>3, <2>1, <2>2, Sorts
  <2>3. CASE x = u
    <3>1. PICK kind \in Kinds, n \in Names, padded \in BOOLEAN :
            \E form \in Forms(kind) : UpsertLookup(u, kind, n, padded, form)
      <4>1. UpsertCommit(u) => pc'[u] = "done"
        BY <1>1 DEF UpsertCommit, Step, Typed, TypeOK
      <4> QED BY <1>4, <2>3, <4>1 DEF UpsertStep
    <3>2. saved' = saved /\ \E form \in Forms(kind) :
            job'[u] = [kind |-> kind, name |-> n, form |-> form,
                       id |-> IF padded \/ saved[kind][n] = None THEN u ELSE saved[kind][n].id]
      BY <1>1, <3>1 DEF UpsertLookup, Typed, JobIsFunction, tables
    <3> QED BY <3>2
  <2> QED BY <2>2, <2>3
<1>5. ASSUME NEW b \in Batches, BatchStep(b) PROVE pc[u] = "upsert" /\ job'[u] = job[u]
  <2>1. \A x \in Requests \ {b} : pc'[x] = pc[x] /\ job'[x] = job[x]
    BY <1>5 DEF BatchStep, SelectReports, ReadTemplate, ReadGroup, CountRetries, CommitBatch, Step,
                Typed, TypeOK, JobIsFunction
  <2> QED BY <1>3, <2>1, Sorts
<1>6. ASSUME NEW w \in Webhooks, WebhookStep(w) PROVE pc[u] = "upsert" /\ job'[u] = job[u]
  <2>1. \A x \in Requests \ {w} : pc'[x] = pc[x] /\ job'[x] = job[x]
    BY <1>6 DEF WebhookStep, WebhookRead, WebhookRecord, Step, Typed, TypeOK, JobIsFunction
  <2> QED BY <1>3, <2>1, Sorts
<1>7. ASSUME NEW v \in Visits, VisitStep(v) PROVE pc[u] = "upsert" /\ job'[u] = job[u]
  <2>1. \A x \in Requests \ {v} : pc'[x] = pc[x] /\ job'[x] = job[x]
    BY <1>7 DEF VisitStep, VisitRead, VisitRecord, Step, Typed, TypeOK, JobIsFunction
  <2> QED BY <1>3, <2>1, Sorts
<1>8. ASSUME NEW q \in Requests, Fail(q) PROVE pc[u] = "upsert" /\ job'[u] = job[u]
  BY <1>1, <1>8 DEF Fail, Typed, TypeOK, JobIsFunction
<1>9. CASE UNCHANGED vars
  BY <1>2, <1>9 DEF vars
<1> QED
  BY <1>2, <1>4, <1>5, <1>6, <1>7, <1>8, <1>9 DEF Next

LEMMA OwnersKept == Typed /\ LookedUp /\ RowsHaveOwners /\ [Next]_vars => RowsHaveOwners'
<1> SUFFICES ASSUME Typed, LookedUp, RowsHaveOwners, [Next]_vars,
                    NEW kind \in Kinds, NEW n \in Names, saved'[kind][n] # None
             PROVE  /\ pc'[saved'[kind][n].id] = "done"
                    /\ job'[saved'[kind][n].id].kind = kind
                    /\ job'[saved'[kind][n].id].name = n
  BY DEF RowsHaveOwners
<1>1. CASE saved[kind][n] # None
  <2>1. saved[kind][n].id \in Requests /\ saved'[kind][n].id = saved[kind][n].id
    BY <1>1, StepKeepsIds, Sorts DEF IdsKept, Typed, TypeOK, Saved
  <2> QED BY <1>1, <2>1, DoneStays DEF RowsHaveOwners
<1>2. CASE saved[kind][n] = None
  <2>1. PICK u \in Upserts : UpsertCommit(u)
    BY <1>2, SavedWriters
  <2>1a. Commits(u)
    BY <2>1, Committed
  <2>2. kind = job[u].kind /\ n = job[u].name
    BY <1>2, <2>1a DEF Commits
  <2>3. job[u].id = u
    BY <1>2, <2>1, <2>2 DEF LookedUp, UpsertCommit, Step
  <2>4. saved'[kind][n].id = u
    BY <1>2, <2>1a, <2>2, <2>3 DEF Commits, CommittedId
  <2>5. pc'[u] = "done" /\ job' = job
    BY <2>1, Sorts DEF UpsertCommit, Step, Typed, TypeOK
  <2> QED BY <2>2, <2>4, <2>5
<1> QED BY <1>1, <1>2

\* What a batch finds, of any table of groups.
FoundIn(rows, id) ==
    LET found == {n \in Names : rows[n] # None /\ rows[n].id = id /\ rows[n].form.enabled}
    IN  IF id = None \/ found = {} THEN None ELSE rows[CHOOSE n \in found : TRUE]

LEMMA FoundInSaved ==
    ASSUME NEW id
    PROVE  /\ Enabled("group", id) = FoundIn(saved["group"], id)
           /\ Enabled("group", id)' = FoundIn(saved'["group"], id)
BY DEF Enabled, FoundIn

\* When two rows never share an identifier, it is the row of this identifier, if enabled;
LEMMA FoundByName ==
    ASSUME NEW rows, NEW n \in Names, rows[n] # None, rows[n].id # None,
           \A m \in Names : rows[m] # None /\ rows[m].id = rows[n].id => m = n
    PROVE  FoundIn(rows, rows[n].id) = IF rows[n].form.enabled THEN rows[n] ELSE None
<1> DEFINE id == rows[n].id
           found == {m \in Names : rows[m] # None /\ rows[m].id = id /\ rows[m].form.enabled}
<1>1. \A m \in found : m = n
  OBVIOUS
<1>2. FoundIn(rows, id) = IF id = None \/ found = {} THEN None ELSE rows[CHOOSE m \in found : TRUE]
  BY DEF FoundIn
<1>3. CASE rows[n].form.enabled
  <2>1. n \in found
    BY <1>3
  <2>2. (CHOOSE m \in found : TRUE) = n
    BY <1>1, <2>1
  <2> QED BY <1>2, <1>3, <2>1, <2>2
<1>4. CASE ~rows[n].form.enabled
  <2>1. found = {}
    BY <1>1, <1>4
  <2> QED BY <1>2, <1>4, <2>1
<1> QED BY <1>3, <1>4

\* and it depends on the rows of this identifier only.
LEMMA FoundStays ==
    ASSUME NEW old, NEW new, NEW id,
           \A n \in Names : \/ new[n] = old[n]
                            \/ (old[n] = None \/ old[n].id # id) /\ new[n].id # id
    PROVE  FoundIn(new, id) = FoundIn(old, id)
<1> DEFINE was == {n \in Names : old[n] # None /\ old[n].id = id /\ old[n].form.enabled}
           now == {n \in Names : new[n] # None /\ new[n].id = id /\ new[n].form.enabled}
<1>1. now = was /\ \A n \in was : new[n] = old[n]
  OBVIOUS
<1>2. FoundIn(old, id) = IF id = None \/ was = {} THEN None ELSE old[CHOOSE n \in was : TRUE]
  BY DEF FoundIn
<1>3. FoundIn(new, id) = IF id = None \/ now = {} THEN None ELSE new[CHOOSE n \in now : TRUE]
  BY DEF FoundIn
<1>4. was # {} => (CHOOSE n \in was : TRUE) \in was
  OBVIOUS
<1> HIDE DEF was, now
<1> QED BY <1>1, <1>2, <1>3, <1>4

-----------------------------------------------------------------------------
(* The unsubscribed.                                                        *)

\* Of the group with this identifier: who is unsubscribed, if a batch would find it.
OutIn(rows, id) == IF FoundIn(rows, id) = None THEN {} ELSE FoundIn(rows, id).form.out

\* Who has been unsubscribed ever since the batch came in still is, until it reads its group,
ExcludedStillAre ==
    \A b \in Batches : pc[b] \in {"template", "group"} =>
        excluded[b] \subseteq OutIn(saved["group"], job[b].group)
\* is then marked, and is skipped.
ExcludedAreSkipped ==
    \A b \in Batches : pc[b] = "count" =>
        /\ \A x \in job[b].todo : x[2][1] \in excluded[b] => x[2][2]
        /\ \A x \in job[b].plan : job[b].order.respect /\ x[1][3] \in excluded[b] => x[2] = "skipped"

Skips == Typed /\ LookedUp /\ RowsHaveOwners /\ ExcludedStillAre /\ ExcludedAreSkipped

\* Of one batch, excluded is set when it comes in, and shrinks with upserts.
LEMMA ExcludedWriters ==
    ASSUME Typed, [Next]_vars, NEW b \in Batches
    PROVE  \/ saved' = saved /\ excluded'[b] = excluded[b]
           \/ \E u \in Upserts : UpsertCommit(u)
           \/ \E rs \in SUBSET Reports, order \in Orders, template \in Ids, group \in Ids :
                SelectReports(b, rs, order, template, group)
<1>1. ASSUME NEW c \in Batches, c # b, NEW rs \in SUBSET Reports, NEW order \in Orders,
             NEW template \in Ids, NEW group \in Ids, SelectReports(c, rs, order, template, group)
      PROVE  saved' = saved /\ excluded'[b] = excluded[b]
  BY <1>1 DEF SelectReports, tables, Typed, TypeOK
<1> QED BY <1>1, SavedWriters

LEMMA UpsertShrinks ==
    ASSUME NEW u \in Upserts, UpsertCommit(u), NEW b \in Batches
    PROVE  excluded'[b] \subseteq excluded[b]
BY DEF UpsertCommit

\* A batch comes in with who is unsubscribed then.
LEMMA SelectExcludes ==
    ASSUME Typed, NEW b \in Batches, NEW rs \in SUBSET Reports, NEW order \in Orders,
           NEW template \in Ids, NEW group \in Ids, SelectReports(b, rs, order, template, group)
    PROVE  excluded'[b] = OutIn(saved'["group"], job'[b].group)
<1>1. excluded'[b] = IF Enabled("group", group) = None THEN {} ELSE Enabled("group", group).form.out
  BY DEF SelectReports, Typed, TypeOK
<1>2. saved' = saved /\ job'[b].group = group
  BY Sorts DEF SelectReports, tables, Typed, JobIsFunction
<1> QED BY <1>1, <1>2, FoundInSaved DEF OutIn

\* An upsert of the group leaves in excluded only who is still unsubscribed.
LEMMA UpsertExcludes ==
    ASSUME Skips, RowsHaveOwners', NEW u \in Upserts, UpsertCommit(u),
           NEW b \in Batches, pc[b] \in {"template", "group"}
    PROVE  excluded'[b] \subseteq OutIn(saved'["group"], job[b].group)
<1>0. Commits(u)
  BY Committed DEF Skips
<1>1. excluded[b] \subseteq OutIn(saved["group"], job[b].group)
  BY DEF Skips, ExcludedStillAre
<1>2. excluded'[b] =
        IF job[u].kind = "group" /\ job[b].group = CommittedId(u)
        THEN IF job[u].form.enabled THEN excluded[b] \cap job[u].form.out ELSE {}
        ELSE excluded[b]
  BY DEF UpsertCommit, CommittedId
<1> DEFINE rows == saved'["group"]
           n == job[u].name
<1>3. CASE job[u].kind = "group" /\ job[b].group = CommittedId(u)
  <2>1. n \in Names /\ rows[n] = [id |-> CommittedId(u), form |-> job[u].form] /\ rows[n] # None
    BY <1>0, <1>3 DEF Commits
  <2>2. \A m \in Names : rows[m] # None /\ rows[m].id = rows[n].id => m = n
    BY <2>1, KindsAre DEF RowsHaveOwners
  <2>3. rows[n].id # None
    BY <1>0, <2>1, RequestsAreDistinct DEF Commits, Requests
  <2>4. FoundIn(rows, rows[n].id) = IF rows[n].form.enabled THEN rows[n] ELSE None
    <3> HIDE DEF rows, n
    <3> QED BY <2>1, <2>2, <2>3, FoundByName
  <2> QED BY <1>2, <1>3, <2>1, <2>4 DEF OutIn
<1>4. CASE ~(job[u].kind = "group" /\ job[b].group = CommittedId(u))
  <2>1. \A m \in Names :
          \/ saved'["group"][m] = saved["group"][m]
          \/ /\ saved["group"][m] = None \/ saved["group"][m].id # job[b].group
             /\ saved'["group"][m].id # job[b].group
    <3> SUFFICES ASSUME NEW m \in Names, saved'["group"][m] # saved["group"][m]
                 PROVE  /\ saved["group"][m] = None \/ saved["group"][m].id # job[b].group
                        /\ saved'["group"][m].id # job[b].group
      OBVIOUS
    <3>1. job[u].kind = "group" /\ job[u].name = m
      BY <1>0, KindsAre DEF Commits
    <3>2. saved'["group"][m].id = CommittedId(u)
      BY <1>0, <3>1 DEF Commits
    <3>3. saved["group"][m] # None => saved["group"][m].id = CommittedId(u)
      BY <3>1 DEF CommittedId
    <3> QED BY <1>4, <3>1, <3>2, <3>3
  <2>2. FoundIn(saved'["group"], job[b].group) = FoundIn(saved["group"], job[b].group)
    BY <2>1, FoundStays
  <2> QED BY <1>1, <1>2, <1>4, <2>2 DEF OutIn
<1> QED BY <1>3, <1>4

LEMMA ExcludedStillKept ==
    ASSUME Skips, RowsHaveOwners', [Next]_vars, NEW b \in Batches, pc'[b] \in {"template", "group"}
    PROVE  excluded'[b] \subseteq OutIn(saved'["group"], job'[b].group)
<1>1. CASE \E rs \in SUBSET Reports, order \in Orders, template \in Ids, group \in Ids :
             SelectReports(b, rs, order, template, group)
  BY <1>1, SelectExcludes DEF Skips
<1>2. ASSUME NEW u \in Upserts, UpsertCommit(u)
      PROVE  excluded'[b] \subseteq OutIn(saved'["group"], job'[b].group)
  <2>1. pc'[b] = pc[b] /\ job'[b] = job[b]
    BY <1>2, Sorts DEF UpsertCommit, Step, Skips, Typed, TypeOK
  <2> QED BY <1>2, <2>1, UpsertExcludes
<1>3. CASE saved' = saved /\ excluded'[b] = excluded[b]
           /\ ~ \E rs \in SUBSET Reports, order \in Orders, template \in Ids, group \in Ids :
                  SelectReports(b, rs, order, template, group)
  <2>1. pc[b] \in {"template", "group"} /\ job'[b].group = job[b].group
    <3>1. CASE pc'[b] = pc[b] /\ job'[b] = job[b]
      BY <3>1
    <3>2. CASE BatchStep(b)
      <4>1. pc'[b] = "done" \/ pc'[b] = "count" \/ ReadTemplate(b)
        BY <1>3, <3>2, Sorts DEF BatchStep, ReadGroup, CountRetries, CommitBatch, Step, Skips, Typed, TypeOK
      <4>2. ReadTemplate(b) => pc[b] = "template" /\ job[b] \in BatchJob
        BY DEF ReadTemplate, Step, Skips, Typed, TypeOK
      <4>3. ReadTemplate(b) => job'[b].group = job[b].group
        BY <4>2, Sorts DEF ReadTemplate, BatchJob, Skips, Typed, JobIsFunction
      <4> QED BY <4>1, <4>2, <4>3
    <3> QED BY <3>1, <3>2, BatchMoves DEF Skips
  <2> QED BY <1>3, <2>1 DEF Skips, ExcludedStillAre
<1> QED BY <1>1, <1>2, <1>3, ExcludedWriters DEF Skips

\* What is not sent: the unsubscribed, when the order says so.
LEMMA UnsubscribedOutcome ==
    ASSUME NEW order, order.respect, NEW ch, NEW t, NEW u, u, NEW n
    PROVE  Outcome(order, ch, t, u, n) = "skipped"
BY DEF Outcome

\* The group that a batch reads marks whom it excludes.
LEMMA ReadGroupMarks ==
    ASSUME Skips, NEW b \in Batches, ReadGroup(b)
    PROVE  /\ job'[b].plan = {}
           /\ \A x \in job'[b].todo : x[2][1] \in excluded[b] => x[2][2]
<1> DEFINE row == Enabled("group", job[b].group)
<1>1. pc[b] = "group" /\ job[b] \in BatchJob /\ job[b].plan = {}
  BY DEF ReadGroup, Step, Skips, Typed, TypeOK, BatchReads
<1>2. job'[b].plan = {} /\ job'[b].todo = job[b].reports \X BatchTargets(job[b].order, row)
  BY <1>1, Sorts DEF ReadGroup, BatchJob, Skips, Typed, JobIsFunction
<1>3. excluded[b] \subseteq IF row = None THEN {} ELSE row.form.out
  BY <1>1, FoundInSaved DEF Skips, ExcludedStillAre, OutIn
<1>4. \A y \in BatchTargets(job[b].order, row) : y[1] \in excluded[b] => y[2]
  <2>1. CASE row = None
    BY <1>3, <2>1
  <2>2. CASE row # None
    <3>1. BatchTargets(job[b].order, row) = {<<t, t \in row.form.out>> : t \in row.form.to}
      BY <2>2 DEF BatchTargets
    <3>2. \A t : t \in excluded[b] => t \in row.form.out
      BY <1>3, <2>2
    <3>3. \A t : <<t, t \in row.form.out>>[1] = t /\ (<<t, t \in row.form.out>>[2] <=> t \in row.form.out)
      BY Zenon
    <3> QED BY <3>1, <3>2, <3>3, Zenon
  <2> QED BY <2>1, <2>2
<1> QED BY <1>2, <1>4

LEMMA CountSkips ==
    ASSUME Skips, NEW b \in Batches, CountRetries(b)
    PROVE  /\ \A x \in job'[b].todo : x[2][1] \in excluded[b] => x[2][2]
           /\ \A x \in job'[b].plan : job'[b].order.respect /\ x[1][3] \in excluded[b] => x[2] = "skipped"
<1> USE DEF Skips
<1>1. pc[b] = "count" /\ b \in Requests /\ job[b] \in BatchJob
  BY Sorts DEF CountRetries, Step, Typed, TypeOK
<1>2. PICK x \in job[b].todo :
        job' = [job EXCEPT ![b].todo = @ \ {x},
                           ![b].plan = @ \cup {<<<<b, x[1], x[2][1]>>,
                               Outcome(job[b].order, job[b].channel, x[2][1], x[2][2],
                                       Cardinality(Failed(x[1], job[b].channel)))>>}]
  BY DEF CountRetries
<1> DEFINE o == Outcome(job[b].order, job[b].channel, x[2][1], x[2][2],
                        Cardinality(Failed(x[1], job[b].channel)))
           d == <<b, x[1], x[2][1]>>
<1>3. job'[b].plan = job[b].plan \cup {<<d, o>>} /\ job'[b].todo \subseteq job[b].todo
      /\ job'[b].order = job[b].order
  BY <1>1, <1>2 DEF Typed, JobIsFunction, BatchJob
<1>4. x[2][1] \in excluded[b] => x[2][2]
  BY <1>1 DEF ExcludedAreSkipped
<1>5. job[b].order.respect /\ x[2][1] \in excluded[b] => o = "skipped"
  BY <1>4, UnsubscribedOutcome
<1>6. d[3] = x[2][1]
  OBVIOUS
<1> HIDE DEF d, o
<1> QED BY <1>1, <1>3, <1>5, <1>6 DEF ExcludedAreSkipped

LEMMA SkipsKept == Skips /\ [Next]_vars => Skips'
<1> SUFFICES ASSUME Skips, [Next]_vars PROVE Skips'
  OBVIOUS
<1>1. Typed' /\ LookedUp' /\ RowsHaveOwners'
  BY NextTyped, LookedUpKept, OwnersKept DEF Skips
<1>2. ExcludedStillAre'
  BY <1>1, ExcludedStillKept DEF ExcludedStillAre
<1>3. ASSUME NEW b \in Batches, pc'[b] = "count"
      PROVE  /\ \A x \in job'[b].todo : x[2][1] \in excluded'[b] => x[2][2]
             /\ \A x \in job'[b].plan :
                  job'[b].order.respect /\ x[1][3] \in excluded'[b] => x[2] = "skipped"
  <2>1. \A rs \in SUBSET Reports, order \in Orders, template \in Ids, group \in Ids :
          ~SelectReports(b, rs, order, template, group)
    BY <1>3, Sorts DEF SelectReports, Step, Skips, Typed, TypeOK
  <2>2. excluded'[b] \subseteq excluded[b]
    BY <2>1, ExcludedWriters, UpsertShrinks DEF Skips
  <2>3. CASE pc'[b] = pc[b] /\ job'[b] = job[b]
    BY <1>3, <2>2, <2>3 DEF Skips, ExcludedAreSkipped
  <2>4. CASE CountRetries(b)
    BY <2>2, <2>4, CountSkips
  <2>5. CASE ReadGroup(b)
    BY <2>2, <2>5, ReadGroupMarks
  <2>6. CASE BatchStep(b) /\ ~CountRetries(b) /\ ~ReadGroup(b)
    BY <1>3, <2>1, <2>6, Sorts DEF BatchStep, ReadTemplate, CommitBatch, Step, Skips, Typed, TypeOK
  <2> QED BY <1>3, <2>3, <2>4, <2>5, <2>6, BatchMoves DEF Skips
<1>4. ExcludedAreSkipped'
  BY <1>3 DEF ExcludedAreSkipped
<1> QED BY <1>1, <1>2, <1>4 DEF Skips

LEMMA StepSkips ==
    ASSUME Skips, [Next]_vars, NEW b \in Batches, NEW r \in Reports, NEW t \in Targets,
           deliveries[<<b, r, t>>] = None, deliveries'[<<b, r, t>>] # None,
           job[b].order.respect, t \in excluded[b]
    PROVE  deliveries'[<<b, r, t>>].outcome = "skipped"
<1> DEFINE d == <<b, r, t>>
<1>1. d \in Deliveries /\ d[1] = b /\ d[3] = t
  BY DEF Deliveries
<1> HIDE DEF d
<1>2. PICK c \in Batches, o \in Outcomes :
             /\ CommitBatch(c)
             /\ <<d, o>> \in job[c].plan
             /\ d[1] = c
             /\ deliveries'[d] = [channel |-> job[c].channel, outcome |-> o,
                                  status |-> StatusOf(o), told |-> <<>>]
  BY <1>1, NewlyWritten DEF Skips, d
<1>3. pc[c] = "count" /\ c = b
  BY <1>1, <1>2 DEF CommitBatch, Step
<1>4. o = "skipped"
  BY <1>1, <1>2, <1>3 DEF Skips, ExcludedAreSkipped
<1> QED BY <1>2, <1>4 DEF d

\* Who is unsubscribed from before a batch comes in until it has written is sent nothing.
THEOREM UnsubscribedAreSkipped == Spec => UnsubscribedIsSkipped
<1>1. Init => Skips
  <2>1. Init => LookedUp /\ ExcludedStillAre /\ ExcludedAreSkipped
    BY Sorts DEF Init, LookedUp, ExcludedStillAre, ExcludedAreSkipped
  <2>2. Init => RowsHaveOwners
    BY DEF Init, RowsHaveOwners
  <2> QED BY <2>1, <2>2, InitTyped DEF Skips
<1>2. Skips /\ [Next]_vars =>
        [\A b \in Batches, r \in Reports, t \in Targets :
           (/\ deliveries[<<b, r, t>>] = None
            /\ deliveries'[<<b, r, t>>] # None
            /\ job[b].order.respect
            /\ t \in excluded[b])
           => deliveries'[<<b, r, t>>].outcome = "skipped"]_vars
  BY StepSkips
<1> QED
  BY <1>1, <1>2, SkipsKept, PTL DEF Spec, UnsubscribedIsSkipped

=============================================================================
