------------------------- MODULE AlertOutbox_proofs -------------------------
(* Proofs about AlertOutbox, for any subscriptions, evaluations, channels   *)
(* and retry limits.                                                        *)
EXTENDS AlertOutbox, TLAPS

-----------------------------------------------------------------------------
(* The invariant that holds for any number of dispatchers.                  *)

\* An evaluation that has not queued its events has none in the table.
NotYetQueued ==
    \A v \in Evaluations, s \in Subscriptions :
        evaluation[v].at # "done" => status[<<v, s>>] = None

\* An event that does not exist has not been delivered.
NothingBeforeQueued ==
    \A x \in Deliveries : status[x[1]] = None => sends[x] = 0

\* A dispatch has selected events that exist.
SelectedExist ==
    \A d \in Dispatchers : \A e \in selected[d] : status[e] # None

Inv ==
    /\ TypeOK
    /\ NotYetQueued
    /\ SelectedExist
    /\ NothingBeforeQueued
    /\ AttemptsCommitTogether
    /\ StaleCountIsBehind

-----------------------------------------------------------------------------

LEMMA CapIsNat == AttemptCap \in Nat /\ AttemptCap >= 2
BY MaxRetryLimitIsNat DEF AttemptCap

LEMMA DeliveryOfEvent ==
    /\ \A x \in Deliveries : x[1] \in Events /\ x[2] \in EventChannels(x[1])
    /\ \A e \in Events : \A c \in EventChannels(e) : <<e, c>> \in Deliveries
BY ChannelsOfSubscription DEF Deliveries, Events, EventChannels

LEMMA BumpRange ==
    ASSUME NEW cap \in Nat, NEW n \in 0..cap
    PROVE  /\ Bump(n, cap) \in 0..cap
           /\ n <= Bump(n, cap)
           /\ cap > 0 => Bump(n, cap) > 0
BY DEF Bump

LEMMA DispatchStatusRange ==
    ASSUME NEW setting, NEW number
    PROVE  DispatchStatus(setting, number) \in Outcomes
BY DEF DispatchStatus, Outcomes

LEMMA InitInv == Init => Inv
<1> SUFFICES ASSUME Init PROVE Inv
  OBVIOUS
<1>1. TypeOK
  BY CapIsNat DEF Init, TypeOK, NoSettings, Progress
<1> QED
  BY <1>1, DeliveryOfEvent, NoneIsNoValue
     DEF Init, Inv, NotYetQueued, SelectedExist, NothingBeforeQueued, AttemptsCommitTogether,
         StaleCountIsBehind, Events

\* Steps that leave the events and the dispatches alone.
LEMMA SettingsInv ==
    ASSUME Inv,
           \/ \E s \in Subscriptions : Subscribe(s)
           \/ \E c \in Channels, setting \in Settings : UpsertChannel(c, setting)
           \/ \E v \in Evaluations, triggered \in SUBSET active : Evaluate(v, triggered)
           \/ \E v \in Evaluations : LoseEvaluation(v)
    PROVE  Inv'
<1>1. UNCHANGED <<status, attempts, last, sends, pc, selected, settings, first>>
  BY DEF Subscribe, UpsertChannel, Evaluate, LoseEvaluation, localVars, tableVars
<1>2. TypeOK'
  <2>1. ASSUME NEW s \in Subscriptions, Subscribe(s) PROVE TypeOK'
    BY <1>1, <2>1 DEF Subscribe, Inv, TypeOK
  <2>2. ASSUME NEW c \in Channels, NEW setting \in Settings, UpsertChannel(c, setting)
        PROVE  TypeOK'
    BY <1>1, <2>2 DEF UpsertChannel, Inv, TypeOK
  <2>3. ASSUME NEW v \in Evaluations, NEW triggered \in SUBSET active,
               Evaluate(v, triggered)
        PROVE  TypeOK'
    BY <1>1, <2>3 DEF Evaluate, Inv, TypeOK, Progress
  <2>4. ASSUME NEW v \in Evaluations, LoseEvaluation(v) PROVE TypeOK'
    BY <1>1, <2>4 DEF LoseEvaluation, tableVars, Inv, TypeOK, Progress
  <2> QED
    BY <2>1, <2>2, <2>3, <2>4
<1>3. \A v \in Evaluations : evaluation'[v].at # "done" => evaluation[v].at # "done"
  BY DEF Subscribe, UpsertChannel, Evaluate, LoseEvaluation, Inv, TypeOK, Progress
<1>4. NotYetQueued'
  BY <1>1, <1>3 DEF Inv, NotYetQueued
<1> QED
  BY <1>1, <1>2, <1>4
     DEF Inv, SelectedExist, NothingBeforeQueued, AttemptsCommitTogether,
         StaleCountIsBehind

LEMMA QueueInv ==
    ASSUME Inv, NEW v \in Evaluations, QueueEvents(v)
    PROVE  Inv'
<1>1. /\ evaluation[v].at = "insert"
      /\ UNCHANGED <<active, channel, older, attempts, last, sends, pc,
                     selected, settings, first>>
      /\ status' = [e \in Events |->
                      IF e[1] = v /\ e[2] \in evaluation[v].triggered
                      THEN "queued" ELSE status[e]]
      /\ evaluation' = [evaluation EXCEPT ![v] = [at |-> "done", triggered |-> {}]]
  BY DEF QueueEvents, localVars
<1>2. TypeOK'
  BY <1>1 DEF Inv, TypeOK, Progress
<1>3. \A e \in Events : e[1] = v => status[e] = None
  BY <1>1 DEF Inv, NotYetQueued, Events
<1>4. NotYetQueued'
  BY <1>1 DEF Inv, TypeOK, NotYetQueued, Events, Progress
<1>5. NothingBeforeQueued'
  BY <1>1, DeliveryOfEvent, NoneIsNoValue DEF Inv, TypeOK, NothingBeforeQueued
<1>6. AttemptsCommitTogether'
  BY <1>1, <1>3 DEF Inv, TypeOK, AttemptsCommitTogether
<1>7. StaleCountIsBehind'
  BY <1>1 DEF Inv, StaleCountIsBehind
<1>8. SelectedExist'
  BY <1>1, NoneIsNoValue DEF Inv, TypeOK, SelectedExist
<1> QED
  BY <1>2, <1>4, <1>5, <1>6, <1>7, <1>8 DEF Inv

\* The steps of a dispatch before its transaction: they only read the tables.
LEMMA ReadInv ==
    ASSUME Inv, NEW d \in Dispatchers,
           \/ \E asked \in SUBSET Events : Select(d, asked)
           \/ ReadChannels(d)
           \/ CountFirst(d)
           \/ Lose(d)
    PROVE  Inv'
<1>1. UNCHANGED <<active, channel, status, older, attempts, last, sends, evaluation>>
  BY DEF Select, ReadChannels, CountFirst, Lose, tableVars
<1>2. TypeOK'
  <2>1. ASSUME NEW asked \in SUBSET Events, Select(d, asked) PROVE TypeOK'
    BY <1>1, <2>1 DEF Select, OldestOpen, Inv, TypeOK
  <2>2. ASSUME ReadChannels(d) PROVE TypeOK'
    BY <1>1, <2>2 DEF ReadChannels, Inv, TypeOK
  <2>3. ASSUME CountFirst(d) PROVE TypeOK'
    <3>1. CASE UNCHANGED first
      BY <1>1, <2>3, <3>1 DEF CountFirst, Inv, TypeOK
    <3>2. CASE \E e \in Worked(d) : \E c \in EventChannels(e) :
                  first' = [first EXCEPT ![d] =
                              [delivery |-> <<e, c>>, count |-> attempts[<<e, c>>]]]
      <4> PICK e \in Worked(d) : \E c \in EventChannels(e) :
                 first' = [first EXCEPT ![d] =
                             [delivery |-> <<e, c>>, count |-> attempts[<<e, c>>]]]
        BY <3>2
      <4> PICK c \in EventChannels(e) :
                 first' = [first EXCEPT ![d] =
                             [delivery |-> <<e, c>>, count |-> attempts[<<e, c>>]]]
        OBVIOUS
      <4>1. [delivery |-> <<e, c>>, count |-> attempts[<<e, c>>]] \in First
        BY DeliveryOfEvent DEF Inv, TypeOK, First, Worked
      <4> QED
        BY <1>1, <2>3, <4>1 DEF CountFirst, Inv, TypeOK
    <3> QED
      BY <2>3, <3>1, <3>2 DEF CountFirst
  <2>4. ASSUME Lose(d) PROVE TypeOK'
    BY <1>1, <2>4 DEF Lose, NoSettings, Inv, TypeOK
  <2> QED
    BY <2>1, <2>2, <2>3, <2>4
<1>3. StaleCountIsBehind'
  <2>1. ASSUME CountFirst(d) PROVE StaleCountIsBehind'
    <3>1. CASE UNCHANGED first
      BY <1>1, <3>1 DEF Inv, StaleCountIsBehind
    <3>2. CASE \E e \in Worked(d) : \E c \in EventChannels(e) :
                  first' = [first EXCEPT ![d] =
                              [delivery |-> <<e, c>>, count |-> attempts[<<e, c>>]]]
      <4> PICK e \in Worked(d) : \E c \in EventChannels(e) :
                 first' = [first EXCEPT ![d] =
                             [delivery |-> <<e, c>>, count |-> attempts[<<e, c>>]]]
        BY <3>2
      <4> PICK c \in EventChannels(e) :
                 first' = [first EXCEPT ![d] =
                             [delivery |-> <<e, c>>, count |-> attempts[<<e, c>>]]]
        OBVIOUS
      <4>1. attempts[<<e, c>>] \in Nat
        BY CapIsNat, DeliveryOfEvent DEF Inv, TypeOK, Worked
      <4> QED
        BY <1>1, <4>1 DEF Inv, TypeOK, StaleCountIsBehind
    <3> QED
      BY <2>1, <3>1, <3>2 DEF CountFirst
  <2>2. ASSUME Lose(d) PROVE StaleCountIsBehind'
    BY <1>1, <2>2 DEF Lose, Inv, TypeOK, StaleCountIsBehind
  <2>3. ASSUME (\E asked \in SUBSET Events : Select(d, asked)) \/ ReadChannels(d)
        PROVE  StaleCountIsBehind'
    BY <1>1, <2>3 DEF Select, ReadChannels, Inv, StaleCountIsBehind
  <2> QED
    BY <2>1, <2>2, <2>3
<1>4. SelectedExist'
  <2>1. \A asked \in SUBSET Events : \A chosen \in OldestOpen(asked) :
           \A e \in chosen : status[e] # None
    BY NoneIsNoValue DEF OldestOpen, Open
  <2>2. \A g \in Dispatchers : \/ selected'[g] = selected[g]
                              \/ \A e \in selected'[g] : status[e] # None
    BY <2>1 DEF Select, ReadChannels, CountFirst, Lose, Inv, TypeOK
  <2> QED
    BY <1>1, <2>2 DEF Inv, SelectedExist
<1> QED
  BY <1>1, <1>2, <1>3, <1>4
     DEF Inv, NotYetQueued, NothingBeforeQueued, AttemptsCommitTogether

\* What the transaction of a dispatch writes.
\* What a dispatch works is what it has selected, less the events that have no
\* channel.
LEMMA WorkedIsSelected ==
    ASSUME NEW d \in Dispatchers
    PROVE  Worked(d) \subseteq selected[d]
BY DEF Worked

LEMMA DeliverWrites ==
    ASSUME Inv, NEW d \in Dispatchers, Deliver(d)
    PROVE  /\ UNCHANGED <<active, channel, older, evaluation>>
           /\ \A e \in Events :
                 IF e \in Worked(d)
                 THEN status'[e] = IF EventSent(d, e) THEN "sent" ELSE "failed"
                 ELSE status'[e] = status[e]
           /\ \A x \in Deliveries :
                 IF x[1] \in Worked(d)
                 THEN /\ attempts'[x] = Bump(attempts[x], AttemptCap)
                      /\ sends'[x] = IF Outcome(d, x) = "sent"
                                      THEN Bump(sends[x], 2) ELSE sends[x]
                 ELSE attempts'[x] = attempts[x] /\ sends'[x] = sends[x]
           /\ \A x \in Deliveries : attempts[x] <= attempts'[x] /\ sends[x] <= sends'[x]
<1>1. \A x \in Deliveries : attempts[x] \in 0..AttemptCap /\ sends[x] \in 0..2
  BY DEF Inv, TypeOK
<1>2. \A x \in Deliveries : /\ attempts[x] <= Bump(attempts[x], AttemptCap)
                           /\ sends[x] <= Bump(sends[x], 2)
  BY <1>1, CapIsNat, BumpRange
<1>3. \A x \in Deliveries : attempts[x] <= attempts[x] /\ sends[x] <= sends[x]
  BY <1>1, CapIsNat
<1> QED
  BY <1>2, <1>3 DEF Deliver, Attempted

LEMMA DeliverInv ==
    ASSUME Inv, NEW d \in Dispatchers, Deliver(d)
    PROVE  Inv'
<1>1. TypeOK'
  <2>1. \A x \in Deliveries : /\ Bump(attempts[x], AttemptCap) \in 0..AttemptCap
                             /\ Bump(sends[x], 2) \in 0..2
    BY CapIsNat, BumpRange DEF Inv, TypeOK
  <2>2. \A x \in Deliveries : Outcome(d, x) \in Outcomes
    BY DispatchStatusRange DEF Outcome
  <2>3. attempts' \in [Deliveries -> 0..AttemptCap] /\ sends' \in [Deliveries -> 0..2]
    BY <2>1 DEF Deliver, Inv, TypeOK
  <2>4. last' \in [Deliveries -> Outcomes \cup {None}]
    BY <2>2 DEF Deliver, Inv, TypeOK
  <2>5. status' \in [Events -> {"queued", "sent", "failed", None}]
    BY DEF Deliver, Inv, TypeOK
  <2>6. /\ pc' \in [Dispatchers -> {"idle", "selected", "configured", "counted"}]
        /\ selected' \in [Dispatchers -> SUBSET Events]
        /\ settings' \in [Dispatchers -> [Channels -> Settings \cup {None}]]
        /\ first' \in [Dispatchers -> First \cup {None}]
    BY DEF Deliver, NoSettings, Inv, TypeOK
  <2> QED
    BY <2>3, <2>4, <2>5, <2>6 DEF Deliver, Inv, TypeOK
<1>2. \A e \in Events : e \in Worked(d) => status'[e] \in {"sent", "failed"}
  BY DeliverWrites
<1>3. NotYetQueued'
  <2> SUFFICES ASSUME NEW v \in Evaluations, NEW s \in Subscriptions,
                      evaluation[v].at # "done"
               PROVE  status'[<<v, s>>] = None
    BY DeliverWrites DEF NotYetQueued
  <2>1. status[<<v, s>>] = None /\ <<v, s>> \in Events
    BY DEF Inv, NotYetQueued, Events
  <2>2. <<v, s>> \notin Worked(d)
    BY <2>1 DEF Inv, SelectedExist, Worked
  <2> QED
    BY <2>1, <2>2, DeliverWrites
<1>4. \A g \in Dispatchers : selected'[g] \subseteq selected[g]
  BY DEF Deliver, Inv, TypeOK
<1>5. SelectedExist'
  <2>1. \A e \in Events : status[e] # None => status'[e] # None
    BY <1>2, DeliverWrites, NoneIsNoValue
  <2> QED
    BY <1>4, <2>1 DEF Inv, TypeOK, SelectedExist
<1>6. NothingBeforeQueued'
  BY <1>2, DeliverWrites, DeliveryOfEvent, NoneIsNoValue DEF Inv, NothingBeforeQueued
<1>7. AttemptsCommitTogether'
  <2> SUFFICES ASSUME NEW e \in Events
               PROVE  /\ status'[e] = "sent" => \E c \in EventChannels(e) : sends'[<<e, c>>] > 0
                      /\ status'[e] \in {"queued", None} =>
                            \A c \in EventChannels(e) : attempts'[<<e, c>>] = 0
                      /\ \A b, c \in EventChannels(e) :
                            attempts'[<<e, b>>] = attempts'[<<e, c>>]
    BY DEF AttemptsCommitTogether
  <2>1. CASE e \notin Worked(d)
    BY <2>1, DeliverWrites, DeliveryOfEvent DEF Inv, AttemptsCommitTogether
  <2>2. CASE e \in Worked(d)
    <3>1. status'[e] \notin {"queued", None}
      BY <1>2, <2>2, NoneIsNoValue
    <3>2. \A b, c \in EventChannels(e) : attempts'[<<e, b>>] = attempts'[<<e, c>>]
      BY <2>2, DeliverWrites, DeliveryOfEvent DEF Inv, AttemptsCommitTogether
    <3>3. ASSUME status'[e] = "sent"
          PROVE  \E c \in EventChannels(e) : sends'[<<e, c>>] > 0
      <4>1. EventSent(d, e)
        BY <2>2, <3>3, DeliverWrites
      <4>2. PICK x \in Deliveries : x[1] = e /\ Outcome(d, x) = "sent"
        BY <4>1 DEF EventSent, Attempted
      <4>3. x = <<e, x[2]>> /\ x[2] \in EventChannels(e)
        BY <4>2, DeliveryOfEvent DEF Deliveries
      <4>4. sends'[x] = Bump(sends[x], 2) /\ sends[x] \in 0..2
        BY <2>2, <4>2, DeliverWrites DEF Inv, TypeOK
      <4>5. sends'[x] > 0
        BY <4>4, BumpRange
      <4> QED
        BY <4>3, <4>5
    <3> QED
      BY <3>1, <3>2, <3>3
  <2> QED
    BY <2>1, <2>2
<1>8. StaleCountIsBehind'
  <2> SUFFICES ASSUME NEW g \in Dispatchers, first'[g] # None
               PROVE  first'[g].count <= attempts'[first'[g].delivery]
    BY DEF StaleCountIsBehind
  <2>1. first'[g] = first[g] /\ first[g] # None
    BY DEF Deliver, Inv, TypeOK
  <2>2. /\ first[g].delivery \in Deliveries /\ first[g].count \in Nat
        /\ first[g].count <= attempts[first[g].delivery]
    BY <2>1, CapIsNat DEF Inv, TypeOK, First, StaleCountIsBehind
  <2>3. /\ attempts[first[g].delivery] \in Nat /\ attempts'[first[g].delivery] \in Nat
        /\ attempts[first[g].delivery] <= attempts'[first[g].delivery]
    BY <1>1, <2>2, DeliverWrites, CapIsNat DEF Inv, TypeOK
  <2> QED
    BY <2>1, <2>2, <2>3
<1> QED
  BY <1>1, <1>3, <1>5, <1>6, <1>7, <1>8 DEF Inv

LEMMA RestartInv == Inv /\ Restart => Inv'
<1> SUFFICES ASSUME Inv, Restart PROVE Inv'
  OBVIOUS
<1>1. UNCHANGED tableVars
  BY DEF Restart
<1>2. TypeOK'
  BY DEF Restart, tableVars, NoSettings, Inv, TypeOK, Progress
<1>3. NotYetQueued'
  BY DEF Restart, tableVars, Inv, TypeOK, NotYetQueued
<1>4. SelectedExist' /\ StaleCountIsBehind'
  BY DEF Restart, SelectedExist, StaleCountIsBehind
<1> QED
  BY <1>1, <1>2, <1>3, <1>4
     DEF tableVars, Inv, NothingBeforeQueued, AttemptsCommitTogether

LEMMA NextInv == Inv /\ [Next]_vars => Inv'
<1> SUFFICES ASSUME Inv, [Next]_vars PROVE Inv'
  OBVIOUS
<1>1. CASE \/ \E s \in Subscriptions : Subscribe(s)
           \/ \E c \in Channels, setting \in Settings : UpsertChannel(c, setting)
           \/ \E v \in Evaluations, triggered \in SUBSET active : Evaluate(v, triggered)
           \/ \E v \in Evaluations : LoseEvaluation(v)
  BY <1>1, SettingsInv
<1>2. CASE \E v \in Evaluations : QueueEvents(v)
  BY <1>2, QueueInv
<1>3. CASE \E d \in Dispatchers : \/ \E asked \in SUBSET Events : Select(d, asked)
                                 \/ ReadChannels(d)
                                 \/ CountFirst(d)
                                 \/ Lose(d)
  BY <1>3, ReadInv
<1>4. CASE \E d \in Dispatchers : Deliver(d)
  BY <1>4, DeliverInv
<1>5. CASE Restart
  BY <1>5, RestartInv
<1>6. CASE UNCHANGED vars
  BY <1>6 DEF vars, Inv, TypeOK, NotYetQueued, SelectedExist, NothingBeforeQueued,
              AttemptsCommitTogether, StaleCountIsBehind
<1> QED
  BY <1>1, <1>2, <1>3, <1>4, <1>5, <1>6 DEF Next, Dispatch

\* The invariant of the outbox holds however dispatches overlap, fail and restart.
THEOREM Invariance == Spec => []Inv
<1>1. Init => Inv
  BY InitInv
<1>2. Inv /\ [Next]_vars => Inv'
  BY NextInv
<1> QED
  BY <1>1, <1>2, PTL DEF Spec

\* Every variable keeps its type.
THEOREM TypeCorrect == Spec => []TypeOK
<1>1. Inv => TypeOK
  BY DEF Inv
<1> QED
  BY <1>1, Invariance, PTL

\* Attempts and statuses commit together, however many dispatches overlap.
THEOREM AttemptsAndStatusAgree == Spec => []AttemptsCommitTogether
<1>1. Inv => AttemptsCommitTogether
  BY DEF Inv
<1> QED
  BY <1>1, Invariance, PTL

\* A count read outside the transaction is never ahead of the table.
THEOREM CountsLagBehind == Spec => []StaleCountIsBehind
<1>1. Inv => StaleCountIsBehind
  BY DEF Inv
<1> QED
  BY <1>1, Invariance, PTL

-----------------------------------------------------------------------------
(* Dispatches that do not overlap: what a dispatch has selected is still    *)
(* open when it commits, because only a dispatch closes an event.           *)

OneDispatcher == \A d, g \in Dispatchers : d = g

SelectedOpen ==
    \A d \in Dispatchers : \A e \in selected[d] : Open(e)

IdleSelectsNothing ==
    \A d \in Dispatchers : pc[d] = "idle" => selected[d] = {}

\* An open event has reached nobody.
OpenReachedNobody ==
    \A x \in Deliveries : Open(x[1]) => sends[x] = 0

SerialInv ==
    /\ Inv
    /\ SelectedOpen
    /\ IdleSelectsNothing
    /\ OpenReachedNobody
    /\ DeliveredOnce

LEMMA SerialInit == Init => SerialInv
<1> SUFFICES ASSUME Init PROVE SerialInv
  OBVIOUS
<1>1. Inv
  BY InitInv
<1> QED
  BY <1>1 DEF Init, SerialInv, SelectedOpen, IdleSelectsNothing, OpenReachedNobody,
              DeliveredOnce

LEMMA SerialDeliver ==
    ASSUME OneDispatcher, SerialInv, NEW d \in Dispatchers, Deliver(d)
    PROVE  /\ SelectedOpen' /\ IdleSelectsNothing' /\ OpenReachedNobody' /\ DeliveredOnce'
           /\ Delivery!Work(Worked(d), {x \in Attempted(d) : Outcome(d, x) = "sent"})
<1> USE DEF SerialInv
<1>1. \A g \in Dispatchers : selected'[g] = {}
  BY DEF Deliver, OneDispatcher, Inv, TypeOK
<1>2. \A x \in Attempted(d) : x \in Deliveries /\ x[1] \in Worked(d) /\ sends[x] = 0
  BY WorkedIsSelected DEF Attempted, SelectedOpen, OpenReachedNobody
<1>3. \A x \in Deliveries :
         sends'[x] = IF x \in Attempted(d) /\ Outcome(d, x) = "sent" THEN 1 ELSE sends[x]
  BY <1>2, DeliverWrites DEF Attempted, Bump
<1>4. OpenReachedNobody'
  <2> SUFFICES ASSUME NEW x \in Deliveries, Open(x[1])' PROVE sends'[x] = 0
    BY DEF OpenReachedNobody
  <2>1. x[1] \in Events
    BY DeliveryOfEvent
  <2>2. CASE x[1] \notin Worked(d)
    BY <2>1, <2>2, <1>3, DeliverWrites DEF Open, Attempted, OpenReachedNobody
  <2>3. CASE x[1] \in Worked(d)
    <3>1. ~ EventSent(d, x[1])
      BY <2>1, <2>3, DeliverWrites DEF Open
    <3>2. x \in Attempted(d) /\ Outcome(d, x) # "sent"
      BY <2>3, <3>1 DEF EventSent, Attempted
    <3> QED
      BY <1>2, <1>3, <3>2
  <2> QED
    BY <2>2, <2>3
<1>5. DeliveredOnce'
  BY <1>3 DEF DeliveredOnce
<1>6. Delivery!Work(Worked(d), {x \in Attempted(d) : Outcome(d, x) = "sent"})
  <2> DEFINE accepted == {x \in Attempted(d) : Outcome(d, x) = "sent"}
  <2>1. \A e \in Worked(d) : status[e] \in {"queued", "failed"}
    BY WorkedIsSelected DEF SelectedOpen, Open
  <2>2. \A x \in accepted : x[1] \in Worked(d) /\ sends[x] = 0
    BY <1>2
  <2>3. sends' = [x \in Deliveries |-> IF x \in accepted THEN 1 ELSE sends[x]]
    BY <1>3 DEF Deliver
  <2>4. \A e \in Events : EventSent(d, e) <=> \E x \in accepted : x[1] = e
    BY DEF EventSent
  <2>5. status' = [e \in Events |->
                     IF e \notin Worked(d) THEN status[e]
                     ELSE IF \E x \in accepted : x[1] = e THEN "sent" ELSE "failed"]
    BY <2>4 DEF Deliver
  <2> QED
    BY <2>1, <2>2, <2>3, <2>5 DEF Delivery!Work
<1> QED
  BY <1>1, <1>4, <1>5, <1>6 DEF SelectedOpen, IdleSelectsNothing

LEMMA SerialQueue ==
    ASSUME SerialInv, NEW v \in Evaluations, QueueEvents(v)
    PROVE  /\ SelectedOpen' /\ IdleSelectsNothing' /\ OpenReachedNobody' /\ DeliveredOnce'
           /\ \E batch \in SUBSET Events : Delivery!Queue(batch)
<1> USE DEF SerialInv
<1>1. /\ evaluation[v].at = "insert"
      /\ UNCHANGED <<sends, pc, selected>>
      /\ status' = [e \in Events |->
                      IF e[1] = v /\ e[2] \in evaluation[v].triggered
                      THEN "queued" ELSE status[e]]
  BY DEF QueueEvents, localVars
<1>2. \A e \in Events : e[1] = v => status[e] = None
  BY <1>1 DEF Inv, NotYetQueued, Events
<1>3. SelectedOpen'
  BY <1>1 DEF Inv, TypeOK, SelectedOpen, Open
<1>4. IdleSelectsNothing' /\ DeliveredOnce'
  BY <1>1 DEF IdleSelectsNothing, DeliveredOnce
<1>5. OpenReachedNobody'
  BY <1>1, <1>2, DeliveryOfEvent
     DEF OpenReachedNobody, Open, Inv, NothingBeforeQueued
<1>6. \E batch \in SUBSET Events : Delivery!Queue(batch)
  <2> DEFINE batch == {e \in Events : e[1] = v /\ e[2] \in evaluation[v].triggered}
  <2>1. Delivery!Queue(batch)
    BY <1>1, <1>2 DEF Delivery!Queue
  <2> QED
    BY <2>1
<1> QED
  BY <1>3, <1>4, <1>5, <1>6

\* Steps other than a queueing and a transaction change nothing outside sees.
LEMMA SerialOther ==
    ASSUME SerialInv, [Next]_vars,
           \A d \in Dispatchers : ~ Deliver(d),
           \A v \in Evaluations : ~ QueueEvents(v)
    PROVE  /\ SelectedOpen' /\ IdleSelectsNothing' /\ OpenReachedNobody' /\ DeliveredOnce'
           /\ UNCHANGED Delivery!vars
<1> USE DEF SerialInv
<1>1. UNCHANGED <<status, sends>>
  BY DEF Next, Dispatch, Subscribe, UpsertChannel, Evaluate, LoseEvaluation, Select,
         ReadChannels, CountFirst, Lose, Restart, vars, tableVars
<1>2. \A d \in Dispatchers :
         \/ pc'[d] = pc[d] /\ selected'[d] = selected[d]
         \/ pc'[d] # "idle" /\ selected'[d] = selected[d]
         \/ selected'[d] = {}
         \/ pc'[d] # "idle" /\ \A e \in selected'[d] : Open(e)
  <2> SUFFICES ASSUME NEW d \in Dispatchers
               PROVE  \/ pc'[d] = pc[d] /\ selected'[d] = selected[d]
                      \/ pc'[d] # "idle" /\ selected'[d] = selected[d]
                      \/ selected'[d] = {}
                      \/ pc'[d] # "idle" /\ \A e \in selected'[d] : Open(e)
    OBVIOUS
  <2> TypeOK
    BY DEF Inv
  <2>1. ASSUME NEW g \in Dispatchers, NEW asked \in SUBSET Events, Select(g, asked)
        PROVE  \/ pc'[d] = pc[d] /\ selected'[d] = selected[d]
               \/ pc'[d] # "idle" /\ \A e \in selected'[d] : Open(e)
    <3>1. \A chosen \in OldestOpen(asked) : \A e \in chosen : Open(e)
      BY DEF OldestOpen
    <3> QED
      BY <2>1, <3>1 DEF Select, TypeOK
  <2>2. ASSUME NEW g \in Dispatchers, ReadChannels(g) \/ CountFirst(g)
        PROVE  \/ pc'[d] = pc[d] /\ selected'[d] = selected[d]
               \/ pc'[d] # "idle" /\ selected'[d] = selected[d]
    BY <2>2 DEF ReadChannels, CountFirst, TypeOK
  <2>3. ASSUME NEW g \in Dispatchers, Lose(g)
        PROVE  (pc'[d] = pc[d] /\ selected'[d] = selected[d]) \/ selected'[d] = {}
    BY <2>3 DEF Lose, TypeOK
  <2>4. ASSUME Restart PROVE selected'[d] = {}
    BY <2>4 DEF Restart
  <2>5. ASSUME \/ \E s \in Subscriptions : Subscribe(s)
               \/ \E c \in Channels, setting \in Settings : UpsertChannel(c, setting)
               \/ \E v \in Evaluations, triggered \in SUBSET active : Evaluate(v, triggered)
               \/ \E v \in Evaluations : LoseEvaluation(v)
               \/ UNCHANGED vars
        PROVE  pc'[d] = pc[d] /\ selected'[d] = selected[d]
    BY <2>5 DEF Subscribe, UpsertChannel, Evaluate, LoseEvaluation, localVars, vars
  <2> QED
    BY <2>1, <2>2, <2>3, <2>4, <2>5 DEF Next, Dispatch
<1>3. SelectedOpen'
  BY <1>1, <1>2 DEF SelectedOpen, Open
<1>4. IdleSelectsNothing'
  BY <1>2 DEF IdleSelectsNothing
<1> QED
  BY <1>1, <1>3, <1>4 DEF OpenReachedNobody, Open, DeliveredOnce, Delivery!vars

\* Every step of a serial outbox is a step of the promise, or none.
LEMMA SerialStep ==
    ASSUME OneDispatcher, SerialInv, [Next]_vars
    PROVE  SerialInv' /\ [Delivery!Next]_(Delivery!vars)
<1>1. Inv'
  BY NextInv DEF SerialInv
<1>2. CASE \E d \in Dispatchers : Deliver(d)
  <2>1. PICK d \in Dispatchers : Deliver(d)
    BY <1>2
  <2> DEFINE accepted == {x \in Attempted(d) : Outcome(d, x) = "sent"}
  <2>2. Worked(d) \in SUBSET Events /\ accepted \in SUBSET Deliveries
    BY WorkedIsSelected DEF SerialInv, Inv, TypeOK, Attempted
  <2>3. Delivery!Work(Worked(d), accepted)
    BY <2>1, SerialDeliver
  <2>4. Delivery!Next
    BY <2>2, <2>3 DEF Delivery!Next
  <2> QED
    BY <1>1, <2>1, <2>4, SerialDeliver DEF SerialInv
<1>3. CASE \E v \in Evaluations : QueueEvents(v)
  BY <1>1, <1>3, SerialQueue DEF SerialInv, Delivery!Next
<1>4. CASE /\ \A d \in Dispatchers : ~ Deliver(d)
           /\ \A v \in Evaluations : ~ QueueEvents(v)
  BY <1>1, <1>4, SerialOther DEF SerialInv
<1> QED
  BY <1>2, <1>3, <1>4

\* With one dispatcher no delivery is repeated and a failed event, which a later
\* dispatch will work again, has reached nobody.
THEOREM SerialSafety ==
    ASSUME OneDispatcher
    PROVE  Spec => [](DeliveredOnce /\ FailedReachedNobody)
<1>1. Init => SerialInv
  BY SerialInit
<1>2. SerialInv /\ [Next]_vars => SerialInv'
  BY SerialStep
<1>3. SerialInv => DeliveredOnce /\ FailedReachedNobody
  BY DeliveryOfEvent DEF SerialInv, FailedReachedNobody, OpenReachedNobody, Open
<1> QED
  BY <1>1, <1>2, <1>3, PTL DEF Spec

\* With one dispatcher the outbox implements the abstract delivery.
THEOREM SerialOutboxDelivers ==
    ASSUME OneDispatcher
    PROVE  Spec => DeliversAsPromised
<1>1. Init => SerialInv
  BY SerialInit
<1>2. SerialInv /\ [Next]_vars => SerialInv' /\ [Delivery!Next]_(Delivery!vars)
  BY SerialStep
<1>3. Init => Delivery!Init
  BY DEF Init, Delivery!Init
<1> QED
  BY <1>1, <1>2, <1>3, PTL DEF Spec, DeliversAsPromised, Delivery!Spec

\* With one dispatcher an event that has been sent stays sent.
THEOREM SerialSentIsFinal ==
    ASSUME OneDispatcher
    PROVE  Spec => SentIsFinal
<1> DEFINE Final == \A e \in Events : status[e] = "sent" => status'[e] = "sent"
<1>1. Init => SerialInv
  BY SerialInit
<1>2. SerialInv /\ [Next]_vars => SerialInv' /\ [Final]_vars
  <2> SUFFICES ASSUME SerialInv, [Next]_vars PROVE SerialInv' /\ Final
    OBVIOUS
  <2>1. SerialInv' /\ [Delivery!Next]_(Delivery!vars)
    BY SerialStep
  <2>2. ASSUME NEW batch \in SUBSET Events, Delivery!Queue(batch) PROVE Final
    BY <2>2, NoneIsNoValue DEF Delivery!Queue
  <2>3. ASSUME NEW batch \in SUBSET Events, NEW accepted \in SUBSET Deliveries,
               Delivery!Work(batch, accepted)
        PROVE  Final
    BY <2>3 DEF Delivery!Work
  <2>4. ASSUME UNCHANGED Delivery!vars PROVE Final
    BY <2>4 DEF Delivery!vars
  <2> QED
    BY <2>1, <2>2, <2>3, <2>4 DEF Delivery!Next
<1> QED
  BY <1>1, <1>2, PTL DEF Spec, SentIsFinal

=============================================================================
