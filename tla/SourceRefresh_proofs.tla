------------------------ MODULE SourceRefresh_proofs ------------------------
(* Theorems about SourceRefresh, for every value of its constants.          *)
EXTENDS SourceRefresh, FiniteSetTheorems, TLAPS

\* What a thread holds at each of its steps.
Holds(t) ==
    /\ pc[t] \in {"count", "record"} => provider[t] \in Policies
    /\ pc[t] \in {"idle", "take"} => doing[t] = None
    /\ pc[t] \notin {"idle", "take"} => doing[t] \in Sources
    /\ pc[t] \notin {"review", "run"} => result[t] = None
    /\ pc[t] = "review" => result[t] # None
    /\ pc[t] = "idle" => queue[t] = {}
    /\ doing[t] \notin queue[t]

ThreadInv == \A t \in Threads : Holds(t)

Inv == TypeOK /\ ThreadInv

-----------------------------------------------------------------------------
(* Type correctness.                                                        *)

LEMMA InitInv == Init => Inv
BY NoneIsNoValue DEF Init, Inv, TypeOK, ThreadInv, Holds, Steps

\* A request that ends leaves nothing behind.
LEMMA LeaveKeepsInv ==
    ASSUME Inv, NEW t \in Threads, Leave(t), UNCHANGED tableVars
    PROVE  Inv'
<1> USE DEF Inv
<1>1. TypeOK'
  BY DEF TypeOK, Leave, tableVars, Steps
<1>2. ThreadInv'
  <2> SUFFICES ASSUME NEW u \in Threads PROVE Holds(u)'
    BY DEF ThreadInv
  <2>1. CASE u = t
    BY <2>1 DEF Holds, Leave, TypeOK
  <2>2. CASE u # t
    BY <2>2 DEF ThreadInv, Holds, Leave, TypeOK
  <2> QED  BY <2>1, <2>2
<1> QED  BY <1>1, <1>2

\* A refusal hands the monitor to its failed run, or ends an ingestion.
LEMMA RefuseKeepsInv ==
    ASSUME Inv, NEW t \in Threads, Refuse(t), UNCHANGED tableVars,
           pc[t] \in {"policy", "count", "fetch"}
    PROVE  Inv'
<1>1. CASE mode[t] = "ingest"
  BY <1>1, LeaveKeepsInv DEF Refuse
<1>2. CASE mode[t] # "ingest"
  <2>1. TypeOK'
    BY <1>2 DEF Inv, TypeOK, Refuse, tableVars, Steps
  <2>2. ThreadInv'
    <3> SUFFICES ASSUME NEW u \in Threads PROVE Holds(u)'
      BY DEF ThreadInv
    <3>1. Holds(u)
      BY DEF Inv, ThreadInv
    <3>2. CASE u = t
      BY <1>2, <3>1, <3>2 DEF Inv, Holds, Refuse, TypeOK
    <3>3. CASE u # t
      BY <1>2, <3>1, <3>3 DEF Inv, Holds, Refuse, TypeOK
    <3> QED  BY <3>2, <3>3
  <2> QED  BY <2>1, <2>2 DEF Inv
<1> QED  BY <1>1, <1>2

\* Of the statements that change no request.
LEMMA TablesKeepInv ==
    ASSUME Inv,
           \/ \E s \in Sources : CreateMonitor(s)
           \/ \E p \in Policies : CreatePolicy(p)
           \/ \E i \in Items, status \in {"pending", "approved", "rejected"} :
                 DecideReview(i, status)
           \/ Tick
    PROVE  Inv'
<1> USE DEF Inv
<1>1. ThreadInv'
  <2>1. UNCHANGED <<pc, requestVars>>
    BY DEF CreateMonitor, CreatePolicy, DecideReview, Tick
  <2> QED  BY <2>1 DEF requestVars, ThreadInv, Holds
<1>2. ASSUME NEW s \in Sources, CreateMonitor(s) PROVE TypeOK'
  <2>1. Cardinality(Created) \in Nat
    BY FiniteSources, FS_Subset, FS_CardinalityType DEF Created
  <2> QED  BY <1>2, <2>1 DEF TypeOK, CreateMonitor, requestVars
<1>3. ASSUME NEW p \in Policies, CreatePolicy(p) PROVE TypeOK'
  <2> DEFINE made == {q \in Policies : policyBorn[q] # 0}
  <2>1. Cardinality(made) \in Nat
    BY FiniteSources, FS_Subset, FS_CardinalityType
  <2>2. policyBorn' \in [Policies -> Nat]
    BY <1>3, <2>1 DEF TypeOK, CreatePolicy
  <2> QED  BY <1>3, <2>2 DEF TypeOK, CreatePolicy, requestVars
<1>4. ASSUME NEW i \in Items, NEW status \in {"pending", "approved", "rejected"},
             DecideReview(i, status)
      PROVE  TypeOK'
  <2>1. review[i] \in Review
    BY <1>4 DEF TypeOK, DecideReview
  <2>2. [review[i] EXCEPT !.status = status] \in Review
    BY <2>1 DEF Review
  <2>3. review' \in [Items -> Review \cup {None}]
    BY <1>4, <2>2 DEF TypeOK, DecideReview
  <2> QED  BY <1>4, <2>3 DEF TypeOK, DecideReview, requestVars
<1>5. ASSUME Tick PROVE TypeOK'
  <2>1. sinceRun' \in [Sources -> 0..Cadence \cup {None}]
    <3> SUFFICES ASSUME NEW s \in Sources, sinceRun[s] \notin {None, Cadence}
                 PROVE  sinceRun[s] + 1 \in 0..Cadence
      BY <1>5 DEF TypeOK, Tick
    <3>1. sinceRun[s] \in 0..Cadence
      BY DEF TypeOK
    <3> QED  BY <3>1, NumbersArePositive
  <2>2. log' \in [Fetches -> LogRow \cup {None}]
    <3> SUFFICES ASSUME NEW f \in Fetches, log[f] # None, log[f].age # Hour
                 PROVE  [log[f] EXCEPT !.age = @ + 1] \in LogRow
      BY <1>5 DEF TypeOK, Tick
    <3>1. log[f] \in LogRow
      BY DEF TypeOK
    <3>2. log[f].age \in 0..Hour
      BY <3>1 DEF LogRow
    <3>3. log[f].age + 1 \in 0..Hour
      BY <3>2, NumbersArePositive
    <3> QED  BY <3>1, <3>3 DEF LogRow
  <2> QED  BY <1>5, <2>1, <2>2 DEF TypeOK, Tick, requestVars
<1> QED  BY <1>1, <1>2, <1>3, <1>4, <1>5

\* Each remaining action changes what one thread holds.
LEMMA RequestKeepsInv ==
    ASSUME Inv, NEW t \in Threads,
           \/ \E ids \in SUBSET Sources, inactive, due \in BOOLEAN, html \in Htmls :
                 StartRefresh(t, ids, inactive, due, html)
           \/ \E s \in Sources, html \in {{}, Sources} : StartIngest(t, s, html)
           \/ Take(t)
           \/ RecordRun(t)
    PROVE  Inv'
<1> USE DEF Inv
<1>0. Holds(t) /\ \A u \in Threads : Holds(u)
  BY DEF ThreadInv
<1>1. ASSUME NEW ids \in SUBSET Sources, NEW inactive \in BOOLEAN, NEW due \in BOOLEAN,
             NEW html \in Htmls, StartRefresh(t, ids, inactive, due, html)
      PROVE  Inv'
  <2>1. Selected(ids, inactive, due) \subseteq Sources
    BY DEF Selected, Listed, Created
  <2>2. TypeOK'
    BY <1>1, <2>1 DEF TypeOK, StartRefresh, tableVars, Steps, Htmls
  <2>3. ASSUME NEW u \in Threads PROVE Holds(u)'
    <3>1. CASE u = t
      BY <1>0, <1>1, <2>1, <3>1, NoneIsNoValue DEF TypeOK, StartRefresh, tableVars, Holds
    <3>2. CASE u # t
      BY <1>0, <1>1, <3>2 DEF TypeOK, StartRefresh, tableVars, Holds
    <3> QED  BY <3>1, <3>2
  <2> QED  BY <2>2, <2>3 DEF ThreadInv
<1>2. ASSUME NEW s \in Sources, NEW html \in {{}, Sources}, StartIngest(t, s, html)
      PROVE  Inv'
  <2>1. TypeOK'
    BY <1>2 DEF TypeOK, StartIngest, tableVars, Steps
  <2>2. ASSUME NEW u \in Threads PROVE Holds(u)'
    <3>1. CASE u = t
      BY <1>0, <1>2, <3>1 DEF TypeOK, StartIngest, tableVars, Holds
    <3>2. CASE u # t
      BY <1>0, <1>2, <3>2 DEF TypeOK, StartIngest, tableVars, Holds
    <3> QED  BY <3>1, <3>2
  <2> QED  BY <2>1, <2>2 DEF ThreadInv
<1>3. ASSUME Take(t) PROVE Inv'
  <2>1. PICK s \in queue[t] :
           /\ queue' = [queue EXCEPT ![t] = @ \ {s}]
           /\ doing' = [doing EXCEPT ![t] = s]
           /\ pc' = [pc EXCEPT ![t] = IF s \in blank[t] THEN "policy" ELSE "fetch"]
    BY <1>3 DEF Take
  <2>2. s \in Sources
    BY DEF TypeOK
  <2>3. TypeOK'
    BY <1>3, <2>1, <2>2 DEF TypeOK, Take, tableVars, Steps
  <2>4. ASSUME NEW u \in Threads PROVE Holds(u)'
    <3>1. CASE u = t
      BY <1>0, <1>3, <2>1, <2>2, <3>1 DEF TypeOK, Take, tableVars, Holds
    <3>2. CASE u # t
      BY <1>0, <1>3, <2>1, <3>2 DEF TypeOK, Take, tableVars, Holds
    <3> QED  BY <3>1, <3>2
  <2> QED  BY <2>3, <2>4 DEF ThreadInv
<1>4. ASSUME RecordRun(t) PROVE Inv'
  <2>1. SourceId(result[t]) \in Keys \cup {None}
    BY DEF TypeOK, SourceId, Candidates
  <2>2. TypeOK'
    <3>1. 0 \in 0..Cadence
      BY NumbersArePositive
    <3>2. sinceRun' \in [Sources -> 0..Cadence \cup {None}]
      BY <1>4, <3>1 DEF TypeOK, RecordRun
    <3>3. lastSource' \in [Sources -> Keys \cup {None}]
      BY <1>4, <2>1 DEF TypeOK, RecordRun
    <3> QED  BY <1>4, <3>2, <3>3 DEF TypeOK, RecordRun, Steps
  <2>3. ASSUME NEW u \in Threads PROVE Holds(u)'
    <3>1. CASE u = t
      <4>1. None \notin queue[t]
        BY NoneIsNoValue DEF TypeOK
      <4> QED  BY <1>0, <1>4, <3>1, <4>1 DEF TypeOK, RecordRun, Holds
    <3>2. CASE u # t
      BY <1>0, <1>4, <3>2 DEF TypeOK, RecordRun, Holds
    <3> QED  BY <3>1, <3>2
  <2> QED  BY <2>2, <2>3 DEF ThreadInv
<1> QED  BY <1>1, <1>2, <1>3, <1>4

LEMMA GateKeepsInv ==
    ASSUME Inv, NEW t \in Threads, Gate(t)
    PROVE  Inv'
<1>0. Holds(t) /\ \A u \in Threads : Holds(u)
  BY DEF Inv, ThreadInv
<1>1. ASSUME ReadPolicy(t) PROVE Inv'
  <2>1. CASE Refuse(t)
    BY <1>1, <2>1, RefuseKeepsInv DEF ReadPolicy
  <2>2. ASSUME NEW p \in Governing(doing[t]) \cap Approved,
               provider' = [provider EXCEPT ![t] = p],
               pc' = [pc EXCEPT ![t] = "count"],
               UNCHANGED <<mode, blank, queue, doing, result>>
        PROVE  Inv'
    <3>1. p \in Policies
      BY PolicyConstants
    <3>2. TypeOK'
      BY <1>1, <2>2, <3>1 DEF Inv, TypeOK, ReadPolicy, tableVars, Steps
    <3>3. ASSUME NEW u \in Threads PROVE Holds(u)'
      <4>1. CASE u = t
        BY <1>0, <1>1, <2>2, <3>1, <4>1 DEF Inv, TypeOK, ReadPolicy, Holds
      <4>2. CASE u # t
        BY <1>0, <1>1, <2>2, <4>2 DEF Inv, TypeOK, ReadPolicy, Holds
      <4> QED  BY <4>1, <4>2
    <3> QED  BY <3>2, <3>3 DEF Inv, ThreadInv
  <2> QED  BY <1>1, <2>1, <2>2 DEF ReadPolicy
<1>2. ASSUME CountFetches(t) PROVE Inv'
  <2>1. CASE Refuse(t)
    BY <1>2, <2>1, RefuseKeepsInv DEF CountFetches
  <2>2. CASE pc' = [pc EXCEPT ![t] = "record"] /\ UNCHANGED requestVars
    <3>1. TypeOK'
      BY <1>2, <2>2 DEF Inv, TypeOK, CountFetches, tableVars, requestVars, Steps
    <3>2. ASSUME NEW u \in Threads PROVE Holds(u)'
      <4>1. CASE u = t
        BY <1>0, <1>2, <2>2, <4>1 DEF Inv, TypeOK, CountFetches, requestVars, Holds
      <4>2. CASE u # t
        BY <1>0, <1>2, <2>2, <4>2 DEF Inv, TypeOK, CountFetches, requestVars, Holds
      <4> QED  BY <4>1, <4>2
    <3> QED  BY <3>1, <3>2 DEF Inv, ThreadInv
  <2> QED  BY <1>2, <2>1, <2>2 DEF CountFetches
<1>3. ASSUME RecordFetch(t) PROVE Inv'
  <2>1. [policy |-> provider[t], age |-> 0] \in LogRow
    BY <1>0, <1>3, NumbersArePositive DEF RecordFetch, Holds, LogRow
  <2>2. TypeOK'
    BY <1>3, <2>1 DEF Inv, TypeOK, RecordFetch, Steps
  <2>3. ASSUME NEW u \in Threads PROVE Holds(u)'
    <3>1. CASE u = t
      BY <1>0, <1>3, <3>1 DEF Inv, TypeOK, RecordFetch, Holds
    <3>2. CASE u # t
      BY <1>0, <1>3, <3>2 DEF Inv, TypeOK, RecordFetch, Holds
    <3> QED  BY <3>1, <3>2
  <2> QED  BY <2>2, <2>3 DEF Inv, ThreadInv
<1> QED  BY <1>1, <1>2, <1>3 DEF Gate

LEMMA PageKeepsInv ==
    ASSUME Inv, NEW t \in Threads, Page(t)
    PROVE  Inv'
<1>0. Holds(t) /\ \A u \in Threads : Holds(u)
  BY DEF Inv, ThreadInv
<1>1. ASSUME FetchPage(t) PROVE Inv'
  <2>1. PICK candidate \in Candidates : result' = [result EXCEPT ![t] = candidate]
    BY <1>1 DEF FetchPage
  <2>2. TypeOK'
    BY <1>1, <2>1 DEF Inv, TypeOK, FetchPage, tableVars, Steps
  <2>3. ASSUME NEW u \in Threads PROVE Holds(u)'
    <3>1. CASE u = t
      BY <1>0, <1>1, <2>1, <3>1, NoneIsNoValue DEF Inv, TypeOK, FetchPage, Holds
    <3>2. CASE u # t
      BY <1>0, <1>1, <2>1, <3>2 DEF Inv, TypeOK, FetchPage, Holds
    <3> QED  BY <3>1, <3>2
  <2> QED  BY <2>2, <2>3 DEF Inv, ThreadInv
<1>2. ASSUME FetchFails(t) PROVE Inv'
  BY <1>2, RefuseKeepsInv DEF FetchFails
<1>3. ASSUME FetchAborts(t) PROVE Inv'
  BY <1>3, LeaveKeepsInv DEF FetchAborts
<1>4. ASSUME AddReviewItem(t) PROVE Inv'
  <2> DEFINE item == <<doing[t], result[t].key>>
  <2>1. result[t] \in Candidates /\ doing[t] \in Sources
    BY <1>0, <1>4 DEF Inv, TypeOK, AddReviewItem, Holds
  <2>2. item \in Items
    BY <2>1 DEF Items, Candidates
  <2>3. QueuedAs(item, result[t]) \in Review
    BY <2>1, <2>2 DEF Inv, TypeOK, QueuedAs, Review, Candidates
  <2>4. review' \in [Items -> Review \cup {None}]
    BY <1>4, <2>3 DEF Inv, TypeOK, AddReviewItem
  <2>5. TypeOK'
    BY <1>4, <2>4 DEF Inv, TypeOK, AddReviewItem, Leave, requestVars, Steps
  <2>6. ASSUME NEW u \in Threads PROVE Holds(u)'
    <3>1. CASE u = t
      BY <1>0, <1>4, <3>1 DEF Inv, TypeOK, AddReviewItem, Leave, requestVars, Holds
    <3>2. CASE u # t
      BY <1>0, <1>4, <3>2 DEF Inv, TypeOK, AddReviewItem, Leave, requestVars, Holds
    <3> QED  BY <3>1, <3>2
  <2> QED  BY <2>5, <2>6 DEF Inv, ThreadInv
<1> QED  BY <1>1, <1>2, <1>3, <1>4 DEF Page

LEMMA RestartKeepsInv ==
    ASSUME Inv, Restart
    PROVE  Inv'
<1>1. TypeOK'
  BY DEF Inv, TypeOK, Restart, tableVars, Steps
<1>2. ThreadInv'
  BY DEF Inv, TypeOK, Restart, ThreadInv, Holds
<1> QED  BY <1>1, <1>2 DEF Inv

LEMMA NextKeepsInv ==
    ASSUME Inv, [Next]_vars
    PROVE  Inv'
<1>1. CASE UNCHANGED vars
  BY <1>1 DEF vars, Inv, TypeOK, ThreadInv, Holds
<1>2. ASSUME NEW t \in Threads, Answer(t) \/ Fail(t) PROVE Inv'
  BY <1>2, LeaveKeepsInv DEF Answer, Fail
<1> QED
  BY <1>1, <1>2, TablesKeepInv, RequestKeepsInv, GateKeepsInv, PageKeepsInv, RestartKeepsInv
  DEF Next, Work, Step

\* Every reachable state is well typed, and a thread holds what its step needs.
THEOREM TypeCorrect == Spec => []TypeOK
<1>1. Spec => []Inv
  BY InitInv, NextKeepsInv, PTL DEF Spec
<1> QED  BY <1>1, PTL DEF Inv

LEMMA Invariance == Spec => []Inv
BY InitInv, NextKeepsInv, PTL DEF Spec

-----------------------------------------------------------------------------
(* The quota.  A thread that has been admitted and has not recorded its     *)
(* fetch is pending; rows and pending threads together stay within bounds.  *)

Rows(p) == {f \in Fetches : log[f] # None /\ log[f].policy = p}
Pending(p) == {t \in Threads : pc[t] = "record" /\ provider[t] = p}
Bound(p) == Quota[p] + Cardinality(Threads) - 1

QuotaInv == \A p \in Policies : Cardinality(Rows(p)) + Cardinality(Pending(p)) <= Bound(p)

LEMMA Numbers ==
    ASSUME NEW p \in Policies
    PROVE  /\ IsFiniteSet(Rows(p)) /\ Cardinality(Rows(p)) \in Nat
           /\ IsFiniteSet(Rows(p)') /\ Cardinality(Rows(p)') \in Nat
           /\ IsFiniteSet(Pending(p)) /\ Cardinality(Pending(p)) \in Nat
           /\ Cardinality(Pending(p)') \in Nat
           /\ Cardinality(Pending(p)') <= Cardinality(Threads)
           /\ Cardinality(Threads) \in Nat
           /\ Quota[p] \in Nat \ {0}
<1>1. Rows(p) \subseteq Fetches /\ Rows(p)' \subseteq Fetches
  BY DEF Rows
<1>2. Pending(p) \subseteq Threads /\ Pending(p)' \subseteq Threads
  BY DEF Pending
<1>3. Quota[p] \in Nat \ {0}
  BY PolicyConstants
<1> QED  BY <1>1, <1>2, <1>3, FiniteThreads, FS_Subset, FS_CardinalityType

\* Steps that record nothing and admit nobody keep the sum.
LEMMA NoMoreKeepsQuota ==
    ASSUME QuotaInv, NEW p \in Policies,
           Rows(p)' \subseteq Rows(p), Pending(p)' \subseteq Pending(p)
    PROVE  Cardinality(Rows(p)') + Cardinality(Pending(p)') <= Bound(p)
<1>1. Cardinality(Rows(p)') <= Cardinality(Rows(p))
  BY Numbers, FS_Subset
<1>2. Cardinality(Pending(p)') <= Cardinality(Pending(p))
  BY Numbers, FS_Subset
<1> QED  BY <1>1, <1>2, Numbers DEF QuotaInv, Bound

LEMMA InitQuota == Init => QuotaInv
<1> SUFFICES ASSUME Init, NEW p \in Policies
             PROVE  Cardinality(Rows(p)) + Cardinality(Pending(p)) <= Bound(p)
  BY DEF QuotaInv
<1>1. Rows(p) = {} /\ Pending(p) = {}
  BY DEF Init, Rows, Pending
<1>2. Cardinality(Rows(p)) = 0 /\ Cardinality(Pending(p)) = 0
  BY <1>1, FS_EmptySet
<1> QED  BY <1>2, Numbers DEF Bound

\* A step that leaves the log alone, or shortens it, and turns no thread to
\* "record" admits nobody.
LEMMA QuietKeepsQuota ==
    ASSUME Inv, QuotaInv,
           \A f \in Fetches : log'[f] # None => log[f] # None /\ log'[f].policy = log[f].policy,
           \A u \in Threads : pc'[u] = "record" => pc[u] = "record" /\ provider'[u] = provider[u]
    PROVE  QuotaInv'
<1> SUFFICES ASSUME NEW p \in Policies
             PROVE  Cardinality(Rows(p)') + Cardinality(Pending(p)') <= Bound(p)
  BY DEF QuotaInv, Bound
<1>1. Rows(p)' \subseteq Rows(p)
  BY DEF Rows
<1>2. Pending(p)' \subseteq Pending(p)
  BY DEF Pending
<1> QED  BY <1>1, <1>2, NoMoreKeepsQuota

\* Any admission leaves the rows below the quota and at most all threads pending.
LEMMA CountKeepsQuota ==
    ASSUME Inv, QuotaInv, NEW t \in Threads, CountFetches(t),
           Used(provider[t]) < Quota[provider[t]],
           pc' = [pc EXCEPT ![t] = "record"], UNCHANGED requestVars
    PROVE  QuotaInv'
<1> SUFFICES ASSUME NEW p \in Policies
             PROVE  Cardinality(Rows(p)') + Cardinality(Pending(p)') <= Bound(p)
  BY DEF QuotaInv, Bound
<1>1. Rows(p)' = Rows(p)
  BY DEF CountFetches, tableVars, Rows
<1>2. CASE p = provider[t]
  <2>1. Cardinality(Rows(p)) < Quota[p]
    BY <1>2 DEF Used, Rows
  <2> QED  BY <1>1, <2>1, Numbers DEF Bound
<1>3. CASE p # provider[t]
  <2>1. Pending(p)' \subseteq Pending(p)
    BY <1>3 DEF Pending, requestVars, Inv, TypeOK
  <2> QED  BY <1>1, <2>1, NoMoreKeepsQuota
<1> QED  BY <1>2, <1>3

\* Recording turns a pending thread into a row.
LEMMA RecordKeepsQuota ==
    ASSUME Inv, QuotaInv, NEW t \in Threads, RecordFetch(t)
    PROVE  QuotaInv'
<1> SUFFICES ASSUME NEW p \in Policies
             PROVE  Cardinality(Rows(p)') + Cardinality(Pending(p)') <= Bound(p)
  BY DEF QuotaInv, Bound
<1>1. PICK f \in Fetches :
         log[f] = None /\ log' = [log EXCEPT ![f] = [policy |-> provider[t], age |-> 0]]
  BY DEF RecordFetch
<1>2. [policy |-> provider[t], age |-> 0] # None
  <2>1. provider[t] \in Policies
    BY DEF Inv, ThreadInv, Holds, RecordFetch
  <2>2. [policy |-> provider[t], age |-> 0] \in LogRow
    BY <2>1, NumbersArePositive DEF LogRow
  <2> QED  BY <2>2, NoneIsNoValue
<1>3. Pending(p)' = Pending(p) \ {t}
  BY DEF RecordFetch, Pending, Inv, TypeOK
<1>4. CASE p = provider[t]
  <2>1. Rows(p)' = Rows(p) \cup {f} /\ f \notin Rows(p)
    BY <1>1, <1>2, <1>4 DEF Rows, Inv, TypeOK
  <2>2. t \in Pending(p)
    BY <1>4 DEF RecordFetch, Pending
  <2>3. Cardinality(Rows(p)') = Cardinality(Rows(p)) + 1
    BY <2>1, Numbers, FS_AddElement
  <2>4. Cardinality(Pending(p)') = Cardinality(Pending(p)) - 1
    BY <1>3, <2>2, Numbers, FS_RemoveElement
  <2> QED  BY <2>3, <2>4, Numbers DEF QuotaInv, Bound
<1>5. CASE p # provider[t]
  <2>1. Rows(p)' \subseteq Rows(p)
    BY <1>1, <1>2, <1>5 DEF Rows, Inv, TypeOK
  <2> QED  BY <1>3, <2>1, NoMoreKeepsQuota
<1> QED  BY <1>4, <1>5

\* Nothing but CountFetches turns a thread to "record", nothing but RecordFetch
\* adds a row.
LEMMA NextKeepsQuota ==
    ASSUME Inv, QuotaInv, [Next]_vars
    PROVE  QuotaInv'
<1>1. ASSUME Tick PROVE QuotaInv'
  <2>1. \A f \in Fetches : log'[f] # None => log[f] # None /\ log'[f].policy = log[f].policy
    <3> SUFFICES ASSUME NEW f \in Fetches, log'[f] # None
                 PROVE  log[f] # None /\ log'[f].policy = log[f].policy
      OBVIOUS
    <3>1. log[f] # None /\ log'[f] = [log[f] EXCEPT !.age = @ + 1]
      BY <1>1 DEF Tick
    <3>2. log[f] \in LogRow
      BY <3>1 DEF Inv, TypeOK
    <3> QED  BY <3>1, <3>2 DEF LogRow
  <2> QED  BY <1>1, <2>1, QuietKeepsQuota DEF Tick, requestVars
<1>2. ASSUME UNCHANGED log,
             \A u \in Threads : pc'[u] = "record" => pc[u] = "record" /\ provider'[u] = provider[u]
      PROVE  QuotaInv'
  BY <1>2, QuietKeepsQuota
<1>3. ASSUME \/ UNCHANGED vars
             \/ \E s \in Sources : CreateMonitor(s)
             \/ \E p \in Policies : CreatePolicy(p)
             \/ \E i \in Items, status \in {"pending", "approved", "rejected"} :
                   DecideReview(i, status)
      PROVE  QuotaInv'
  <2>1. UNCHANGED <<log, pc, requestVars>>
    BY <1>3 DEF CreateMonitor, CreatePolicy, DecideReview, vars, requestVars
  <2> QED  BY <2>1, <1>2 DEF requestVars
<1>4. ASSUME Restart PROVE QuotaInv'
  BY <1>4, <1>2 DEF Restart, tableVars
<1>5. ASSUME NEW t \in Threads, Leave(t), UNCHANGED log PROVE QuotaInv'
  BY <1>5, <1>2 DEF Leave, Inv, TypeOK
<1>6. ASSUME NEW t \in Threads, Refuse(t), UNCHANGED log PROVE QuotaInv'
  <2>1. CASE Leave(t)
    BY <1>5, <1>6, <2>1
  <2>2. CASE pc' = [pc EXCEPT ![t] = "run"] /\ provider' = [provider EXCEPT ![t] = None]
    BY <1>2, <1>6, <2>2 DEF Inv, TypeOK
  <2> QED  BY <1>6, <2>1, <2>2 DEF Refuse
<1>7. ASSUME NEW t \in Threads, NEW step \in Steps \ {"record"},
             pc' = [pc EXCEPT ![t] = step], UNCHANGED <<log, provider>>
      PROVE  QuotaInv'
  BY <1>7, <1>2 DEF Inv, TypeOK
<1>8. ASSUME NEW t \in Threads, NEW ids \in SUBSET Sources, NEW inactive \in BOOLEAN,
             NEW due \in BOOLEAN, NEW html \in Htmls, StartRefresh(t, ids, inactive, due, html)
      PROVE  QuotaInv'
  BY <1>8, <1>7 DEF StartRefresh, tableVars, Steps
<1>9. ASSUME NEW t \in Threads, NEW s \in Sources, NEW html \in {{}, Sources},
             StartIngest(t, s, html)
      PROVE  QuotaInv'
  BY <1>9, <1>7 DEF StartIngest, tableVars, Steps
<1>10. ASSUME NEW t \in Threads, Take(t) PROVE QuotaInv'
  BY <1>10, <1>7 DEF Take, tableVars, Steps
<1>11. ASSUME NEW t \in Threads, Answer(t) \/ Fail(t) \/ FetchAborts(t) PROVE QuotaInv'
  BY <1>11, <1>5 DEF Answer, Fail, FetchAborts, tableVars
<1>12. ASSUME NEW t \in Threads, ReadPolicy(t) PROVE QuotaInv'
  <2>1. CASE Refuse(t)
    BY <1>6, <1>12, <2>1 DEF ReadPolicy, tableVars
  <2>2. ASSUME NEW p \in Governing(doing[t]), provider' = [provider EXCEPT ![t] = p],
               pc' = [pc EXCEPT ![t] = "count"]
        PROVE  QuotaInv'
    BY <1>2, <1>12, <2>2 DEF ReadPolicy, tableVars, Inv, TypeOK
  <2> QED  BY <1>12, <2>1, <2>2 DEF ReadPolicy
<1>13. ASSUME NEW t \in Threads, CountFetches(t) PROVE QuotaInv'
  <2>1. CASE Refuse(t)
    BY <1>6, <1>13, <2>1 DEF CountFetches, tableVars
  <2> QED  BY <1>13, <2>1, CountKeepsQuota DEF CountFetches
<1>14. ASSUME NEW t \in Threads, FetchPage(t) PROVE QuotaInv'
  BY <1>14, <1>7 DEF FetchPage, tableVars, Steps
<1>15. ASSUME NEW t \in Threads, FetchFails(t) PROVE QuotaInv'
  BY <1>15, <1>6 DEF FetchFails, tableVars
<1>16. ASSUME NEW t \in Threads, AddReviewItem(t) PROVE QuotaInv'
  <2>1. CASE Leave(t)
    BY <1>5, <1>16, <2>1 DEF AddReviewItem
  <2>2. CASE pc' = [pc EXCEPT ![t] = "run"] /\ UNCHANGED requestVars
    BY <1>7, <1>16, <2>2 DEF AddReviewItem, requestVars, Steps
  <2> QED  BY <1>16, <2>1, <2>2 DEF AddReviewItem
<1>17. ASSUME NEW t \in Threads, RecordRun(t) PROVE QuotaInv'
  BY <1>17, <1>7 DEF RecordRun, Steps
<1> QED
  BY <1>1, <1>3, <1>4, <1>8, <1>9, <1>10, <1>11, <1>12, <1>13, <1>14, <1>15, <1>16, <1>17,
     RecordKeepsQuota
  DEF Next, Work, Step, Gate, Page

\* For any number of overlapping requests, the quota is exceeded by at most one
\* fetch for each thread but one.
THEOREM OvershootIsBounded == Spec => []QuotaOvershootBounded
<1>1. QuotaInv => QuotaOvershootBounded
  <2> SUFFICES ASSUME QuotaInv, NEW p \in Policies
               PROVE  Used(p) <= Quota[p] + Cardinality(Threads) - 1
    BY DEF QuotaOvershootBounded
  <2>1. Used(p) = Cardinality(Rows(p))
    BY DEF Used, Rows
  <2> QED  BY <2>1, Numbers DEF QuotaInv, Bound
<1> QED  BY InitQuota, NextKeepsQuota, Invariance, <1>1, PTL DEF Spec

\* Requests that do not overlap keep the documented limit.
THEOREM SerialQuota ==
    ASSUME Cardinality(Threads) = 1
    PROVE  Spec => []HourlyQuota
<1>1. QuotaOvershootBounded => HourlyQuota
  <2> SUFFICES ASSUME QuotaOvershootBounded, NEW p \in Policies
               PROVE  Used(p) <= Quota[p]
    BY DEF HourlyQuota
  <2>1. Used(p) = Cardinality(Rows(p))
    BY DEF Used, Rows
  <2> QED  BY <2>1, Numbers DEF QuotaOvershootBounded
<1> QED  BY <1>1, OvershootIsBounded, PTL

-----------------------------------------------------------------------------
(* Review items.                                                            *)

\* The item a thread is about to record a run for is in the queue already.
Queued(t) == pc[t] = "run" /\ result[t] # None => review[<<doing[t], result[t].key>>] # None

ReviewInv == RunHasReviewItem /\ \A t \in Threads : Queued(t)

LEMMA InitReview == Init => ReviewInv
BY DEF Init, ReviewInv, RunHasReviewItem, Queued

\* Items never leave the queue.
LEMMA ItemsStay ==
    ASSUME Inv, [Next]_vars, NEW i \in Items, review[i] # None
    PROVE  review'[i] # None
<1>1. CASE UNCHANGED review
  BY <1>1
<1>2. ASSUME NEW j \in Items, NEW status \in {"pending", "approved", "rejected"},
             DecideReview(j, status)
      PROVE  review'[i] # None
  <2>1. review[j] \in Review /\ review[i] \in Review
    BY <1>2 DEF Inv, TypeOK, DecideReview
  <2>2. [review[j] EXCEPT !.status = status] \in Review
    BY <2>1 DEF Review
  <2> QED  BY <1>2, <2>1, <2>2, NoneIsNoValue DEF DecideReview, Inv, TypeOK
<1>3. ASSUME NEW t \in Threads, AddReviewItem(t) PROVE review'[i] # None
  BY <1>3 DEF AddReviewItem, QueuedAs, Inv, TypeOK
<1> QED
  BY <1>1, <1>2, <1>3 DEF Next, Work, Step, Gate, Page, vars, tableVars, CreateMonitor,
     CreatePolicy, Tick, StartRefresh, StartIngest, Take, Answer, ReadPolicy, CountFetches,
     RecordFetch, FetchPage, FetchFails, FetchAborts, RecordRun, Fail, Restart

\* A key in the last run of a monitor was put there by a run with its item.
LEMMA NextKeepsReview ==
    ASSUME Inv, ReviewInv, [Next]_vars
    PROVE  ReviewInv'
<1>1. RunHasReviewItem'
  <2> SUFFICES ASSUME NEW s \in Sources, lastSource'[s] # None
               PROVE  review'[<<s, lastSource'[s]>>] # None
    BY DEF RunHasReviewItem
  <2>1. CASE lastSource'[s] = lastSource[s]
    <3>1. <<s, lastSource[s]>> \in Items
      BY <2>1 DEF Inv, TypeOK, Items
    <3> QED  BY <2>1, <3>1, ItemsStay DEF ReviewInv, RunHasReviewItem
  <2>2. CASE lastSource'[s] # lastSource[s]
    <3>1. PICK t \in Threads : RecordRun(t)
      BY <2>2 DEF Next, Work, Step, Gate, Page, vars, tableVars, CreateMonitor, CreatePolicy,
         DecideReview, Tick, StartRefresh, StartIngest, Take, Answer, ReadPolicy, CountFetches,
         RecordFetch, FetchPage, FetchFails, FetchAborts, AddReviewItem, Fail, Restart
    <3>2. doing[t] = s /\ result[t] # None /\ lastSource'[s] = result[t].key
      BY <2>2, <3>1 DEF RecordRun, SourceId, Inv, TypeOK
    <3> QED  BY <3>1, <3>2 DEF RecordRun, ReviewInv, Queued
  <2> QED  BY <2>1, <2>2
<1>2. ASSUME NEW u \in Threads, pc'[u] = "run", result'[u] # None
      PROVE  review'[<<doing'[u], result'[u].key>>] # None
  <2>1. CASE pc[u] = "run" /\ UNCHANGED <<result[u], doing[u]>>
    <3>1. doing[u] \in Sources /\ result[u].key \in Keys
      BY <1>2, <2>1 DEF Inv, TypeOK, ThreadInv, Holds, Candidates
    <3>2. <<doing[u], result[u].key>> \in Items
      BY <3>1 DEF Items
    <3> QED  BY <1>2, <2>1, <3>2, ItemsStay DEF ReviewInv, Queued
  <2>2. CASE AddReviewItem(u)
    <3> DEFINE item == <<doing[u], result[u].key>>
    <3>1. doing[u] \in Sources /\ result[u] \in Candidates
      BY <2>2 DEF AddReviewItem, Inv, TypeOK, ThreadInv, Holds
    <3>2. item \in Items
      BY <3>1 DEF Items, Candidates
    <3>3. QueuedAs(item, result[u]) # None
      <4>1. [price |-> result[u].price, status |-> "pending"] \in Review
        BY <3>1 DEF Review, Candidates
      <4> QED  BY <4>1, NoneIsNoValue DEF QueuedAs
    <3>4. UNCHANGED <<doing[u], result[u]>>
      BY <1>2, <2>2 DEF AddReviewItem, Leave, requestVars, Inv, TypeOK
    <3> QED  BY <2>2, <3>2, <3>3, <3>4 DEF AddReviewItem, Inv, TypeOK
  <2>3. CASE Refuse(u) /\ pc[u] \in {"policy", "count", "fetch"}
    BY <1>2, <2>3 DEF Refuse, Leave, Inv, TypeOK, ThreadInv, Holds
  <2>4. CASE UNCHANGED <<pc[u], result[u], doing[u]>>
    BY <1>2, <2>1, <2>4
  <2>5. ASSUME NEW t \in Threads, Leave(t) PROVE pc[u] = "run" /\ UNCHANGED <<result[u], doing[u]>>
    BY <1>2, <2>5 DEF Leave, Inv, TypeOK
  <2>6. ASSUME NEW t \in Threads, Refuse(t), pc[t] \in {"policy", "count", "fetch"}
        PROVE  \/ Refuse(u) /\ pc[u] \in {"policy", "count", "fetch"}
               \/ UNCHANGED <<pc[u], result[u], doing[u]>>
    <3>1. CASE t = u
      BY <2>6, <3>1
    <3>2. CASE t # u
      BY <2>6, <3>2 DEF Refuse, Leave, Inv, TypeOK
    <3> QED  BY <3>1, <3>2
  <2>7. ASSUME NEW t \in Threads, AddReviewItem(t)
        PROVE  AddReviewItem(u) \/ UNCHANGED <<pc[u], result[u], doing[u]>>
    BY <2>7 DEF AddReviewItem, Leave, requestVars, Inv, TypeOK
  <2>8. ASSUME NEW t \in Threads, RecordRun(t) \/ FetchPage(t) \/ RecordFetch(t) \/ Take(t)
        PROVE  UNCHANGED <<pc[u], result[u], doing[u]>>
    BY <1>2, <2>8 DEF RecordRun, FetchPage, RecordFetch, Take, Inv, TypeOK
  <2>9. ASSUME NEW t \in Threads,
               \/ \E ids \in SUBSET Sources, inactive, due \in BOOLEAN, html \in Htmls :
                     StartRefresh(t, ids, inactive, due, html)
               \/ \E s \in Sources, html \in {{}, Sources} : StartIngest(t, s, html)
        PROVE  UNCHANGED <<pc[u], result[u], doing[u]>>
    BY <1>2, <2>9 DEF StartRefresh, StartIngest, Inv, TypeOK
  <2>10. ASSUME NEW t \in Threads, ReadPolicy(t), ~ Refuse(t)
         PROVE  UNCHANGED <<pc[u], result[u], doing[u]>>
    BY <1>2, <2>10 DEF ReadPolicy, Inv, TypeOK
  <2>11. ASSUME NEW t \in Threads, CountFetches(t), ~ Refuse(t)
         PROVE  UNCHANGED <<pc[u], result[u], doing[u]>>
    BY <1>2, <2>11 DEF CountFetches, requestVars, Inv, TypeOK
  <2>12. CASE \/ UNCHANGED vars
              \/ \E s \in Sources : CreateMonitor(s)
              \/ \E p \in Policies : CreatePolicy(p)
              \/ \E i \in Items, status \in {"pending", "approved", "rejected"} :
                    DecideReview(i, status)
              \/ Tick
    BY <2>4, <2>12 DEF vars, requestVars, CreateMonitor, CreatePolicy, DecideReview, Tick
  <2>13. CASE Restart
    BY <1>2, <2>13 DEF Restart
  <2>14. ASSUME NEW t \in Threads, ReadPolicy(t) \/ CountFetches(t) \/ FetchFails(t)
         PROVE  review'[<<doing'[u], result'[u].key>>] # None
    BY <2>3, <2>4, <2>6, <2>10, <2>11, <2>14 DEF ReadPolicy, CountFetches, FetchFails
  <2>15. ASSUME NEW t \in Threads, Answer(t) \/ FetchAborts(t) \/ Fail(t)
         PROVE  review'[<<doing'[u], result'[u].key>>] # None
    BY <2>1, <2>5, <2>15 DEF Answer, FetchAborts, Fail
  <2> QED
    BY <2>2, <2>4, <2>7, <2>8, <2>9, <2>12, <2>13, <2>14, <2>15
    DEF Next, Work, Step, Gate, Page
<1> QED  BY <1>1, <1>2 DEF ReviewInv, Queued

\* A successful run leads to its review item.
THEOREM RunsHaveReviewItems == Spec => []RunHasReviewItem
BY InitReview, NextKeepsReview, Invariance, PTL DEF Spec, ReviewInv

\* Requests neither replace nor reopen what is in the review queue.
THEOREM DecisionsDoStand == Spec => DecisionsStand
<1>1. ASSUME Inv, [Next]_vars, NEW i \in Items, review[i] # None
      PROVE  /\ review'[i] # None /\ review'[i].price = review[i].price
             /\ review'[i].status # review[i].status => UNCHANGED <<pc, requestVars>>
  <2>1. review'[i] # None
    BY <1>1, ItemsStay
  <2>2. CASE UNCHANGED review
    BY <2>1, <2>2
  <2>3. ASSUME NEW j \in Items, NEW status \in {"pending", "approved", "rejected"},
               DecideReview(j, status)
        PROVE  review'[i].price = review[i].price /\ UNCHANGED <<pc, requestVars>>
    <3>1. review[j] \in Review
      BY <1>1, <2>3 DEF Inv, TypeOK, DecideReview
    <3>2. [review[j] EXCEPT !.status = status].price = review[j].price
      BY <3>1 DEF Review
    <3> QED  BY <1>1, <2>3, <3>2 DEF DecideReview, Inv, TypeOK
  <2>4. ASSUME NEW t \in Threads, AddReviewItem(t) PROVE review'[i] = review[i]
    BY <1>1, <2>4 DEF AddReviewItem, QueuedAs, Inv, TypeOK
  <2> QED
    BY <1>1, <2>1, <2>2, <2>3, <2>4 DEF Next, Work, Step, Gate, Page, vars, tableVars,
       CreateMonitor, CreatePolicy, Tick, StartRefresh, StartIngest, Take, Answer, ReadPolicy,
       CountFetches, RecordFetch, FetchPage, FetchFails, FetchAborts, RecordRun, Fail, Restart
<1>2. Inv /\ [Next]_vars =>
        [\A i \in Items : review[i] # None =>
          /\ review'[i] # None /\ review'[i].price = review[i].price
          /\ review'[i].status # review[i].status => UNCHANGED <<pc, requestVars>>]_vars
  BY <1>1
<1> QED  BY <1>2, Invariance, PTL DEF Spec, DecisionsStand

-----------------------------------------------------------------------------
(* Due refreshes, one request at a time.                                    *)

LEMMA SerialKeepsDue ==
    ASSUME Inv, QueuedAreDue, [Next]_vars, \A t, u \in Threads : t = u
    PROVE  QueuedAreDue'
<1> SUFFICES ASSUME NEW t \in Threads, mode'[t] = "due",
                    NEW s \in queue'[t] \cup {doing'[t]}, s # None
             PROVE  Due(s)'
  BY DEF QueuedAreDue
<1> USE DEF Inv, TypeOK
<1>1. \A u \in Threads : u = t
  OBVIOUS
<1>2. CASE /\ mode[t] = "due" /\ s \in queue[t] \cup {doing[t]}
           /\ UNCHANGED sinceRun
  BY <1>2 DEF QueuedAreDue, Due
<1>3. CASE Tick
  <2>1. s \in Sources /\ Due(s)
    BY <1>3 DEF Tick, requestVars, QueuedAreDue
  <2> QED  BY <1>3, <2>1 DEF Tick, Due
<1>4. ASSUME NEW ids \in SUBSET Sources, NEW inactive \in BOOLEAN, NEW due \in BOOLEAN,
             NEW html \in Htmls, StartRefresh(t, ids, inactive, due, html)
      PROVE  Due(s)'
  <2>1. due /\ s \in Selected(ids, inactive, due)
    BY <1>4, NoneIsNoValue DEF StartRefresh, ThreadInv, Holds
  <2>2. Due(s)
    BY <2>1 DEF Selected
  <2> QED  BY <1>4, <2>2 DEF StartRefresh, tableVars, Due
<1>5. CASE RecordRun(t)
  <2>1. s \in queue[t] /\ s # doing[t] /\ mode[t] = "due"
    BY <1>5 DEF RecordRun, ThreadInv, Holds
  <2> QED  BY <1>5, <2>1 DEF RecordRun, QueuedAreDue, Due
<1>6. CASE Take(t)
  BY <1>6, <1>2 DEF Take, tableVars
<1>7. ASSUME Leave(t) PROVE FALSE
  BY <1>7, NoneIsNoValue DEF Leave
<1>8. ASSUME NEW r \in Sources, NEW html \in {{}, Sources}, StartIngest(t, r, html) PROVE FALSE
  BY <1>8 DEF StartIngest
<1>9. ASSUME Refuse(t), UNCHANGED tableVars PROVE Due(s)'
  BY <1>2, <1>7, <1>9 DEF Refuse, tableVars
<1>10. CASE ReadPolicy(t) \/ CountFetches(t) \/ RecordFetch(t) \/ FetchPage(t) \/ FetchFails(t)
  BY <1>2, <1>9, <1>10 DEF ReadPolicy, CountFetches, RecordFetch, FetchPage, FetchFails,
     tableVars, requestVars
<1>11. CASE AddReviewItem(t)
  BY <1>2, <1>7, <1>11 DEF AddReviewItem, requestVars
<1>12. CASE Restart
  BY <1>12, NoneIsNoValue DEF Restart
<1>13. CASE \/ UNCHANGED vars
            \/ \E r \in Sources : CreateMonitor(r)
            \/ \E p \in Policies : CreatePolicy(p)
            \/ \E i \in Items, status \in {"pending", "approved", "rejected"} :
                  DecideReview(i, status)
  BY <1>2, <1>13 DEF vars, requestVars, CreateMonitor, CreatePolicy, DecideReview
<1> QED
  BY <1>1, <1>3, <1>4, <1>5, <1>6, <1>7, <1>8, <1>10, <1>11, <1>12, <1>13
  DEF Next, Work, Step, Gate, Page, Answer, FetchAborts, Fail

\* Requests that do not overlap run no monitor before its cadence is over.
THEOREM SerialRunsAreDue ==
    ASSUME Cardinality(Threads) = 1
    PROVE  Spec => []QueuedAreDue
<1>1. \A t, u \in Threads : t = u
  BY FiniteThreads, FS_Singleton
<1>2. Init => QueuedAreDue
  BY NoneIsNoValue DEF Init, QueuedAreDue
<1>3. Inv /\ QueuedAreDue /\ [Next]_vars => QueuedAreDue'
  BY <1>1, SerialKeepsDue
<1> QED  BY <1>2, <1>3, Invariance, PTL DEF Spec
=============================================================================
