------------------------ MODULE LaunchBoards_proofs ------------------------
(****************************************************************************)
(* Theorems about LaunchBoards, for every set of forms, tables to begin     *)
(* with and number of requests.  What is kept to be done blocks the launch  *)
(* from its deadline on, while the backlog has room for it; neither the     *)
(* gate nor the preflight says go to a service with a stain; and a sign-up  *)
(* lets no board stand lower.                                               *)
(*                                                                          *)
(* The first two are facts about one state: what comes before an item in    *)
(* the backlog is counted, and is less than the backlog shows.  All that a  *)
(* step must preserve is that analyses, feedback and the day are typed.     *)
(* The type invariant comes after: a PATCH stores later what it read.       *)
(*                                                                          *)
(* The third is about a step.  Every operator that boards are made of is    *)
(* shown to rise with its arguments, so that facts that rise lift each      *)
(* board in turn, up to the preflight; then every fact that a board reads   *)
(* is shown to rise from the state before a sign-up to the one after it.    *)
(****************************************************************************)
EXTENDS LaunchBoards, FiniteSetTheorems, SequenceTheorems, WellFoundedInduction, TLAPS

-----------------------------------------------------------------------------
(* Verdicts and decisions.                                                  *)

\* A check that is not ok keeps the status of its list from being ok.
LEMMA WorstBlocked == ASSUME NEW checks, "blocker" \in checks PROVE Worst(checks) = "blocker"
  BY DEF Worst

\* Nor does a warning leave it ok.
LEMMA WorstNotOk ==
    ASSUME NEW checks, NEW v \in {"warning", "blocker"}, v \in checks
    PROVE  Worst(checks) \in {"warning", "blocker"}
  BY DEF Worst

\* Only an ok status makes the decision to go, and a blocker makes it blocked.
LEMMA DecideGo ==
    ASSUME NEW status, NEW score
    PROVE  /\ status = "blocker" => Decide(status, score) = "blocked"
           /\ status \in {"warning", "blocker"} => Decide(status, score) # "go"
  BY DEF Decide

\* Two of the gate's nine checks.
LEMMA GateHasChecks == BacklogCheck \in Range(Gate) /\ Integration \in Range(Gate)
<1>1. Gate.backlog = BacklogCheck /\ Gate.integration = Integration
  BY DEF Gate
<1>2. Gate.backlog \in Range(Gate) /\ Gate.integration \in Range(Gate)
  BY DEF Gate, Range
<1> QED
  BY <1>1, <1>2

\* A check that is not ok keeps the gate's status from being ok.
LEMMA GateBlocked == ASSUME "blocker" \in Range(Gate) PROVE GateStatus = "blocker"
  BY DEF GateStatus

\* Nor does a warning leave it ok, whatever the score.
LEMMA GateNotOk ==
    ASSUME NEW v \in {"warning", "blocker"}, v \in Range(Gate)
    PROVE  GateStatus \in {"warning", "blocker"}
<1>1. Range(Gate) # {"ok"}
  OBVIOUS
<1> QED
  BY <1>1 DEF GateStatus

\* A rank of 3 is the rank of go.
LEMMA RankOfGo ==
    ASSUME NEW d \in {"blocked", "hold", "limited_beta"}
    PROVE  DecisionRank(d) # DecisionRank("go")
  BY DEF DecisionRank

\* There are four decisions.
LEMMA DecideType ==
    ASSUME NEW status, NEW score
    PROVE  Decide(status, score) \in {"blocked", "hold", "limited_beta", "go"}
  BY DEF Decide

-----------------------------------------------------------------------------
(* The backlog.                                                             *)

\* An overdue item of the backlog blocks the launch.
LEMMA OverdueItemBlocks ==
    ASSUME NEW item \in Backlog, Overdue(item)
    PROVE  Decision = "blocked"
<1>1. BacklogCheck = "blocker"
  BY DEF BacklogCheck
<1>2. GateStatus = "blocker"
  BY <1>1, GateHasChecks, GateBlocked
<1> QED
  BY <1>2, DecideGo DEF Decision

\* An item of severity blocker, whatever was done about it, is counted.
LEMMA BlockerItemCounts ==
    ASSUME NEW item \in Backlog, item.severity = "blocker"
    PROVE  GateStatus \in {"warning", "blocker"}
<1>1. CountedBlockers(Backlog) # {}
  BY DEF CountedBlockers
<1>2. BacklogCheck \in {"warning", "blocker"}
  BY <1>1 DEF BacklogCheck
<1> QED
  BY <1>2, GateHasChecks, GateNotOk

\* What an action stored for an item leaves alone, and what the default deadline is.
LEMMA MergedItem ==
    ASSUME NEW id, NEW created \in Int
    PROVE  LET item == Merged(Item(id, "blocker", created))
           IN  /\ item.severity = "blocker"
               /\ PastDeadline(id, created + 2) => Overdue(item)
<1> DEFINE item == Merged(Item(id, "blocker", created))
<1>1. item.severity = "blocker"
  BY DEF Merged, Item
<1>2. ASSUME PastDeadline(id, created + 2), id \notin DOMAIN actions
      PROVE  Overdue(item)
  <2>1. item.status = "open" /\ item.due = created + 2
    BY <1>2 DEF Merged, Item, DefaultDue
  <2> QED
    BY <1>2, <2>1, UnreadableIsNoDay DEF Overdue, Unfinished, PastDeadline
<1>3. ASSUME PastDeadline(id, created + 2), id \in DOMAIN actions
      PROVE  Overdue(item)
  <2>1. item.status = actions[id].status /\ item.due = actions[id].due
    BY <1>3 DEF Merged, Item
  <2> QED
    BY <1>3, <2>1, UnreadableIsNoDay DEF Overdue, Unfinished, PastDeadline
<1> QED
  BY <1>1, <1>2, <1>3

\* What the theorems about decisions need of the rows.
Dates ==
    /\ now \in Nat
    /\ runs \in Seq(Row(RunForm))
    /\ feedback \in Seq(Row(FeedbackForm))

\* What a function takes on is no more than what it is defined on.
LEMMA Taken ==
    ASSUME NEW S, IsFiniteSet(S), NEW f, f = [x \in S |-> f[x]]
    PROVE  /\ IsFiniteSet({f[x] : x \in S}) /\ Cardinality({f[x] : x \in S}) \in Nat
           /\ Cardinality({f[x] : x \in S}) <= Cardinality(S)
<1>1. f \in Surjection(S, {f[x] : x \in S})
  BY DEF Surjection
<1> QED
  BY <1>1, FS_Surjection, FS_CardinalityType

\* A part of two finite sets has no more elements than both.
LEMMA AtMostBoth ==
    ASSUME NEW S, IsFiniteSet(S), NEW T, IsFiniteSet(T), NEW A \in SUBSET (S \cup T)
    PROVE  /\ IsFiniteSet(A) /\ Cardinality(A) \in Nat
           /\ Cardinality(A) <= Cardinality(S) + Cardinality(T)
<1>1. /\ IsFiniteSet(S \cup T)
      /\ Cardinality(S \cup T) = Cardinality(S) + Cardinality(T) - Cardinality(S \cap T)
  BY FS_Union
<1>2. IsFiniteSet(S \cap T)
  BY FS_Subset
<1>3. IsFiniteSet(A) /\ Cardinality(A) <= Cardinality(S \cup T)
  BY <1>1, FS_Subset
<1> QED
  BY <1>1, <1>2, <1>3, FS_CardinalityType

\* What comes first in the list is finite: six checks at most,
LEMMA ReadinessFinite == IsFiniteSet(ReadinessItems)
<1> DEFINE areas == <<"activation", "sharing", "retention", "feedback", "quality", "lead">>
           f == [k \in 1..6 |-> Item(<<"readiness", areas[k]>>, Readiness[areas[k]], now)]
           S == 1..6
<1>1. IsFiniteSet(S)
  <2>1. PICK m \in Int, n \in Int : m = 1 /\ n = 6
    OBVIOUS
  <2>2. IsFiniteSet(m..n)
    BY FS_Interval
  <2> QED
    BY <2>1, <2>2
<1>2. DOMAIN Readiness = {areas[k] : k \in 1..6}
  BY DEF Readiness
<1>3. ReadinessItems \subseteq {f[k] : k \in S}
  BY <1>2 DEF ReadinessItems
<1> HIDE DEF f, S
<1>4. f = [k \in S |-> f[k]]
  BY DEF f, S
<1>5. IsFiniteSet({f[k] : k \in S})
  BY <1>1, <1>4, Taken
<1> QED
  BY <1>3, <1>5, FS_Subset

\*   and one item for each product learnt of.
LEMMA LearningFinite == IsFiniteSet(LearningItems)
<1> DEFINE S == LastLearnt(BacklogProducts)
           f == [p \in S |-> Item(<<"learning", p>>, Insight(p), now)]
<1>1. S \subseteq Products
  BY DEF LastLearnt, Learnt
<1>2. LearningItems = {f[p] : p \in S}
  BY DEF LearningItems
<1>3. IsFiniteSet(S)
  BY <1>1, FinitelyManyProducts, FS_Subset
<1> HIDE DEF f, S
<1>4. f = [p \in S |-> f[p]]
  BY DEF f
<1> QED
  BY <1>2, <1>3, <1>4, Taken

\* The items that come before any complaint and any launch blocker are finitely many.
FrontItems == ReadinessItems \cup LearningItems
LEMMA FrontFinite == IsFiniteSet(FrontItems) /\ Cardinality(FrontItems) \in Nat
  BY ReadinessFinite, LearningFinite, FS_Union, FS_CardinalityType DEF FrontItems

\* The item of a feedback, of whatever rating.
FeedbackItem(k) ==
    Item(<<"feedback", k>>, IF feedback[k].form.rating <= 2 THEN "blocker" ELSE "warning", feedback[k].at)

\* Feedback of some rows has no more items than there are rows.
LEMMA SomeFeedbackFinite ==
    ASSUME NEW i \in Int, NEW n \in Int, i <= n + 1
    PROVE  /\ IsFiniteSet({FeedbackItem(k) : k \in i..n})
           /\ Cardinality({FeedbackItem(k) : k \in i..n}) \in Nat
           /\ Cardinality({FeedbackItem(k) : k \in i..n}) <= n - i + 1
<1> DEFINE f == [k \in i..n |-> FeedbackItem(k)]
           S == i..n
           T == {f[k] : k \in S}
<1>1. IsFiniteSet(S) /\ Cardinality(S) = n - i + 1
  <2>1. /\ IsFiniteSet(i..n)
        /\ Cardinality(i..n) = IF i > n THEN 0 ELSE n - i + 1
    BY FS_Interval
  <2> QED
    BY <2>1
<1>2. {FeedbackItem(k) : k \in i..n} = T
  OBVIOUS
<1> HIDE DEF f, S
<1>3. f = [k \in S |-> f[k]]
  BY DEF f, S
<1>4. IsFiniteSet(T) /\ Cardinality(T) \in Nat /\ Cardinality(T) <= Cardinality(S)
  BY <1>1, <1>3, Taken
<1> HIDE DEF T
<1> QED
  BY <1>1, <1>2, <1>4

\* So have all feedback items.
LEMMA FeedbackFinite == ASSUME Dates PROVE IsFiniteSet(FeedbackItems) /\ Cardinality(FeedbackItems) \in Nat
<1>1. PICK n \in Nat : n = Len(feedback) /\ DOMAIN feedback = 1..n
  BY DEF Dates
<1>2. FeedbackItems \subseteq {FeedbackItem(k) : k \in 1..n}
  BY <1>1 DEF FeedbackItems, FeedbackItem, Latest
<1>3. IsFiniteSet({FeedbackItem(k) : k \in 1..n})
  <2>1. PICK m \in Int : m = 1 /\ m <= n + 1 /\ n \in Int
    OBVIOUS
  <2>2. IsFiniteSet({FeedbackItem(k) : k \in m..n})
    BY <2>1, SomeFeedbackFinite
  <2> QED
    BY <2>1, <2>2
<1> QED
  BY <1>2, <1>3, FS_Subset, FS_CardinalityType

\* Which items are of which source, by what identifies them.
LEMMA SourceOfItem ==
    ASSUME NEW a \in Listed
    PROVE  \/ a \in ReadinessItems /\ a.id[1] = "readiness"
           \/ a \in LearningItems /\ a.id[1] = "learning"
           \/ a \in FeedbackItems /\ a.id[1] = "feedback"
           \/ a \in QualityItems /\ a.id[1] = "quality"
<1>1. a \in ReadinessItems => a.id[1] = "readiness"
  BY DEF ReadinessItems, Item
<1>2. a \in LearningItems => a.id[1] = "learning"
  BY DEF LearningItems, Item
<1>3. a \in FeedbackItems => a.id[1] = "feedback"
  BY DEF FeedbackItems, Item
<1>4. a \in QualityItems => a.id[1] = "quality"
  BY DEF QualityItems, Item
<1> QED
  BY <1>1, <1>2, <1>3, <1>4 DEF Listed

\* An item with fewer items ahead of it than there is room for is shown.
AheadOf(item) == {a \in Listed : Ahead(a.id, item.id)}
LEMMA ShownItem ==
    ASSUME NEW item \in Listed, Cardinality(AheadOf(item)) < BacklogLimit PROVE Merged(item) \in Backlog
  BY DEF Shown, AheadOf, Backlog

\* A complaint in sight is an item of the backlog.
LEMMA ComplaintItem ==
    ASSUME Dates, NEW i \in DOMAIN feedback, feedback[i].form.rating <= 2, ComplaintInSight(i)
    PROVE  /\ feedback[i].at \in Int
           /\ Merged(Item(<<"feedback", i>>, "blocker", feedback[i].at)) \in Backlog
<1> DEFINE item == Item(<<"feedback", i>>, "blocker", feedback[i].at)
<1>1. feedback[i] \in Row(FeedbackForm)
  BY DEF Dates
<1>2. feedback[i].at \in Int /\ feedback[i].form.rating \in Int
  BY <1>1 DEF Row, FeedbackForm
<1>3. PICK n \in Nat : n = Len(feedback) /\ DOMAIN feedback = 1..n
  BY DEF Dates
<1>4. i \in 1..n /\ n - i < BacklogLimit - Cardinality(FrontItems) /\ BacklogLimit \in Nat
  BY <1>3, LimitsAssumption DEF ComplaintInSight, Room, FrontItems
<1>5. i \in Latest(feedback)
  BY <1>3, <1>4, FrontFinite DEF Latest
<1>6. item \in FeedbackItems /\ item \in Listed /\ item.id = <<"feedback", i>>
  BY <1>2, <1>5 DEF FeedbackItems, Listed, Item
<1>7. AheadOf(item) \subseteq FrontItems \cup {FeedbackItem(k) : k \in (i + 1)..n}
  <2> SUFFICES ASSUME NEW a \in Listed, Ahead(a.id, <<"feedback", i>>), a \notin FrontItems
               PROVE  a \in {FeedbackItem(k) : k \in (i + 1)..n}
    BY <1>6 DEF AheadOf
  <2>1. a \in FeedbackItems /\ a.id[1] = "feedback" /\ a.id[2] > i
    <3>1. CASE a \in FeedbackItems /\ a.id[1] = "feedback"
      BY <3>1 DEF Ahead, SourceRank
    <3>2. CASE a \in QualityItems /\ a.id[1] = "quality"
      BY <3>2 DEF Ahead, SourceRank
    <3> QED
      BY <3>1, <3>2, SourceOfItem DEF FrontItems
  <2>2. PICK k \in DOMAIN feedback : a = FeedbackItem(k)
    BY <2>1 DEF FeedbackItems, FeedbackItem, Latest
  <2>3. a.id[2] = k
    BY <2>2 DEF FeedbackItem, Item
  <2> QED
    BY <1>3, <1>4, <2>1, <2>2, <2>3
<1>8. /\ IsFiniteSet({FeedbackItem(k) : k \in (i + 1)..n})
      /\ Cardinality({FeedbackItem(k) : k \in (i + 1)..n}) \in Nat
      /\ Cardinality({FeedbackItem(k) : k \in (i + 1)..n}) <= n - i
  <2>1. i + 1 \in Int /\ n \in Int /\ i + 1 <= n + 1 /\ n - (i + 1) + 1 = n - i
    BY <1>4
  <2> QED
    BY <2>1, SomeFeedbackFinite
<1> HIDE DEF item
<1>9. Cardinality(AheadOf(item)) \in Nat
      /\ Cardinality(AheadOf(item)) <= Cardinality(FrontItems) + Cardinality({FeedbackItem(k) : k \in (i + 1)..n})
  BY <1>7, <1>8, FrontFinite, AtMostBoth
<1>10. Cardinality(AheadOf(item)) < BacklogLimit
  BY <1>4, <1>8, <1>9, FrontFinite
<1> QED
  BY <1>2, <1>6, <1>10, ShownItem DEF item

\* Some launch blockers are finitely many,
LEMMA PairsFinite ==
    ASSUME Dates, NEW i \in DOMAIN runs, NEW j \in Nat
    PROVE  /\ IsFiniteSet(LaunchBlockersBefore(i, j)) /\ Cardinality(LaunchBlockersBefore(i, j)) \in Nat
<1>1. i \in Int /\ Len(runs) \in Int /\ DOMAIN runs = 1..Len(runs)
  BY DEF Dates
<1>2. IsFiniteSet({<<i, l>> : l \in 1..(j - 1)})
  <2>1. PICK S : S = 1..(j - 1)
    OBVIOUS
  <2>2. IsFiniteSet(S)
    <3>1. j - 1 \in Int /\ 1 \in Int
      OBVIOUS
    <3> QED
      BY <2>1, <3>1, FS_Interval
  <2>3. PICK g : g = [l \in S |-> <<i, l>>]
    OBVIOUS
  <2>4. g = [l \in S |-> g[l]]
    BY <2>3
  <2>5. IsFiniteSet({g[l] : l \in S})
    BY <2>2, <2>4, Taken
  <2> QED
    BY <2>1, <2>3, <2>5
<1>3. ASSUME NEW k \in (i + 1)..Len(runs)
      PROVE  IsFiniteSet({<<k, l>> : l \in 1..runs[k].form.launchBlockers})
  <2>1. k \in DOMAIN runs
    BY <1>1
  <2>2. runs[k].form.launchBlockers \in Int
    <3>1. runs[k] \in Row(RunForm)
      BY <2>1 DEF Dates
    <3> QED
      BY <3>1 DEF Row, RunForm
  <2>3. PICK m \in Int : m = runs[k].form.launchBlockers
    BY <2>2
  <2>4. PICK S : S = 1..m
    OBVIOUS
  <2>5. IsFiniteSet(S)
    <3>1. 1 \in Int
      OBVIOUS
    <3> QED
      BY <2>4, <3>1, FS_Interval
  <2>6. PICK g : g = [l \in S |-> <<k, l>>]
    OBVIOUS
  <2>7. g = [l \in S |-> g[l]]
    BY <2>6
  <2>8. IsFiniteSet({g[l] : l \in S})
    BY <2>5, <2>7, Taken
  <2> QED
    BY <2>3, <2>4, <2>6, <2>8
<1>4. IsFiniteSet(UNION {{<<k, l>> : l \in 1..runs[k].form.launchBlockers} : k \in (i + 1)..Len(runs)})
  <2>1. PICK S : S = (i + 1)..Len(runs)
    OBVIOUS
  <2>2. IsFiniteSet(S)
    <3>1. i + 1 \in Int
      BY <1>1
    <3> QED
      BY <1>1, <2>1, <3>1, FS_Interval
  <2>3. PICK g : g = [k \in S |-> {<<k, l>> : l \in 1..runs[k].form.launchBlockers}]
    OBVIOUS
  <2>4. g = [k \in S |-> g[k]]
    BY <2>3
  <2>5. \A T \in {g[k] : k \in S} : IsFiniteSet(T)
    BY <1>3, <2>1, <2>3
  <2>6. IsFiniteSet({g[k] : k \in S})
    BY <2>2, <2>4, Taken
  <2>7. IsFiniteSet(UNION {g[k] : k \in S})
    BY <2>5, <2>6, FS_UNION
  <2> QED
    BY <2>1, <2>3, <2>7
<1>5. IsFiniteSet(LaunchBlockersBefore(i, j))
  BY <1>2, <1>4, FS_Union DEF LaunchBlockersBefore
<1> QED
  BY <1>5, FS_CardinalityType

\*   and so are their items.
LEMMA QualityBeforeFinite ==
    ASSUME NEW B, IsFiniteSet(B)
    PROVE  LET items == {Item(<<"quality", x[1], x[2]>>, "blocker", runs[x[1]].at) : x \in B}
           IN  /\ IsFiniteSet(items) /\ Cardinality(items) \in Nat
               /\ Cardinality(items) <= Cardinality(B)
<1>1. PICK f : f = [x \in B |-> Item(<<"quality", x[1], x[2]>>, "blocker", runs[x[1]].at)]
  OBVIOUS
<1>2. {Item(<<"quality", x[1], x[2]>>, "blocker", runs[x[1]].at) : x \in B} = {f[x] : x \in B}
  BY <1>1
<1>3. f = [x \in B |-> f[x]]
  BY <1>1
<1>4. /\ IsFiniteSet({f[x] : x \in B}) /\ Cardinality({f[x] : x \in B}) \in Nat
      /\ Cardinality({f[x] : x \in B}) <= Cardinality(B)
  BY <1>3, Taken
<1> QED
  BY <1>2, <1>4

\* So is each launch blocker in sight.
LEMMA LaunchBlockerItem ==
    ASSUME Dates, NEW i \in DOMAIN runs, NEW j \in 1..runs[i].form.launchBlockers,
           LaunchBlockerInSight(i, j)
    PROVE  /\ runs[i].at \in Int
           /\ Merged(Item(<<"quality", i, j>>, "blocker", runs[i].at)) \in Backlog
<1> DEFINE item == Item(<<"quality", i, j>>, "blocker", runs[i].at)
           B == LaunchBlockersBefore(i, j)
           earlier == {Item(<<"quality", x[1], x[2]>>, "blocker", runs[x[1]].at) : x \in B}
<1>1. runs[i] \in Row(RunForm)
  BY DEF Dates
<1>2. runs[i].at \in Int /\ j \in Nat
  BY <1>1 DEF Row, RunForm
<1>3. i \in Latest(runs) /\ Cardinality(FeedbackItems) + Cardinality(B) < BacklogLimit - Cardinality(FrontItems)
  BY DEF LaunchBlockerInSight, Room, FrontItems
<1>4. item \in QualityItems /\ item \in Listed /\ item.id = <<"quality", i, j>>
  BY <1>3 DEF QualityItems, Listed, Item
<1>5. AheadOf(item) \subseteq (FrontItems \cup FeedbackItems) \cup earlier
  <2> SUFFICES ASSUME NEW a \in Listed, Ahead(a.id, <<"quality", i, j>>), a \notin FrontItems,
                      a \notin FeedbackItems
               PROVE  a \in earlier
    BY <1>4 DEF AheadOf
  <2>1. /\ a \in QualityItems /\ a.id[1] = "quality"
        /\ a.id[2] > i \/ (a.id[2] = i /\ a.id[3] < j)
    <3>1. a \in QualityItems /\ a.id[1] = "quality"
      BY SourceOfItem DEF FrontItems
    <3> QED
      BY <3>1 DEF Ahead, SourceRank
  <2>2. PICK k \in DOMAIN runs : \E l \in 1..runs[k].form.launchBlockers :
            a = Item(<<"quality", k, l>>, "blocker", runs[k].at)
    BY <2>1 DEF QualityItems, Latest
  <2>3. PICK l \in 1..runs[k].form.launchBlockers : a = Item(<<"quality", k, l>>, "blocker", runs[k].at)
    BY <2>2
  <2>4. a.id[2] = k /\ a.id[3] = l
    BY <2>3 DEF Item
  <2>5. k \in Int /\ i \in Int /\ Len(runs) \in Int /\ k <= Len(runs)
    BY DEF Dates
  <2>6. <<k, l>> \in B
    <3>1. CASE k > i
      <4>1. k \in (i + 1)..Len(runs)
        BY <2>5, <3>1
      <4> QED
        BY <2>3, <4>1 DEF LaunchBlockersBefore
    <3>2. CASE k = i /\ l < j
      <4>1. l \in 1..(j - 1)
        BY <1>2, <2>3, <3>2
      <4> QED
        BY <3>2, <4>1 DEF LaunchBlockersBefore
    <3> QED
      BY <2>1, <2>4, <3>1, <3>2
  <2>7. PICK x : x = <<k, l>>
    OBVIOUS
  <2> HIDE DEF B
  <2>8. x \in B /\ a = Item(<<"quality", x[1], x[2]>>, "blocker", runs[x[1]].at)
    BY <2>3, <2>6, <2>7
  <2> QED
    BY <2>8
<1>6. IsFiniteSet(B) /\ Cardinality(B) \in Nat
  BY <1>2, PairsFinite
<1> HIDE DEF B
<1>7. IsFiniteSet(earlier) /\ Cardinality(earlier) \in Nat /\ Cardinality(earlier) <= Cardinality(B)
  BY <1>6, QualityBeforeFinite
<1> HIDE DEF earlier, item
<1>8. /\ IsFiniteSet(FrontItems \cup FeedbackItems) /\ Cardinality(FrontItems \cup FeedbackItems) \in Nat
      /\ Cardinality(FrontItems \cup FeedbackItems) <= Cardinality(FrontItems) + Cardinality(FeedbackItems)
  BY FrontFinite, FeedbackFinite, AtMostBoth
<1>9. /\ Cardinality(AheadOf(item)) \in Nat
      /\ Cardinality(AheadOf(item)) <= Cardinality(FrontItems \cup FeedbackItems) + Cardinality(earlier)
  BY <1>5, <1>7, <1>8, AtMostBoth
<1>10. Cardinality(AheadOf(item)) < BacklogLimit
  BY <1>3, <1>6, <1>7, <1>8, <1>9, FrontFinite, FeedbackFinite, LimitsAssumption
<1> QED
  BY <1>2, <1>4, <1>10, ShownItem DEF item

\* An analysis that ever had a blocker keeps the readiness of quality blocked, which is never
\* cut.
LEMMA QualityItem ==
    ASSUME Dates, NEW i \in DOMAIN runs, runs[i].form.blockers > 0
    PROVE  /\ now \in Int
           /\ Merged(Item(<<"readiness", "quality">>, "blocker", now)) \in Backlog
<1> DEFINE item == Item(<<"readiness", "quality">>, "blocker", now)
<1>1. QualityReadiness = "blocker"
  BY DEF QualityReadiness, Blockers
<1>2. Readiness["quality"] = "blocker" /\ "quality" \in DOMAIN Readiness
  BY <1>1 DEF Readiness
<1>3. item \in ReadinessItems /\ item \in Listed /\ item.id[1] = "readiness"
  BY <1>2 DEF ReadinessItems, Listed, Item
<1> HIDE DEF item
<1>4. ASSUME NEW a \in Listed, Ahead(a.id, item.id) PROVE FALSE
  BY <1>3, <1>4, SourceOfItem DEF Ahead, SourceRank
<1>5. AheadOf(item) = {}
  BY <1>4 DEF AheadOf
<1>6. Cardinality(AheadOf(item)) < BacklogLimit
  BY <1>5, FS_EmptySet, LimitsAssumption
<1> QED
  BY <1>3, <1>6, ShownItem DEF Dates, item

\* The launch is blocked, in any state whose rows are typed.
LEMMA DatesBlock == Dates => OverdueBlocks
<1> SUFFICES ASSUME Dates PROVE OverdueBlocks
  OBVIOUS
<1>1. ASSUME NEW i \in DOMAIN feedback, feedback[i].form.rating <= 2, ComplaintInSight(i),
             PastDeadline(<<"feedback", i>>, feedback[i].at + 2)
      PROVE  Decision = "blocked"
  BY <1>1, ComplaintItem, MergedItem, OverdueItemBlocks
<1>2. ASSUME NEW i \in DOMAIN runs, NEW j \in 1..runs[i].form.launchBlockers,
             LaunchBlockerInSight(i, j),
             PastDeadline(<<"quality", i, j>>, runs[i].at + 2)
      PROVE  Decision = "blocked"
  BY <1>2, LaunchBlockerItem, MergedItem, OverdueItemBlocks
<1> QED
  BY <1>1, <1>2 DEF OverdueBlocks

-----------------------------------------------------------------------------
(* Stains.                                                                  *)

\* A critical integration that is not verified is a warning or a blocker.
LEMMA UnverifiedCounts ==
    ASSUME NEW c \in Categories, Critical[c], "verified" \notin providers[c]
    PROVE  GateStatus \in {"warning", "blocker"}
<1>1. Best(c) \in {"configured", "mock", "blocked", "missing"}
  BY DEF Best
<1>2. IntegrationCheck(c) \in {"warning", "blocker"}
  BY <1>1 DEF IntegrationCheck
<1>3. Integration \in {"warning", "blocker"}
  BY <1>2, WorstNotOk DEF Integration
<1> QED
  BY <1>3, GateHasChecks, GateNotOk

\* Whatever the stain, the gate is not ok.
LEMMA StainCounts ==
    ASSUME Dates, ~Clean
    PROVE  GateStatus \in {"warning", "blocker"}
<1>1. CASE \E i \in DOMAIN runs : runs[i].form.blockers # 0
  <2>1. PICK i \in DOMAIN runs : runs[i].form.blockers # 0
    BY <1>1
  <2>2. runs[i] \in Row(RunForm)
    BY DEF Dates
  <2>3. runs[i].form.blockers > 0
    BY <2>1, <2>2 DEF Row, RunForm
  <2> QED
    BY <2>3, QualityItem, MergedItem, BlockerItemCounts
<1>2. CASE \E i \in DOMAIN runs : runs[i].form.launchBlockers > 0 /\ LaunchBlockerInSight(i, 1)
  <2>1. PICK i \in DOMAIN runs : runs[i].form.launchBlockers > 0 /\ LaunchBlockerInSight(i, 1)
    BY <1>2
  <2>2. runs[i] \in Row(RunForm)
    BY DEF Dates
  <2>3. 1 \in 1..runs[i].form.launchBlockers
    BY <2>1, <2>2 DEF Row, RunForm
  <2> QED
    BY <2>1, <2>3, LaunchBlockerItem, MergedItem, BlockerItemCounts
<1>3. CASE \E i \in DOMAIN feedback : ComplaintInSight(i) /\ ~(feedback[i].form.rating > 2)
  <2>1. PICK i \in DOMAIN feedback : ComplaintInSight(i) /\ ~(feedback[i].form.rating > 2)
    BY <1>3
  <2>2. feedback[i] \in Row(FeedbackForm)
    BY DEF Dates
  <2>3. feedback[i].form.rating <= 2
    BY <2>1, <2>2 DEF Row, FeedbackForm
  <2> QED
    BY <2>1, <2>3, ComplaintItem, MergedItem, BlockerItemCounts
<1>4. CASE \E c \in Categories : Critical[c] /\ "verified" \notin providers[c]
  BY <1>4, UnverifiedCounts
<1> QED
  BY <1>1, <1>2, <1>3, <1>4 DEF Clean

-----------------------------------------------------------------------------
(* From the gate to the boards.                                             *)

\* What the gate says; no board changes it.
Kept(f) ==
    /\ {"gate", "ready"} \subseteq DOMAIN f
    /\ f.gate = GateStatus
    /\ f.ready = ReadinessScore

\* A board that fills in its own score keeps both.
LEMMA ExceptKeeps ==
    ASSUME NEW f, NEW e, Kept(f),
           NEW k \in {"pulse", "acquisition", "conversion", "proof", "wall", "objections",
                      "sharePack", "router", "smoke", "surface", "command", "incident"}
    PROVE  Kept([f EXCEPT ![k] = e])
  BY DEF Kept

\* So does the smoke board, which fills in a status as well.
LEMMA SmokeKeeps == ASSUME NEW f, Kept(f) PROVE Kept(Smoke(f))
<1> DEFINE e == SmokeScore(SmokeChecks(f))
           v == Judged(SmokeChecks(f), SmokeScore(SmokeChecks(f)), 45, 76)
<1>1. Smoke(f) = [f EXCEPT !.smoke = e, !.surface = v]
  BY DEF Smoke
<1> HIDE DEF e, v
<1> QED
  BY <1>1 DEF Kept

\* The facts start with what the gate says.
LEMMA FactsKept == Kept(Facts)
  BY DEF Kept, Facts

\* The whole chain of boards keeps it.
LEMMA ScoredKept == Kept(Scored(Facts))
<1>1. ASSUME NEW f, Kept(f) PROVE Kept(Pulse(f))
  BY <1>1, ExceptKeeps DEF Pulse
<1>2. ASSUME NEW f, Kept(f) PROVE Kept(Acquisition(f))
  BY <1>2, ExceptKeeps DEF Acquisition
<1>3. ASSUME NEW f, Kept(f) PROVE Kept(Converting(f))
  BY <1>3, ExceptKeeps DEF Converting
<1>4. ASSUME NEW f, Kept(f) PROVE Kept(Proof(f))
  BY <1>4, ExceptKeeps DEF Proof
<1>5. ASSUME NEW f, Kept(f) PROVE Kept(Wall(f))
  BY <1>5, ExceptKeeps DEF Wall
<1>6. ASSUME NEW f, Kept(f) PROVE Kept(Objections(f))
  BY <1>6, ExceptKeeps DEF Objections
<1>7. ASSUME NEW f, Kept(f) PROVE Kept(SharePack(f))
  BY <1>7, ExceptKeeps DEF SharePack
<1>8. ASSUME NEW f, Kept(f) PROVE Kept(Router(f))
  BY <1>8, ExceptKeeps DEF Router
<1>9. ASSUME NEW f, Kept(f) PROVE Kept(Command(f))
  BY <1>9, ExceptKeeps DEF Command
<1>10. ASSUME NEW f, Kept(f) PROVE Kept(Incident(f))
  BY <1>10, ExceptKeeps DEF Incident
<1>11. Kept(Router(SharePack(Objections(Wall(Proof(Converting(Acquisition(Pulse(Facts)))))))))
  BY <1>1, <1>2, <1>3, <1>4, <1>5, <1>6, <1>7, <1>8, FactsKept
<1> QED
  BY <1>9, <1>10, <1>11, SmokeKeeps DEF Scored

\* The singletons of Boards stand for a LET.
LEMMA BoardsAreScored == Boards = Standing(Scored(Facts))
<1>1. {Standing(g) : g \in {Scored(f) : f \in {Facts}}} = {Standing(Scored(Facts))}
  OBVIOUS
<1> QED
  BY <1>1 DEF Boards

\* The preflight repeats the gate.
LEMMA PreflightRepeats ==
    ASSUME NEW f, f.gate \in {"warning", "blocker"}
    PROVE  Preflight(f, PreflightChecks(f)) \in {"blocked", "hold", "limited_beta"}
<1> DEFINE checks == PreflightChecks(f)
           score == PreflightScore(f, checks)
<1>1. f.gate \in Range(checks)
  BY DEF PreflightChecks, Range
<1>2. PreflightStatus(checks, score) # "ok"
  BY <1>1, WorstNotOk DEF PreflightStatus, Judged
<1> HIDE DEF checks, score
<1>3. PreflightDecision(checks, score) \in {"blocked", "hold", "limited_beta"}
  BY <1>2 DEF PreflightDecision
<1> QED
  BY <1>3 DEF Preflight, checks, score

\* With a stain, neither decision is go.
LEMMA StainStains ==
    ASSUME Dates, ~Clean
    PROVE  Stained(Boards)
<1>1. GateStatus \in {"warning", "blocker"}
  BY StainCounts
<1> DEFINE f == Scored(Facts)
<1>2. f.gate \in {"warning", "blocker"}
  BY <1>1, ScoredKept DEF Kept
<1>3. Decide(f.gate, f.ready) \in {"blocked", "hold", "limited_beta"}
  BY <1>2, DecideGo, DecideType
<1>4. Preflight(f, PreflightChecks(f)) \in {"blocked", "hold", "limited_beta"}
  BY <1>2, PreflightRepeats
<1> HIDE DEF f
<1>5. /\ Standing(f).gate = DecisionRank(Decide(f.gate, f.ready))
      /\ Standing(f).preflight = DecisionRank(Preflight(f, PreflightChecks(f)))
  BY DEF Standing
<1> QED
  BY <1>3, <1>4, <1>5, RankOfGo, BoardsAreScored DEF Stained, f

-----------------------------------------------------------------------------
(* Steps.                                                                   *)

\* Tables to begin with have dated rows.
LEMMA InitDates == Init => Dates
<1> SUFFICES ASSUME NEW l \in Ledgers, GateInit(l) PROVE Dates
  BY DEF Init
<1> QED
  BY LedgersAssumption DEF GateInit, Dates, Ledger

\* A new row is dated by the day.
LEMMA AnalyseDates ==
    ASSUME Dates, NEW form \in RunForms, Analyse(form) PROVE Dates'
<1>1. [form |-> form, at |-> now] \in Row(RunForm)
  BY FormsAreForms DEF Row, Dates
<1> QED
  BY <1>1 DEF Analyse, Dates

\* So is a new feedback.
LEMMA FeedbackDates ==
    ASSUME Dates, NEW form \in FeedbackForms, GiveFeedback(form) PROVE Dates'
<1>1. [form |-> form, at |-> now] \in Row(FeedbackForm)
  BY FormsAreForms DEF Row, Dates
<1> QED
  BY <1>1 DEF GiveFeedback, Dates

\* Of the gate's requests only two add to these tables, and only Pass moves the day.
LEMMA GateDates == ASSUME Dates, GateNext PROVE Dates'
<1>1. CASE AddRow
  <2>1. ASSUME NEW form \in RunForms, Analyse(form) PROVE Dates'
    BY <2>1, AnalyseDates
  <2>2. ASSUME NEW form \in FeedbackForms, GiveFeedback(form) PROVE Dates'
    BY <2>2, FeedbackDates
  <2>3. ASSUME UNCHANGED <<now, runs, feedback>> PROVE Dates'
    BY <2>3 DEF Dates
  <2>4. ASSUME \/ \E form \in OutcomeForms : RecordOutcome(form)
               \/ \E p \in Products, blocked \in BOOLEAN : ReviewCheckout(p, blocked)
               \/ \E form \in EventForms : RecordEvent(form)
               \/ \E h \in Hosts, blocked \in BOOLEAN : RecordFetch(h, blocked)
               \/ \E c \in Categories, status \in IntegrationStatuses : RegisterProvider(c, status)
               \/ \E c \in Counted \ {"traces"} : CountUp(c)
               \/ RevokeShare
               \/ \E t \in Others : AddOther(t)
        PROVE  UNCHANGED <<now, runs, feedback>>
    BY <2>4 DEF RecordOutcome, ReviewCheckout, RecordEvent, RecordFetch, RegisterProvider,
                CountUp, RevokeShare, AddOther
  <2> QED
    BY <1>1, <2>1, <2>2, <2>3, <2>4 DEF AddRow
<1>2. ASSUME NEW p \in Patchers, Patch(p) PROVE Dates'
  BY <1>2 DEF Patch, PatchFind, PatchRead, PatchWrite, ledger, Dates
<1>3. ASSUME NEW days \in Days, Pass(days) PROVE Dates'
  BY <1>3, FormsAreForms DEF Pass, ledger, Dates
<1> QED
  BY <1>1, <1>2, <1>3 DEF GateNext

\* Requests of the audience leave them alone.
LEMMA StepDates == ASSUME Dates, [Next]_vars PROVE Dates'
<1>1. CASE GateNext
  BY <1>1, GateDates
<1>2. ASSUME UNCHANGED <<now, runs, feedback>> PROVE Dates'
  BY <1>2 DEF Dates
<1>3. ASSUME \/ \E by \in 0..Len(waitlist) \cup {None} : JoinWaitlist(by)
             \/ \E form \in IntentForms : RecordIntent(form)
             \/ \E form \in EventForms : StartExperiment(form.type)
             \/ \E i \in DOMAIN trials : See(i) \/ \E fresh \in BOOLEAN : Convert(i, fresh)
             \/ QueueExport
             \/ \E outcome \in [{i \in DOMAIN exports : exports[i] = "queued"} -> ExportStatuses] :
                    Dispatch(outcome)
             \/ UNCHANGED vars
      PROVE  UNCHANGED <<now, runs, feedback>>
  BY <1>3 DEF JoinWaitlist, RecordIntent, StartExperiment, See, Convert, QueueExport, Dispatch,
              vars, gateVars, ledger
<1> QED
  BY <1>1, <1>2, <1>3 DEF Next, Serve

-----------------------------------------------------------------------------
(* Types of the gate: what a PATCH takes from the backlog is a deadline.    *)

StoredOK(row) == row.status \in Statuses /\ row.due \in Deadline

\* Items and the PATCHes made from them, with a deadline asked for or none.
PatchOK(held) ==
    /\ {"status", "due", "asked", "decided"} \subseteq DOMAIN held
    /\ StoredOK(held) /\ held.asked \in Deadline \cup {None}
PatchesTyped ==
    /\ patch = [p \in Patchers |-> patch[p]]
    /\ \A p \in Patchers : patch[p] # None => PatchOK(patch[p])
Typed == GateTypeOK /\ PatchesTyped

\* Every check of readiness is a verdict,
LEMMA VerdictOfReadiness == ASSUME NEW a \in DOMAIN Readiness PROVE Readiness[a] \in Verdict
  BY DEF Readiness, QualityReadiness, AtLeast, Verdict

\*   and so is what was learnt of a product.
LEMMA VerdictOfInsight == ASSUME NEW p PROVE Insight(p) \in Verdict
  BY DEF Insight, Verdict

\* Items that are not merged yet.
Fresh(item) == item.severity \in Verdict /\ item.created \in Int

\* Every item has a severity and a date, whichever of the four sources it is from.
LEMMA FreshItems ==
    ASSUME Typed, NEW item \in Listed
    PROVE  Fresh(item)
<1>1. CASE item \in ReadinessItems
  BY <1>1, VerdictOfReadiness DEF ReadinessItems, Item, Fresh, Typed, GateTypeOK
<1>2. CASE item \in LearningItems
  BY <1>2, VerdictOfInsight DEF LearningItems, Item, Fresh, Typed, GateTypeOK
<1>3. CASE item \in FeedbackItems
  <2>1. PICK i \in DOMAIN feedback :
          item = Item(<<"feedback", i>>,
                      IF feedback[i].form.rating <= 2 THEN "blocker" ELSE "warning", feedback[i].at)
    BY <1>3 DEF FeedbackItems, Latest
  <2>2. feedback[i] \in Row(FeedbackForm)
    BY DEF Typed, GateTypeOK
  <2> QED
    BY <2>1, <2>2 DEF Item, Fresh, Row, Verdict
<1>4. CASE item \in QualityItems
  <2>1. PICK i \in DOMAIN runs : \E j \in 1..runs[i].form.launchBlockers :
          item = Item(<<"quality", i, j>>, "blocker", runs[i].at)
    BY <1>4 DEF QualityItems, Latest
  <2>2. runs[i] \in Row(RunForm)
    BY DEF Typed, GateTypeOK
  <2> QED
    BY <2>1, <2>2 DEF Item, Fresh, Row, Verdict
<1> QED
  BY <1>1, <1>2, <1>3, <1>4 DEF Listed

\* A merged item has a status and a deadline that can be stored again.
LEMMA BacklogTyped ==
    ASSUME Typed, NEW item \in Backlog
    PROVE  StoredOK(item)
<1>1. PICK i \in Listed : item = Merged(i)
  BY DEF Backlog, Shown
<1>2. Fresh(i)
  BY FreshItems
<1>3. DefaultDue(i) \in Int
  BY <1>2 DEF Fresh, DefaultDue, Verdict
<1>4. i.id \in DOMAIN actions => StoredOK(actions[i.id])
  BY DEF Typed, GateTypeOK, StoredOK
<1> QED
  BY <1>1, <1>3, <1>4 DEF Merged, StoredOK, Statuses, Deadline

\* Dating a table keeps the earliest rows typed.
LEMMA DatedTyped ==
    ASSUME Typed, NEW t \in Tables
    PROVE  Dated(t) \in [Tables -> Nat \cup {None}]
  BY DEF Typed, GateTypeOK, Dated

\* Tables to begin with are typed, and no PATCH is in progress.
LEMMA InitTyped == Init => Typed
<1> SUFFICES ASSUME NEW l \in Ledgers, GateInit(l) PROVE Typed
  BY DEF Init
<1>1. l \in Ledger
  BY LedgersAssumption
<1>2. GateTypeOK
  BY <1>1, LedgersAssumption DEF GateInit, GateTypeOK, Ledger
<1>3. PatchesTyped
  BY DEF GateInit, PatchesTyped
<1> QED
  BY <1>2, <1>3 DEF Typed

\* One step per request that adds a row, and the conjuncts that it disturbs.
LEMMA AddRowTyped == ASSUME Typed, AddRow PROVE Typed'
<1>1. ASSUME NEW form \in RunForms, Analyse(form) PROVE Typed'
  <2>1. [form |-> form, at |-> now] \in Row(RunForm)
    BY FormsAreForms DEF Row, Typed, GateTypeOK
  <2>2. first' \in [Tables -> Nat \cup {None}]
    BY <1>1, DatedTyped DEF Analyse, Tables, RetentionDays
  <2>3. runs' \in Seq(Row(RunForm))
    BY <1>1, <2>1 DEF Analyse, Typed, GateTypeOK
  <2> QED
    BY <1>1, <2>2, <2>3 DEF Analyse, Typed, GateTypeOK, PatchesTyped
<1>2. ASSUME NEW form \in FeedbackForms, GiveFeedback(form) PROVE Typed'
  <2>1. [form |-> form, at |-> now] \in Row(FeedbackForm)
    BY FormsAreForms DEF Row, Typed, GateTypeOK
  <2>2. first' \in [Tables -> Nat \cup {None}]
    BY <1>2, DatedTyped DEF GiveFeedback, Tables, RetentionDays
  <2>3. feedback' \in Seq(Row(FeedbackForm))
    BY <1>2, <2>1 DEF GiveFeedback, Typed, GateTypeOK
  <2> QED
    BY <1>2, <2>2, <2>3 DEF GiveFeedback, Typed, GateTypeOK, PatchesTyped
<1>3. ASSUME NEW form \in OutcomeForms, RecordOutcome(form) PROVE Typed'
  <2>1. outcomes' \in Seq(OutcomeForm)
    BY <1>3, FormsAreForms DEF RecordOutcome, Typed, GateTypeOK
  <2>2. first' \in [Tables -> Nat \cup {None}]
    BY <1>3, DatedTyped DEF RecordOutcome, Tables, RetentionDays
  <2> QED
    BY <1>3, <2>1, <2>2 DEF RecordOutcome, Typed, GateTypeOK, PatchesTyped
<1>4. ASSUME NEW p \in Products, NEW blocked \in BOOLEAN, ReviewCheckout(p, blocked) PROVE Typed'
  <2> DEFINE row == [all |-> checkouts[p].all + 1, blocked |-> checkouts[p].blocked + One(blocked)]
  <2>1. checkouts[p] \in [all : Nat, blocked : Nat] /\ checkouts[p].blocked <= checkouts[p].all
    BY DEF Typed, GateTypeOK
  <2>2. row \in [all : Nat, blocked : Nat] /\ row.blocked <= row.all
    BY <2>1 DEF One
  <2>3. checkouts' = [checkouts EXCEPT ![p] = row]
    BY <1>4 DEF ReviewCheckout, Typed, GateTypeOK
  <2> HIDE DEF row
  <2>4. /\ checkouts' \in [Products -> [all : Nat, blocked : Nat]]
        /\ \A q \in Products : checkouts'[q].blocked <= checkouts'[q].all
    BY <2>2, <2>3 DEF Typed, GateTypeOK
  <2>5. first' \in [Tables -> Nat \cup {None}]
    BY <1>4, DatedTyped DEF ReviewCheckout, Tables, RetentionDays
  <2> QED
    BY <1>4, <2>4, <2>5 DEF ReviewCheckout, Typed, GateTypeOK, PatchesTyped
<1>5. ASSUME NEW form \in EventForms, RecordEvent(form) PROVE Typed'
  <2>1. form.type \in GrowthEventType /\ One(form.fresh) \in Nat
    BY FormsAreForms DEF EventForm, One
  <2>2. events' \in [GrowthEventType -> Nat]
    BY <1>5, <2>1 DEF RecordEvent, Typed, GateTypeOK
  <2>3. counts' \in [Counted -> Nat] /\ counts'["shared"] <= counts'["saved"]
    BY <1>5, <2>1 DEF RecordEvent, Typed, GateTypeOK, Counted
  <2>4. first' \in [Tables -> Nat \cup {None}]
    BY <1>5, DatedTyped DEF RecordEvent, Tables, RetentionDays
  <2> QED
    BY <1>5, <2>2, <2>3, <2>4 DEF RecordEvent, Typed, GateTypeOK, PatchesTyped
<1>6. ASSUME NEW h \in Hosts, NEW blocked \in BOOLEAN, RecordFetch(h, blocked) PROVE Typed'
  <2>1. fetches' \in [Hosts -> [allowed : Nat, blocked : Nat]]
    BY <1>6 DEF RecordFetch, One, Typed, GateTypeOK
  <2> QED
    BY <1>6, <2>1 DEF RecordFetch, Typed, GateTypeOK, PatchesTyped
<1>7. ASSUME NEW c \in Categories, NEW status \in IntegrationStatuses, RegisterProvider(c, status)
      PROVE  Typed'
  <2>1. providers' \in [Categories -> SUBSET IntegrationStatuses]
    BY <1>7 DEF RegisterProvider, Typed, GateTypeOK
  <2> QED
    BY <1>7, <2>1 DEF RegisterProvider, Typed, GateTypeOK, PatchesTyped
<1>8. ASSUME NEW c \in Counted, CountUp(c) PROVE Typed'
  <2>1. counts' \in [Counted -> Nat] /\ counts'["shared"] <= counts'["saved"]
    BY <1>8 DEF CountUp, Possible, Typed, GateTypeOK, Counted
  <2>2. first' \in [Tables -> Nat \cup {None}]
    <3>1. c \in DOMAIN TableOf => TableOf[c] \in Tables
      BY DEF TableOf, Tables, RetentionDays
    <3> QED
      BY <1>8, <3>1, DatedTyped DEF CountUp, Typed, GateTypeOK
  <2> QED
    BY <1>8, <2>1, <2>2 DEF CountUp, Typed, GateTypeOK, PatchesTyped
<1>9. ASSUME RevokeShare PROVE Typed'
  <2>1. counts' \in [Counted -> Nat] /\ counts'["shared"] <= counts'["saved"]
    BY <1>9 DEF RevokeShare, Typed, GateTypeOK, Counted
  <2> QED
    BY <1>9, <2>1 DEF RevokeShare, Typed, GateTypeOK, PatchesTyped
<1>10. ASSUME NEW t \in Others, AddOther(t) PROVE Typed'
  <2>1. first' \in [Tables -> Nat \cup {None}]
    BY <1>10, DatedTyped DEF AddOther, Others, Tables, RetentionDays
  <2> QED
    BY <1>10, <2>1 DEF AddOther, Typed, GateTypeOK, PatchesTyped
<1> QED
  BY <1>1, <1>2, <1>3, <1>4, <1>5, <1>6, <1>7, <1>8, <1>9, <1>10 DEF AddRow

\* A PATCH stores what it read, or what its form asks for.
LEMMA PatchTyped == ASSUME Typed, NEW p \in Patchers, Patch(p) PROVE Typed'
<1>0. patch = [q \in Patchers |-> patch[q]] /\ \A q \in Patchers : patch[q] # None => PatchOK(patch[q])
  BY DEF Typed, PatchesTyped
<1>1. ASSUME NEW item \in Backlog, NEW form \in PatchForms, PatchFind(p, item, form)
      PROVE  Typed'
  <2> DEFINE asked == IF form.due \in {None, Unreadable} THEN form.due ELSE now + form.due
             held == [id |-> item.id, status |-> form.status, due |-> item.due, decided |-> FALSE,
                      asked |-> asked]
  <2>1. StoredOK(item)
    BY BacklogTyped
  <2>2. form.status \in Statuses /\ form.due \in Int \cup {Unreadable, None}
    BY FormsAreForms
  <2>3. asked \in Deadline \cup {None}
    BY <2>2 DEF Deadline, Typed, GateTypeOK
  <2>4. patch' = [patch EXCEPT ![p] = held]
    BY <1>1 DEF PatchFind
  <2> HIDE DEF asked
  <2>5. PatchOK(held)
    BY <2>1, <2>2, <2>3 DEF PatchOK, StoredOK
  <2> HIDE DEF held
  <2>6. PatchesTyped'
    BY <1>0, <2>4, <2>5 DEF PatchesTyped
  <2> QED
    BY <1>1, <2>6 DEF PatchFind, ledger, Typed, GateTypeOK
<1>3. ASSUME PatchRead(p) PROVE Typed'
  <2> DEFINE old == patch[p]
             due == CASE old.asked # None -> old.asked
                      [] old.asked = None /\ old.id \in DOMAIN actions -> actions[old.id].due
                      [] OTHER -> old.due
  <2>1. PatchOK(old)
    BY <1>0, <1>3 DEF PatchRead
  <2>2. \A id \in DOMAIN actions : actions[id].due \in Deadline
    BY DEF Typed, GateTypeOK
  <2>3. due \in Deadline
    BY <2>1, <2>2 DEF PatchOK, StoredOK
  <2>4. patch' = [patch EXCEPT ![p] = [old EXCEPT !.decided = TRUE, !.due = due]]
    BY <1>0, <1>3 DEF PatchRead
  <2> HIDE DEF due, old
  <2>5. PatchOK([old EXCEPT !.decided = TRUE, !.due = due])
    BY <2>1, <2>3 DEF PatchOK, StoredOK
  <2>6. PatchesTyped'
    BY <1>0, <2>4, <2>5 DEF PatchesTyped
  <2> QED
    BY <1>3, <2>6 DEF PatchRead, ledger, Typed, GateTypeOK
<1>2. ASSUME PatchWrite(p) PROVE Typed'
  <2>1. StoredOK(patch[p])
    BY <1>0, <1>2 DEF PatchWrite, PatchOK
  <2>2. \A id \in DOMAIN actions' : actions'[id] \in [status : Statuses, due : Deadline]
    BY <1>2, <2>1 DEF PatchWrite, Typed, GateTypeOK, StoredOK
  <2>3. PatchesTyped'
    BY <1>2 DEF PatchWrite, Typed, PatchesTyped
  <2> QED
    BY <1>2, <2>2, <2>3 DEF PatchWrite, ledger, Typed, GateTypeOK
<1> QED
  BY <1>1, <1>2, <1>3 DEF Patch

\* Days pass.
LEMMA PassTyped == ASSUME Typed, NEW days \in Days, Pass(days) PROVE Typed'
<1>1. now' \in Nat
  BY FormsAreForms DEF Pass, Typed, GateTypeOK
<1> QED
  BY <1>1 DEF Pass, ledger, Typed, GateTypeOK, PatchesTyped

\* All steps of the gate.
LEMMA GateTyped == ASSUME Typed, GateNext PROVE Typed'
  BY AddRowTyped, PatchTyped, PassTyped DEF GateNext

-----------------------------------------------------------------------------
(* Types of the boards.                                                     *)

\* A status made from a score is a verdict,
LEMMA StatusAtVerdict ==
    ASSUME NEW score, NEW warning, NEW ok PROVE StatusAt(score, warning, ok) \in Verdict
  BY DEF StatusAt, AtLeast, Verdict

\*   and so is the worst of a list.
LEMMA WorstVerdict == ASSUME NEW checks PROVE Worst(checks) \in Verdict
  BY DEF Worst, Verdict

\* The one status that boards hand on is a verdict.
LEMMA ScoredSurface == Scored(Facts).surface \in Verdict
<1> DEFINE f == Router(SharePack(Objections(Wall(Proof(Converting(Acquisition(Pulse(Facts))))))))
           score == SmokeScore(SmokeChecks(f))
           status == Judged(SmokeChecks(f), score, 45, 76)
<1>1. "surface" \in DOMAIN f
  <2>1. "surface" \in DOMAIN Facts
    BY DEF Facts
  <2> QED
    BY <2>1 DEF Router, SharePack, Objections, Wall, Proof, Converting, Acquisition, Pulse
<1>2. status \in Verdict
  BY WorstVerdict DEF Judged
<1>3. Smoke(f) = [f EXCEPT !.smoke = score, !.surface = status]
  BY DEF Smoke
<1>4. Scored(Facts) = Incident(Command(Smoke(f)))
  BY DEF Scored
<1> HIDE DEF f, score, status
<1>5. "surface" \in DOMAIN Smoke(f) /\ Smoke(f).surface = status
  BY <1>1, <1>3
<1>6. "surface" \in DOMAIN Command(Smoke(f)) /\ Command(Smoke(f)).surface = status
  BY <1>5 DEF Command
<1>7. Incident(Command(Smoke(f))).surface = status
  BY <1>6 DEF Incident
<1> QED
  BY <1>2, <1>4, <1>7

\* Standings are ranks: of verdicts,
LEMMA GoodStands == ASSUME NEW v \in Verdict PROVE Good(v) \in 0..3
  BY DEF Good, Rank, Verdict

\*   and of decisions.
LEMMA RankOfDecision ==
    ASSUME NEW d \in {"blocked", "hold", "limited_beta", "go"} PROVE DecisionRank(d) \in 0..3
  BY DEF DecisionRank

\* Every standing is one of four ranks.
LEMMA StandingTyped == ASSUME NEW f, f.surface \in Verdict PROVE Range(Standing(f)) \subseteq 0..3
<1>1. PulseStatus(f) \in Verdict
  BY DEF PulseStatus, Verdict
<1>2. /\ AcquisitionStatus(f) \in Verdict /\ ProofStatus(f) \in Verdict
      /\ WallStatus(f) \in Verdict /\ ObjectionStatus(f) \in Verdict
      /\ ShareStatus(f) \in Verdict /\ RouterStatus(f) \in Verdict
  BY StatusAtVerdict DEF AcquisitionStatus, ProofStatus, WallStatus, ObjectionStatus, ShareStatus,
                         RouterStatus
<1>3. ConversionStatus(f) \in Verdict
  BY WorstVerdict DEF ConversionStatus
<1>4. Decide(f.gate, f.ready) \in {"blocked", "hold", "limited_beta", "go"}
  BY DecideType
<1>5. Preflight(f, PreflightChecks(f)) \in {"blocked", "hold", "limited_beta", "go"}
  <2> DEFINE checks == PreflightChecks(f)
             score == PreflightScore(f, checks)
  <2> HIDE DEF checks, score
  <2>1. PreflightDecision(checks, score) \in {"blocked", "hold", "limited_beta", "go"}
    BY DEF PreflightDecision
  <2> QED
    BY <2>1 DEF Preflight, checks, score
<1>6. WarRoomDecision(f) \in {"hold_and_fix", "collect_more_signal", "limited_push", "scale"}
  BY DEF WarRoomDecision
<1>7. IncidentLevel(f) \in {"sev1_hold_launch", "sev2_limited_launch", "sev3_watch", "green_scale"}
  BY DEF IncidentLevel
<1>8. \A b \in DOMAIN Standing(f) : Standing(f)[b] \in 0..3
  BY <1>1, <1>2, <1>3, <1>4, <1>5, <1>6, <1>7, GoodStands, RankOfDecision DEF Standing
<1> QED
  BY <1>8 DEF Range

\* So is what the boards show now.
LEMMA BoardsTyped == Range(Boards) \subseteq 0..3
  BY BoardsAreScored, ScoredSurface, StandingTyped

\* The type invariant, inductive with what a PATCH in progress holds.
AudienceTyped ==
    /\ waitlist \in Seq(Nat \cup {None})
    /\ \A i \in DOMAIN waitlist : waitlist[i] \in 0..(i - 1) \cup {None}
    /\ intents \in Seq(IntentForm)
    /\ trials \in Seq(Trial) /\ exports \in Seq(ExportStatuses)

HistoryTyped == before # None => Range(before) \subseteq 0..3
TypesInv == Typed /\ AudienceTyped /\ HistoryTyped

\* It holds of the tables to begin with,
LEMMA InitTypes == Init => TypesInv
<1> SUFFICES ASSUME Init PROVE TypesInv
  OBVIOUS
<1>1. Typed
  BY InitTyped
<1>2. PICK l \in Ledgers : /\ waitlist = l.waitlist /\ intents = l.intents /\ trials = l.trials
                          /\ exports = l.exports /\ before = None
  BY DEF Init
<1>3. AudienceTyped
  BY <1>2, LedgersAssumption DEF AudienceTyped, Ledger
<1>4. HistoryTyped
  BY <1>2 DEF HistoryTyped
<1> QED
  BY <1>1, <1>3, <1>4 DEF TypesInv

\* An experiment that moves to the end keeps its type.
LEMMA UpdatedTyped ==
    ASSUME AudienceTyped, NEW i \in DOMAIN trials, NEW field \in {"impressions", "conversions"}
    PROVE  Updated(i, field) \in Seq(Trial)
<1>1. trials[i] \in Trial /\ i \in Nat \ {0} /\ Len(trials) \in Nat /\ i <= Len(trials)
  BY DEF AudienceTyped
<1>2. [trials[i] EXCEPT ![field] = @ + 1] \in Trial
  BY <1>1 DEF Trial
<1>3. /\ SubSeq(trials, 1, i - 1) \in Seq(Trial)
      /\ SubSeq(trials, i + 1, Len(trials)) \in Seq(Trial)
  <2>1. \A j \in 1..(i - 1) : trials[j] \in Trial
    BY <1>1 DEF AudienceTyped
  <2>2. \A j \in (i + 1)..Len(trials) : trials[j] \in Trial
    BY <1>1 DEF AudienceTyped
  <2> QED
    BY <1>1, <2>1, <2>2, SubSeqProperties DEF AudienceTyped
<1>4. RemoveAt(trials, i) \in Seq(Trial)
  BY <1>3, ConcatProperties DEF RemoveAt
<1> QED
  BY <1>2, <1>4 DEF Updated

\* Requests of the audience.
LEMMA RequestTyped ==
    ASSUME Typed, AudienceTyped,
           \/ \E by \in 0..Len(waitlist) \cup {None} : JoinWaitlist(by)
           \/ \E form \in IntentForms : RecordIntent(form)
           \/ \E form \in EventForms : StartExperiment(form.type)
           \/ \E i \in DOMAIN trials : See(i) \/ \E fresh \in BOOLEAN : Convert(i, fresh)
           \/ QueueExport
           \/ \E outcome \in [{i \in DOMAIN exports : exports[i] = "queued"} -> ExportStatuses] :
                  Dispatch(outcome)
    PROVE  Typed' /\ AudienceTyped'
<1>1. ASSUME NEW by \in 0..Len(waitlist) \cup {None}, JoinWaitlist(by)
      PROVE  Typed' /\ AudienceTyped'
  <2>1. Len(waitlist) \in Nat
    BY DEF AudienceTyped
  <2>2. waitlist' \in Seq(Nat \cup {None})
    BY <1>1, <2>1 DEF JoinWaitlist, AudienceTyped
  <2>3. \A i \in DOMAIN waitlist' : waitlist'[i] \in 0..(i - 1) \cup {None}
    BY <1>1, <2>1 DEF JoinWaitlist, AudienceTyped
  <2> QED
    BY <1>1, <2>2, <2>3 DEF JoinWaitlist, gateVars, ledger, Typed, GateTypeOK, PatchesTyped,
                            AudienceTyped
<1>2. ASSUME NEW form \in IntentForms, RecordIntent(form) PROVE Typed' /\ AudienceTyped'
  <2>1. first' \in [Tables -> Nat \cup {None}]
    BY <1>2, DatedTyped DEF RecordIntent, Tables, RetentionDays
  <2>2. intents' \in Seq(IntentForm)
    BY <1>2, BoardsAssumption DEF RecordIntent, AudienceTyped
  <2> QED
    BY <1>2, <2>1, <2>2 DEF RecordIntent, Typed, GateTypeOK, PatchesTyped, AudienceTyped
<1>3. ASSUME NEW form \in EventForms, StartExperiment(form.type) PROVE Typed' /\ AudienceTyped'
  <2>1. first' \in [Tables -> Nat \cup {None}]
    BY <1>3, DatedTyped DEF StartExperiment, Tables, RetentionDays
  <2>2. [metric |-> form.type, impressions |-> 0, conversions |-> 0] \in Trial
    BY FormsAreForms DEF Trial, EventForm
  <2>3. trials' \in Seq(Trial)
    BY <1>3, <2>2 DEF StartExperiment, AudienceTyped
  <2> QED
    BY <1>3, <2>1, <2>3 DEF StartExperiment, Typed, GateTypeOK, PatchesTyped, AudienceTyped
<1>4. ASSUME NEW i \in DOMAIN trials, See(i) PROVE Typed' /\ AudienceTyped'
  <2>1. first' \in [Tables -> Nat \cup {None}]
    BY <1>4, DatedTyped DEF See, Tables, RetentionDays
  <2>2. trials' \in Seq(Trial)
    BY <1>4, UpdatedTyped DEF See
  <2> QED
    BY <1>4, <2>1, <2>2 DEF See, Typed, GateTypeOK, PatchesTyped, AudienceTyped
<1>5. ASSUME NEW i \in DOMAIN trials, NEW fresh \in BOOLEAN, Convert(i, fresh)
      PROVE  Typed' /\ AudienceTyped'
  <2>1. first' \in [Tables -> Nat \cup {None}]
    BY <1>5 DEF Convert, Typed, GateTypeOK
  <2>2. trials' \in Seq(Trial)
    BY <1>5, UpdatedTyped DEF Convert
  <2>3. trials[i] \in Trial
    BY DEF AudienceTyped
  <2> DEFINE n == One(fresh)
  <2>4. trials[i].metric \in GrowthEventType /\ n \in Nat
    BY <2>3 DEF Trial, One
  <2>5. counts' = [counts EXCEPT !["traces"] = @ + n]
    BY <1>5 DEF Convert
  <2> HIDE DEF n
  <2>6. events' \in [GrowthEventType -> Nat]
    BY <1>5, <2>4 DEF Convert, Typed, GateTypeOK
  <2>7. counts' \in [Counted -> Nat] /\ counts'["shared"] <= counts'["saved"]
    BY <2>5, <2>4 DEF Typed, GateTypeOK, Counted
  <2> QED
    BY <1>5, <2>1, <2>2, <2>6, <2>7 DEF Convert, Typed, GateTypeOK, PatchesTyped, AudienceTyped
<1>6. ASSUME QueueExport PROVE Typed' /\ AudienceTyped'
  <2>1. first' \in [Tables -> Nat \cup {None}]
    BY <1>6, DatedTyped DEF QueueExport, Tables, RetentionDays
  <2>2. exports' \in Seq(ExportStatuses)
    BY <1>6 DEF QueueExport, ExportStatuses, AudienceTyped
  <2> QED
    BY <1>6, <2>1, <2>2 DEF QueueExport, Typed, GateTypeOK, PatchesTyped, AudienceTyped
<1>7. ASSUME NEW outcome \in [{i \in DOMAIN exports : exports[i] = "queued"} -> ExportStatuses],
             Dispatch(outcome)
      PROVE  Typed' /\ AudienceTyped'
  <2> DEFINE new(i) == IF exports[i] = "queued" THEN outcome[i] ELSE exports[i]
  <2>1. Len(exports) \in Nat /\ DOMAIN exports = 1..Len(exports)
    BY DEF AudienceTyped
  <2>2. \A i \in 1..Len(exports) : new(i) \in ExportStatuses
    BY <2>1 DEF AudienceTyped
  <2>3. exports' = [i \in 1..Len(exports) |-> new(i)]
    BY <1>7, <2>1 DEF Dispatch
  <2> HIDE DEF new
  <2>4. exports' \in Seq(ExportStatuses)
    BY <2>1, <2>2, <2>3
  <2> QED
    BY <1>7, <2>4 DEF Dispatch, gateVars, ledger, Typed, GateTypeOK, PatchesTyped, AudienceTyped
<1> QED
  BY <1>1, <1>2, <1>3, <1>4, <1>5, <1>6, <1>7

\*   and every step keeps it.
LEMMA StepTypes == ASSUME TypesInv, [Next]_vars PROVE TypesInv'
<1>1. CASE Next
  <2>1. ASSUME GateNext, UNCHANGED audience PROVE Typed' /\ AudienceTyped'
    <3>1. Typed'
      BY <2>1, GateTyped DEF TypesInv
    <3>2. AudienceTyped'
      BY <2>1 DEF TypesInv, AudienceTyped, audience
    <3> QED
      BY <3>1, <3>2
  <2>2. Typed' /\ AudienceTyped'
    BY <1>1, <2>1, RequestTyped DEF Next, Serve, TypesInv
  <2>3. PICK shown \in {Boards} : before' = IF SignUp THEN shown ELSE None
    BY <1>1 DEF Next
  <2>4. HistoryTyped'
    BY <2>3, BoardsTyped DEF HistoryTyped
  <2> QED
    BY <2>2, <2>4 DEF TypesInv
<1>2. CASE UNCHANGED vars
  BY <1>2 DEF vars, gateVars, ledger, audience, TypesInv, Typed, GateTypeOK, PatchesTyped,
              AudienceTyped, HistoryTyped
<1> QED
  BY <1>1, <1>2

-----------------------------------------------------------------------------
(* Sums.  No operator can be handed to a lemma, but sets can: induction on  *)
(* the naturals is the least element of the set of counterexamples.         *)

\* Every set of naturals has a least one.
LEMMA LeastNat == ASSUME NEW T \in SUBSET Nat, T # {} PROVE \E n \in T : \A m \in T : n <= m
<1> DEFINE R == {ss \in Nat \X Nat : ss[1] < ss[2]}
<1>1. IsWellFoundedOn(R, Nat)
  BY NatLessThanWellFounded, Zenon DEF OpToRel
<1> HIDE DEF R
<1>2. PICK n \in T : \A m \in T : ~ (<<m, n>> \in R)
  BY <1>1, WFMin
<1>3. \A m \in T : ~ (m < n)
  BY <1>2 DEF R
<1> QED
  BY <1>3

\* The function of partial sums exists.
LEMMA PartialSums ==
    ASSUME NEW s \in Seq(Int), NEW n \in 0..Len(s)
    PROVE  \E g : g = [i \in 0..n |-> IF i = 0 THEN 0 ELSE g[i - 1] + s[i]]
<1> DEFINE P(k) == \E g : g = [i \in 0..k |-> IF i = 0 THEN 0 ELSE g[i - 1] + s[i]]
           Bad == {k \in 0..Len(s) : ~ P(k)}
<1>1. P(0)
  <2>1. [i \in 0..0 |-> 0] = [i \in 0..0 |-> IF i = 0 THEN 0 ELSE [j \in 0..0 |-> 0][i - 1] + s[i]]
    OBVIOUS
  <2> QED
    BY <2>1
<1>2. ASSUME NEW k \in Nat, P(k) PROVE P(k + 1)
  <2>1. PICK g : g = [i \in 0..k |-> IF i = 0 THEN 0 ELSE g[i - 1] + s[i]]
    BY <1>2
  <2> DEFINE h == [i \in 0..(k + 1) |-> IF i = k + 1 THEN g[k] + s[k + 1] ELSE g[i]]
  <2>2. ASSUME NEW i \in 0..(k + 1) PROVE h[i] = IF i = 0 THEN 0 ELSE h[i - 1] + s[i]
    <3>1. CASE i = 0
      BY <3>1, <2>1
    <3>2. CASE i \in 1..k
      <4>1. h[i] = g[i] /\ h[i - 1] = g[i - 1]
        BY <3>2
      <4>2. g[i] = g[i - 1] + s[i]
        BY <3>2, <2>1
      <4> QED
        BY <3>2, <4>1, <4>2
    <3>3. CASE i = k + 1
      BY <3>3
    <3> QED
      BY <3>1, <3>2, <3>3
  <2>3. h = [i \in 0..(k + 1) |-> IF i = 0 THEN 0 ELSE h[i - 1] + s[i]]
    BY <2>2
  <2> QED
    BY <2>3
<1>3. Bad = {}
  <2> SUFFICES ASSUME Bad # {} PROVE FALSE
    OBVIOUS
  <2>1. Bad \in SUBSET Nat /\ Len(s) \in Nat
    OBVIOUS
  <2>2. PICK k \in Bad : \A m \in Bad : k <= m
    BY <2>1, LeastNat
  <2>3. k # 0 /\ k \in 0..Len(s)
    BY <1>1
  <2> HIDE DEF P
  <2>4. k - 1 \in Nat /\ k - 1 \in 0..Len(s) /\ k - 1 \notin Bad
    BY <2>1, <2>2, <2>3
  <2>5. P(k - 1)
    BY <2>4
  <2>6. P((k - 1) + 1)
    BY <1>2, <2>4, <2>5
  <2> QED
    BY <2>2, <2>6
<1> QED
  BY <1>3

\* A sum is the last of its partial sums.
LEMMA SumIsLast ==
    ASSUME NEW s \in Seq(Int)
    PROVE  \E g : /\ g[0] = 0
                  /\ \A i \in 1..Len(s) : g[i] = g[i - 1] + s[i]
                  /\ SumOf(s) = g[Len(s)]
<1> DEFINE sum == CHOOSE g : g = [i \in 0..Len(s) |-> IF i = 0 THEN 0 ELSE g[i - 1] + s[i]]
<1>1. Len(s) \in Nat
  OBVIOUS
<1>2. sum = [i \in 0..Len(s) |-> IF i = 0 THEN 0 ELSE sum[i - 1] + s[i]]
  <2>1. Len(s) \in 0..Len(s)
    BY <1>1
  <2>2. \E g : g = [i \in 0..Len(s) |-> IF i = 0 THEN 0 ELSE g[i - 1] + s[i]]
    BY <2>1, PartialSums
  <2> QED
    BY <2>2, Zenon
<1>3. SumOf(s) = sum[Len(s)]
  BY DEF SumOf
<1> HIDE DEF sum
<1>4. sum[0] = 0 /\ \A i \in 1..Len(s) : sum[i] = sum[i - 1] + s[i]
  BY <1>1, <1>2
<1> QED
  BY <1>3, <1>4

\* Larger numbers add up to more.
LEMMA AddUp ==
    ASSUME NEW a \in Int, NEW b \in Int, NEW x \in Int, NEW y \in Int, a <= b, x <= y
    PROVE  a + x \in Int /\ b + y \in Int /\ a + x <= b + y
OBVIOUS

\* Partial sums of a longer list of larger numbers are larger, if the rest is not negative.
LEMMA SumUp ==
    ASSUME NEW s \in Seq(Int), NEW t \in Seq(Int), Len(s) <= Len(t),
           \A i \in 1..Len(s) : s[i] <= t[i],
           \A i \in (Len(s) + 1)..Len(t) : t[i] >= 0
    PROVE  SumOf(s) \in Int /\ SumOf(t) \in Int /\ SumOf(s) <= SumOf(t)
<1>1. /\ Len(s) \in Nat /\ Len(t) \in Nat
      /\ \A i \in 1..Len(s) : s[i] \in Int
      /\ \A i \in 1..Len(t) : t[i] \in Int
  OBVIOUS
<1>2. PICK n \in Nat, m \in Nat : n = Len(s) /\ m = Len(t)
  BY <1>1
<1>3. PICK g : g[0] = 0 /\ SumOf(s) = g[n] /\ \A i \in 1..n : g[i] = g[i - 1] + s[i]
  BY <1>2, SumIsLast
<1>4. PICK h : h[0] = 0 /\ SumOf(t) = h[m] /\ \A i \in 1..m : h[i] = h[i - 1] + t[i]
  BY <1>2, SumIsLast
<1> DEFINE Sound(k) == /\ h[k] \in Int
                       /\ k <= n => g[k] \in Int /\ g[k] <= h[k]
                       /\ k > n => g[n] \in Int /\ g[n] <= h[k]
           Bad == {k \in 0..m : ~ Sound(k)}
<1>5. Bad = {}
  <2> SUFFICES ASSUME Bad # {} PROVE FALSE
    OBVIOUS
  <2>1. PICK k \in Bad : \A j \in Bad : k <= j
    <3>1. Bad \in SUBSET Nat
      OBVIOUS
    <3> QED
      BY <3>1, LeastNat
  <2>2. k \in 1..m
    BY <1>3, <1>4, <2>1
  <2>3. Sound(k - 1)
    <3>1. k - 1 \in 0..m /\ k - 1 \notin Bad
      BY <2>1, <2>2
    <3> QED
      BY <3>1
  <2>4. h[k] = h[k - 1] + t[k] /\ t[k] \in Int
    BY <1>1, <1>2, <1>4, <2>2
  <2>5. CASE k <= n
    <3>1. g[k] = g[k - 1] + s[k] /\ s[k] \in Int /\ s[k] <= t[k]
      BY <1>1, <1>2, <1>3, <2>2, <2>5
    <3>2. g[k - 1] \in Int /\ h[k - 1] \in Int /\ g[k - 1] <= h[k - 1]
      BY <2>2, <2>3, <2>5
    <3> HIDE DEF Sound, Bad
    <3>3. g[k] \in Int /\ h[k] \in Int /\ g[k] <= h[k]
      BY <2>4, <3>1, <3>2, AddUp
    <3>4. Sound(k)
      BY <2>2, <2>5, <3>3 DEF Sound
    <3> QED
      BY <2>1, <3>4 DEF Bad
  <2>6. CASE k > n
    <3>1. t[k] >= 0
      BY <1>2, <2>2, <2>6
    <3>2. g[n] \in Int /\ h[k - 1] \in Int /\ g[n] <= h[k - 1]
      <4>1. CASE k - 1 = n
        BY <2>3, <4>1
      <4>2. CASE k - 1 > n
        BY <2>3, <4>2
      <4> QED
        BY <2>2, <2>6, <4>1, <4>2
    <3>3. Sound(k)
      BY <2>2, <2>4, <2>6, <3>1, <3>2
    <3> QED
      BY <2>1, <3>3
  <2> QED
    BY <2>5, <2>6, <2>2
<1>6. n \in 0..m /\ m \in 0..m
  BY <1>2
<1>7. Sound(n) /\ Sound(m)
  BY <1>5, <1>6
<1> QED
  BY <1>2, <1>3, <1>4, <1>6, <1>7

\* The sum of naturals is one.
LEMMA SumNat == ASSUME NEW s \in Seq(Nat) PROVE SumOf(s) \in Nat
<1>1. s \in Seq(Int) /\ <<>> \in Seq(Int) /\ Len(<<>>) = 0
  OBVIOUS
<1>2. SumOf(<<>>) = 0
  BY <1>1, SumIsLast
<1>3. SumOf(<<>>) <= SumOf(s) /\ SumOf(s) \in Int
  <2>1. PICK e \in Seq(Int) : e = <<>> /\ Len(e) = 0
    BY <1>1
  <2>2. /\ Len(e) <= Len(s)
        /\ \A i \in 1..Len(e) : e[i] <= s[i]
        /\ \A i \in (Len(e) + 1)..Len(s) : s[i] >= 0
    BY <2>1
  <2> QED
    BY <1>1, <2>1, <2>2, SumUp
<1> QED
  BY <1>2, <1>3

-----------------------------------------------------------------------------
(* Every operator that boards are made of is monotone.                      *)

\* y is a number no smaller than x,
Up(x, y) == x \in Int /\ y \in Int /\ x <= y

\*   and v a verdict no worse than u.
NoWorse(u, v) == u \in Verdict /\ v \in Verdict /\ Rank(v) <= Rank(u)

\* Division by a positive number keeps the order.
LEMMA DivUp == ASSUME NEW a, NEW b, Up(a, b), NEW n \in Nat \ {0} PROVE Up(a \div n, b \div n)
<1>1. a \in Int /\ b \in Int /\ a <= b
  BY DEF Up
<1>2. PICK p \in Int : p = a \div n
  BY <1>1
<1>3. PICK q \in Int : q = b \div n
  BY <1>1
<1>4. n * p <= a /\ a < n * p + n
  BY <1>1, <1>2
<1>5. n * q <= b /\ b < n * q + n
  BY <1>1, <1>3
<1>6. n * p < n * (q + 1)
  BY <1>1, <1>4, <1>5
<1>7. p < q + 1
  BY <1>6
<1> QED
  BY <1>2, <1>3, <1>7 DEF Up

\* So does a weight.
LEMMA WeightUp == ASSUME NEW w \in Nat, NEW a, NEW b, Up(a, b) PROVE Up(w * a, w * b)
BY DEF Up

\* Rounding to a tenth keeps it,
LEMMA TenthUp == ASSUME NEW a, NEW b, Up(a, b) PROVE Up(Tenth(a), Tenth(b))
BY DEF Tenth, Up

\*   and so does a bound from above, of a score
LEMMA CappedUp == ASSUME NEW a, NEW b, Up(a, b) PROVE Up(Capped(a), Capped(b))
BY DEF Capped, AtMost, Points, Up

\*   or of anything.
LEMMA AtMostUp ==
    ASSUME NEW a, NEW b, Up(a, b), NEW bound \in Int PROVE Up(AtMost(a, bound), AtMost(b, bound))
BY DEF AtMost, Up

\* Larger values have better statuses,
LEMMA AtLeastUp ==
    ASSUME NEW a, NEW b, Up(a, b), NEW warning \in Int, NEW ok \in Int
    PROVE  NoWorse(AtLeast(a, warning, ok), AtLeast(b, warning, ok))
BY DEF AtLeast, NoWorse, Verdict, Rank, Up

\*   scores too,
LEMMA StatusAtUp ==
    ASSUME NEW a, NEW b, Up(a, b), NEW warning \in Int, NEW ok \in Int
    PROVE  NoWorse(StatusAt(a, warning, ok), StatusAt(b, warning, ok))
<1>1. Points(warning) \in Int /\ Points(ok) \in Int
  BY DEF Points
<1> QED
  BY <1>1, AtLeastUp DEF StatusAt

\*   and better statuses larger scores.
LEMMA StatusScoreUp ==
    ASSUME NEW u, NEW v, NoWorse(u, v) PROVE Up(StatusScore(u), StatusScore(v))
BY DEF StatusScore, NoWorse, Verdict, Rank, Points, Up

\* The worst of better verdicts is better.
LEMMA WorstUp ==
    ASSUME NEW S, NEW T, \A v \in T : \E u \in S : NoWorse(u, v)
    PROVE  NoWorse(Worst(S), Worst(T))
<1>1. "blocker" \in T => "blocker" \in S
  BY DEF NoWorse, Verdict, Rank
<1>2. "warning" \in T => "warning" \in S \/ "blocker" \in S
  BY DEF NoWorse, Verdict, Rank
<1> QED
  BY <1>1, <1>2 DEF Worst, NoWorse, Verdict, Rank

\* Lists or records of verdicts, one by one no worse.
ListNoWorse(a, b) == DOMAIN a = DOMAIN b /\ \A i \in DOMAIN a : NoWorse(a[i], b[i])

\* The judgement of a list and of a score is no worse.
LEMMA JudgedUp ==
    ASSUME NEW a, NEW b, ListNoWorse(a, b), NEW x, NEW y, Up(x, y), NEW blocked \in Int, NEW ok \in Int
    PROVE  NoWorse(Judged(a, x, blocked, ok), Judged(b, y, blocked, ok))
<1> DEFINE S == Range(a) \cup {StatusAt(x, blocked, ok)}
           T == Range(b) \cup {StatusAt(y, blocked, ok)}
<1>1. NoWorse(StatusAt(x, blocked, ok), StatusAt(y, blocked, ok))
  BY StatusAtUp
<1>2. \A v \in Range(b) : \E u \in Range(a) : NoWorse(u, v)
  BY DEF ListNoWorse, Range
<1>3. \A v \in T : \E u \in S : NoWorse(u, v)
  BY <1>1, <1>2
<1>4. NoWorse(Worst(S), Worst(T))
  BY <1>3, WorstUp
<1> QED
  BY <1>4 DEF Judged

\* Two lists of numbers, one by one no smaller.
ListUp(a, b) ==
    /\ a \in Seq(Int) /\ b \in Seq(Int) /\ Len(a) = Len(b)
    /\ \A i \in 1..Len(a) : a[i] <= b[i]

\* They add up to no less.
LEMMA ListSum == ASSUME NEW a, NEW b, ListUp(a, b) PROVE Up(SumOf(a), SumOf(b))
<1>1. \A i \in (Len(a) + 1)..Len(b) : b[i] >= 0
  BY DEF ListUp
<1> QED
  BY <1>1, SumUp DEF ListUp, Up

\* The average of a list of scores, as acquisition and the router take it.
Mean(list) == Tenth(Total(list, LAMBDA s : Tenth(Capped(s))) \div Len(list))

\* Their mean, capped and rounded, rises with them.
LEMMA MeanUp ==
    ASSUME NEW a, NEW b, ListUp(a, b), Len(a) > 0 PROVE Up(Mean(a), Mean(b))
<1> DEFINE x == [i \in DOMAIN a |-> Tenth(Capped(a[i]))]
           y == [i \in DOMAIN b |-> Tenth(Capped(b[i]))]
<1>1. /\ Len(a) \in Nat \ {0} /\ Len(b) = Len(a)
      /\ DOMAIN a = 1..Len(a) /\ DOMAIN b = 1..Len(a)
      /\ \A i \in 1..Len(a) : Up(a[i], b[i])
  BY DEF ListUp, Up
<1>2. \A i \in 1..Len(a) : Up(Tenth(Capped(a[i])), Tenth(Capped(b[i])))
  BY <1>1, CappedUp, TenthUp
<1>3. ListUp(x, y)
  BY <1>1, <1>2 DEF ListUp, Up
<1>4. Up(SumOf(x), SumOf(y))
  BY <1>3, ListSum
<1>5. Total(a, LAMBDA s : Tenth(Capped(s))) = SumOf(x) /\ Total(b, LAMBDA s : Tenth(Capped(s))) = SumOf(y)
  BY DEF Total
<1> HIDE DEF x, y
<1>6. Up(SumOf(x) \div Len(a), SumOf(y) \div Len(b))
  BY <1>1, <1>4, DivUp
<1> QED
  BY <1>5, <1>6, TenthUp DEF Mean

\* Weighted sums: each part a weight and a score.
PartsUp(a, b) ==
    /\ Len(a) \in Nat /\ Len(b) = Len(a) /\ DOMAIN a = 1..Len(a) /\ DOMAIN b = 1..Len(a)
    /\ \A i \in 1..Len(a) : a[i][1] \in Nat /\ b[i][1] = a[i][1] /\ Up(a[i][2], b[i][2])

\* A weighted sum rises with what it weighs,
LEMMA BlendUp == ASSUME NEW a, NEW b, PartsUp(a, b) PROVE Up(Blend(a), Blend(b))
<1> DEFINE x == [i \in DOMAIN a |-> a[i][1] * a[i][2]]
           y == [i \in DOMAIN b |-> b[i][1] * b[i][2]]
<1>1. \A i \in 1..Len(a) : Up(a[i][1] * a[i][2], b[i][1] * b[i][2])
  BY WeightUp DEF PartsUp
<1>2. ListUp(x, y)
  BY <1>1 DEF ListUp, PartsUp, Up
<1>3. Up(SumOf(x), SumOf(y))
  BY <1>2, ListSum
<1>4. Total(a, LAMBDA q : q[1] * q[2]) = SumOf(x) /\ Total(b, LAMBDA q : q[1] * q[2]) = SumOf(y)
  BY DEF Total
<1> HIDE DEF x, y
<1>5. Up(SumOf(x) \div 100, SumOf(y) \div 100)
  BY <1>3, DivUp
<1> QED
  BY <1>4, <1>5, TenthUp DEF Blend

\*   four parts
LEMMA Blend4 ==
    ASSUME NEW w1 \in Nat, NEW a1, NEW b1, Up(a1, b1), NEW w2 \in Nat, NEW a2, NEW b2, Up(a2, b2),
           NEW w3 \in Nat, NEW a3, NEW b3, Up(a3, b3), NEW w4 \in Nat, NEW a4, NEW b4, Up(a4, b4)
    PROVE  Up(Blend(<<<<w1, a1>>, <<w2, a2>>, <<w3, a3>>, <<w4, a4>>>>),
              Blend(<<<<w1, b1>>, <<w2, b2>>, <<w3, b3>>, <<w4, b4>>>>))
<1> DEFINE a == <<<<w1, a1>>, <<w2, a2>>, <<w3, a3>>, <<w4, a4>>>>
           b == <<<<w1, b1>>, <<w2, b2>>, <<w3, b3>>, <<w4, b4>>>>
<1>1. PartsUp(a, b)
  BY DEF PartsUp
<1> QED
  BY <1>1, BlendUp

\*   or five.
LEMMA Blend5 ==
    ASSUME NEW w1 \in Nat, NEW a1, NEW b1, Up(a1, b1), NEW w2 \in Nat, NEW a2, NEW b2, Up(a2, b2),
           NEW w3 \in Nat, NEW a3, NEW b3, Up(a3, b3), NEW w4 \in Nat, NEW a4, NEW b4, Up(a4, b4),
           NEW w5 \in Nat, NEW a5, NEW b5, Up(a5, b5)
    PROVE  Up(Blend(<<<<w1, a1>>, <<w2, a2>>, <<w3, a3>>, <<w4, a4>>, <<w5, a5>>>>),
              Blend(<<<<w1, b1>>, <<w2, b2>>, <<w3, b3>>, <<w4, b4>>, <<w5, b5>>>>))
<1> DEFINE a == <<<<w1, a1>>, <<w2, a2>>, <<w3, a3>>, <<w4, a4>>, <<w5, a5>>>>
           b == <<<<w1, b1>>, <<w2, b2>>, <<w3, b3>>, <<w4, b4>>, <<w5, b5>>>>
<1>1. PartsUp(a, b)
  BY DEF PartsUp
<1> QED
  BY <1>1, BlendUp

\* The score of activation, in four pieces.
LEMMA ActivationUp == ASSUME NEW a, NEW b, Up(a, b) PROVE Up(Activation(a), Activation(b))
<1> DEFINE Low(rate) == Tenth((rate * 550) \div 3)
           High(rate) == Tenth(Points(55) + ((rate - 3000) * 900) \div 7)
<1>0. a \in Int /\ b \in Int /\ a <= b
  BY DEF Up
<1>5. PICK half \in Int, full \in Int :
        /\ half = Points(55) /\ full = Points(100) /\ 0 <= half /\ half <= full
        /\ Tenth(0) = 0 /\ Tenth(half) = half /\ Tenth(full) = full
  BY SMT DEF Points, Tenth
<1>1. ASSUME NEW rate \in Int, 1 <= rate, rate <= 3000 PROVE Low(rate) \in Int /\ 0 <= Low(rate) /\ Low(rate) <= half
  <2>1. Up(0, (rate * 550) \div 3) /\ Up((rate * 550) \div 3, half)
    BY <1>1, <1>5, SMT DEF Up, Points
  <2> QED
    BY <1>5, <2>1, TenthUp, SMT DEF Up
<1>2. ASSUME NEW rate \in Int, 3001 <= rate, rate <= 6499 PROVE High(rate) \in Int /\ half <= High(rate) /\ High(rate) <= full
  <2>1. Up(half, Points(55) + ((rate - 3000) * 900) \div 7) /\ Up(Points(55) + ((rate - 3000) * 900) \div 7, full)
    BY <1>2, <1>5, SMT DEF Up, Points
  <2> QED
    BY <1>5, <2>1, TenthUp, SMT DEF Up
<1>3. ASSUME NEW x \in Int, NEW y \in Int, x <= y
      PROVE  Up(Low(x), Low(y)) /\ Up(High(x), High(y))
  <2>1. Up((x * 550) \div 3, (y * 550) \div 3)
    BY <1>3 DEF Up
  <2>2. Up(Points(55) + ((x - 3000) * 900) \div 7, Points(55) + ((y - 3000) * 900) \div 7)
    BY <1>3 DEF Up, Points
  <2> QED
    BY <2>1, <2>2, TenthUp
<1> HIDE DEF Low, High
<1>4. ASSUME NEW rate \in Int
      PROVE  Activation(rate) = IF rate <= 0 THEN 0 ELSE IF rate <= 3000 THEN Low(rate)
                                ELSE IF rate <= 6499 THEN High(rate) ELSE Points(100)
  <2>1. CASE rate <= 0
    <3>1. rate \notin 1..3000
      BY <2>1
    <3>2. rate \notin 3001..6499
      BY <2>1
    <3>3. ~ (rate >= 6500)
      BY <2>1
    <3> QED
      BY <2>1, <3>1, <3>2, <3>3, SMT DEF Activation
  <2>2. CASE 1 <= rate /\ rate <= 3000
    <3>1. ~ (rate <= 0)
      BY <2>2
    <3>2. rate \in 1..3000
      BY <2>2
    <3>3. rate \notin 3001..6499
      BY <2>2
    <3>4. ~ (rate >= 6500)
      BY <2>2
    <3> QED
      BY <2>2, <3>1, <3>2, <3>3, <3>4, SMT DEF Activation, Low
  <2>3. CASE 3001 <= rate /\ rate <= 6499
    <3>1. ~ (rate <= 0)
      BY <2>3
    <3>2. rate \notin 1..3000
      BY <2>3
    <3>3. rate \in 3001..6499
      BY <2>3
    <3>4. ~ (rate >= 6500)
      BY <2>3
    <3> QED
      BY <2>3, <3>1, <3>2, <3>3, <3>4, SMT DEF Activation, High
  <2>4. CASE 6500 <= rate
    BY <2>4 DEF Activation
  <2> QED
    BY <2>1, <2>2, <2>3, <2>4
<1>6. CASE a <= 0
  <2>1. Activation(a) = 0
    BY <1>0, <1>4, <1>6
  <2>2. Activation(b) \in Int /\ 0 <= Activation(b)
    BY <1>0, <1>1, <1>2, <1>4, <1>5, SMT
  <2> QED
    BY <2>1, <2>2, SMT DEF Up
<1>7. CASE 1 <= a /\ a <= 3000
  <2>1. Activation(a) = Low(a) /\ Low(a) \in Int /\ 0 <= Low(a) /\ Low(a) <= half
    BY <1>0, <1>1, <1>4, <1>5, <1>7, SMT
  <2>2. CASE b <= 3000
    BY <1>0, <1>3, <1>4, <1>7, <2>1, <2>2, SMT DEF Up
  <2>3. CASE b > 3000
    <3>1. Activation(b) \in Int /\ half <= Activation(b)
      BY <1>0, <1>2, <1>4, <1>5, <2>3, SMT
    <3> QED
      BY <1>5, <2>1, <3>1, SMT DEF Up
  <2> QED
    BY <1>0, <2>2, <2>3, SMT
<1>8. CASE 3001 <= a /\ a <= 6499
  <2>1. Activation(a) = High(a) /\ High(a) \in Int /\ half <= High(a) /\ High(a) <= full
    BY <1>0, <1>2, <1>4, <1>5, <1>8, SMT
  <2>2. CASE b <= 6499
    BY <1>0, <1>3, <1>4, <1>8, <2>1, <2>2, SMT DEF Up
  <2>3. CASE b > 6499
    BY <1>0, <1>4, <1>5, <2>1, <2>3, SMT DEF Up
  <2> QED
    BY <1>0, <2>2, <2>3, SMT
<1>9. CASE 6500 <= a
  BY <1>0, <1>4, <1>5, <1>9, SMT DEF Up
<1> QED
  BY <1>0, <1>6, <1>7, <1>8, <1>9, SMT

-----------------------------------------------------------------------------
(* Boards that read facts no worse are no worse.                            *)

Scores == {"pulse", "acquisition", "conversion", "proof", "wall", "objections", "sharePack",
           "router", "smoke", "command", "incident"}
Numbers == Scores \cup {
    "runs", "feedback", "ready", "quality", "picked", "connected", "satisfaction", "intent",
    "purchased", "checkouts", "voices", "joined", "referred", "hint", "conversions",
    "trialScore", "delivered", "clicks", "clickRate", "shareRate"}
Judgements == {"gate", "regression", "growth", "governance", "integration", "trial", "outbox",
               "surface"}

\* The facts that the service is told rise from f to g.
Told(f, g) ==
    /\ \A e \in {"recommendation_click", "share_cta", "subscription_cta"} : Up(f.events[e], g.events[e])
    /\ \A c \in {"saved", "shared", "views", "monitors", "traces"} : Up(f.counts[c], g.counts[c])
    /\ \A k \in {"number", "premium", "team", "mrr"} : Up(f.pricing[k], g.pricing[k])
    /\ f.pricing.number >= 0

\* All facts do.
Rises(f, g) ==
    /\ Numbers \cup Judgements \subseteq DOMAIN f /\ Numbers \cup Judgements \subseteq DOMAIN g
    /\ \A k \in Numbers : Up(f[k], g[k])
    /\ \A k \in Judgements : NoWorse(f[k], g[k])
    /\ Told(f, g)

\* A board that fills in a score that rises,
LEMMA ScoreFilled ==
    ASSUME NEW f, NEW g, Rises(f, g), NEW k \in Scores, NEW a, NEW b, Up(a, b)
    PROVE  Rises([f EXCEPT ![k] = a], [g EXCEPT ![k] = b])
<1> DEFINE x == [f EXCEPT ![k] = a]
           y == [g EXCEPT ![k] = b]
<1>1. k \in DOMAIN f /\ k \in DOMAIN g /\ k \in Numbers
  BY DEF Rises, Numbers
<1>2. /\ DOMAIN x = DOMAIN f /\ DOMAIN y = DOMAIN g
      /\ x[k] = a /\ y[k] = b
      /\ \A j \in DOMAIN f : j # k => x[j] = f[j]
      /\ \A j \in DOMAIN g : j # k => y[j] = g[j]
  BY <1>1
<1>3. k \notin Judgements /\ k \notin {"events", "counts", "pricing"}
  BY DEF Scores, Judgements
<1>4. x.events = f.events /\ x.counts = f.counts /\ x.pricing = f.pricing
  BY <1>3
<1>5. y.events = g.events /\ y.counts = g.counts /\ y.pricing = g.pricing
  BY <1>3
<1> HIDE DEF x, y
<1>6. \A j \in Numbers : Up(x[j], y[j])
  BY <1>2 DEF Rises
<1>7. \A j \in Judgements : NoWorse(x[j], y[j])
  BY <1>2, <1>3 DEF Rises
<1>8. Told(x, y)
  BY <1>4, <1>5 DEF Rises, Told
<1>9. Rises(x, y)
  BY <1>2, <1>6, <1>7, <1>8 DEF Rises
<1> QED
  BY <1>9 DEF x, y

\*   as the smoke board fills in the surface, no worse.
LEMMA SurfaceFilled ==
    ASSUME NEW f, NEW g, Rises(f, g), NEW a, NEW b, NoWorse(a, b)
    PROVE  Rises([f EXCEPT !.surface = a], [g EXCEPT !.surface = b])
<1> DEFINE x == [f EXCEPT !.surface = a]
           y == [g EXCEPT !.surface = b]
<1>1. "surface" \in DOMAIN f /\ "surface" \in DOMAIN g /\ "surface" \in Judgements
  BY DEF Rises, Judgements
<1>2. /\ DOMAIN x = DOMAIN f /\ DOMAIN y = DOMAIN g
      /\ x.surface = a /\ y.surface = b
      /\ \A j \in DOMAIN f : j # "surface" => x[j] = f[j]
      /\ \A j \in DOMAIN g : j # "surface" => y[j] = g[j]
  BY <1>1
<1>3. "surface" \notin Numbers
  BY DEF Numbers, Scores
<1>4. x.events = f.events /\ x.counts = f.counts /\ x.pricing = f.pricing
  OBVIOUS
<1>5. y.events = g.events /\ y.counts = g.counts /\ y.pricing = g.pricing
  OBVIOUS
<1> HIDE DEF x, y
<1>6. \A j \in Numbers : Up(x[j], y[j])
  BY <1>2, <1>3 DEF Rises
<1>7. \A j \in Judgements : NoWorse(x[j], y[j])
  BY <1>2 DEF Rises
<1>8. Told(x, y)
  BY <1>4, <1>5 DEF Rises, Told
<1>9. Rises(x, y)
  BY <1>2, <1>6, <1>7, <1>8 DEF Rises
<1> QED
  BY <1>9 DEF x, y

\* Scores rise,
LEMMA ScoresUp ==
    ASSUME NEW f, NEW g, Rises(f, g)
    PROVE  /\ Up(f.pulse, g.pulse) /\ Up(f.acquisition, g.acquisition)
           /\ Up(f.conversion, g.conversion) /\ Up(f.proof, g.proof) /\ Up(f.wall, g.wall)
           /\ Up(f.objections, g.objections) /\ Up(f.sharePack, g.sharePack)
           /\ Up(f.router, g.router) /\ Up(f.smoke, g.smoke) /\ Up(f.command, g.command)
           /\ Up(f.incident, g.incident)
BY DEF Rises, Numbers, Scores

\*   numbers do,
LEMMA NumbersUp ==
    ASSUME NEW f, NEW g, Rises(f, g)
    PROVE  /\ Up(f.runs, g.runs) /\ Up(f.feedback, g.feedback) /\ Up(f.ready, g.ready)
           /\ Up(f.quality, g.quality) /\ Up(f.picked, g.picked) /\ Up(f.connected, g.connected)
           /\ Up(f.satisfaction, g.satisfaction) /\ Up(f.intent, g.intent)
           /\ Up(f.purchased, g.purchased) /\ Up(f.checkouts, g.checkouts)
           /\ Up(f.voices, g.voices) /\ Up(f.joined, g.joined) /\ Up(f.referred, g.referred)
           /\ Up(f.hint, g.hint) /\ Up(f.conversions, g.conversions)
           /\ Up(f.trialScore, g.trialScore) /\ Up(f.delivered, g.delivered)
           /\ Up(f.clicks, g.clicks) /\ Up(f.clickRate, g.clickRate)
           /\ Up(f.shareRate, g.shareRate)
BY DEF Rises, Numbers

\*   judgements are no worse,
LEMMA JudgementsUp ==
    ASSUME NEW f, NEW g, Rises(f, g)
    PROVE  /\ NoWorse(f.gate, g.gate) /\ NoWorse(f.regression, g.regression)
           /\ NoWorse(f.growth, g.growth) /\ NoWorse(f.governance, g.governance)
           /\ NoWorse(f.integration, g.integration) /\ NoWorse(f.trial, g.trial)
           /\ NoWorse(f.outbox, g.outbox) /\ NoWorse(f.surface, g.surface)
BY DEF Rises, Judgements

\*   and so is what was told.
LEMMA ToldUp ==
    ASSUME NEW f, NEW g, Rises(f, g)
    PROVE  /\ Up(f.events["recommendation_click"], g.events["recommendation_click"])
           /\ Up(f.events["share_cta"], g.events["share_cta"])
           /\ Up(f.events["subscription_cta"], g.events["subscription_cta"])
           /\ Up(f.counts["saved"], g.counts["saved"]) /\ Up(f.counts["shared"], g.counts["shared"])
           /\ Up(f.counts["views"], g.counts["views"])
           /\ Up(f.counts["monitors"], g.counts["monitors"])
           /\ Up(f.counts["traces"], g.counts["traces"])
           /\ Up(f.pricing.number, g.pricing.number) /\ Up(f.pricing.premium, g.pricing.premium)
           /\ Up(f.pricing.team, g.pricing.team) /\ Up(f.pricing.mrr, g.pricing.mrr)
           /\ f.pricing.number >= 0
BY DEF Rises, Told

\* Lists written out, one by one no smaller.
LEMMA FiveUp ==
    ASSUME NEW a1, NEW b1, Up(a1, b1), NEW a2, NEW b2, Up(a2, b2), NEW a3, NEW b3, Up(a3, b3),
           NEW a4, NEW b4, Up(a4, b4), NEW a5, NEW b5, Up(a5, b5)
    PROVE  ListUp(<<a1, a2, a3, a4, a5>>, <<b1, b2, b3, b4, b5>>)
BY DEF ListUp, Up

\* Seven numbers that rise make a list that rises.
LEMMA SevenUp ==
    ASSUME NEW a1, NEW b1, Up(a1, b1), NEW a2, NEW b2, Up(a2, b2), NEW a3, NEW b3, Up(a3, b3),
           NEW a4, NEW b4, Up(a4, b4), NEW a5, NEW b5, Up(a5, b5), NEW a6, NEW b6, Up(a6, b6),
           NEW a7, NEW b7, Up(a7, b7)
    PROVE  ListUp(<<a1, a2, a3, a4, a5, a6, a7>>, <<b1, b2, b3, b4, b5, b6, b7>>)
BY DEF ListUp, Up

\* Numbers given one by one make lists.
LEMMA FunctionUp ==
    ASSUME NEW n \in Nat, NEW a, NEW b, \A i \in 1..n : Up(a[i], b[i])
    PROVE  ListUp([i \in 1..n |-> a[i]], [i \in 1..n |-> b[i]])
BY DEF ListUp, Up

\* The pulse rises,
LEMMA PulseUp == ASSUME NEW f, NEW g, Rises(f, g) PROVE Rises(Pulse(f), Pulse(g))
<1> DEFINE a2(h) == 1600 * h.satisfaction + 3500 * h.intent + Points(2) * AtMost(h.feedback, 10)
           a3(h) == Points(12 * h.events["share_cta"] + 10 * h.joined + 18 * h.referred) + 350 * h.hint
           a4(h) == Points(16 * h.pricing.premium + 24 * h.pricing.team)
                      + AtMost(h.pricing.mrr, Points(35))
           a5(h) == (65 * h.ready + 25 * h.quality) \div 100 + 1000 * h.picked
<1>1. Up(a2(f), a2(g))
  BY NumbersUp, SMT DEF Up, AtMost, Points
<1>2. Up(a3(f), a3(g))
  BY NumbersUp, ToldUp, SMT DEF Up, Points
<1>3. Up(a4(f), a4(g))
  BY ToldUp, SMT DEF Up, AtMost, Points
<1>4. Up(a5(f), a5(g))
  BY NumbersUp, SMT DEF Up
<1>5. Up(Activation(f.clickRate), Activation(g.clickRate))
  BY NumbersUp, ActivationUp
<1>6. \A h : PulseScore(h) = Blend(<<<<22, Activation(h.clickRate)>>, <<24, Capped(a2(h))>>,
                <<20, Capped(a3(h))>>, <<16, Capped(a4(h))>>, <<18, Capped(a5(h))>>>>)
  BY DEF PulseScore
<1> HIDE DEF a2, a3, a4, a5
<1>7. Up(PulseScore(f), PulseScore(g))
  BY <1>1, <1>2, <1>3, <1>4, <1>5, <1>6, CappedUp, Blend5, ZenonT(60)
<1> QED
  BY <1>7, ScoreFilled DEF Pulse, Scores

\*   and is judged no worse.
LEMMA PulseStatusUp == ASSUME NEW f, NEW g, Rises(f, g) PROVE NoWorse(PulseStatus(f), PulseStatus(g))
BY ScoresUp, NumbersUp, JudgementsUp, SMT DEF PulseStatus, NoWorse, Rank, Verdict, Up, Points

\* Acquisition rises,
LEMMA AcquisitionUp == ASSUME NEW f, NEW g, Rises(f, g) PROVE Rises(Acquisition(f), Acquisition(g))
<1>1. Up(Surfaces(f)[1], Surfaces(g)[1]) /\ Up(Surfaces(f)[2], Surfaces(g)[2])
  BY NumbersUp, ToldUp, SMT DEF Up, Points, Surfaces
<1>2. Up(Surfaces(f)[3], Surfaces(g)[3]) /\ Up(Surfaces(f)[4], Surfaces(g)[4])
  BY NumbersUp, ToldUp, SMT DEF Up, Points, Surfaces
<1>3. Up(Surfaces(f)[5], Surfaces(g)[5]) /\ Up(Surfaces(f)[6], Surfaces(g)[6])
  BY NumbersUp, ToldUp, SMT DEF Up, Points, Surfaces
<1>4. Up(Surfaces(f)[7], Surfaces(g)[7])
  BY NumbersUp, ToldUp, SMT DEF Up, Points, Surfaces, AtMost
<1>5. ListUp(Surfaces(f), Surfaces(g)) /\ Len(Surfaces(f)) = 7
  <2> DEFINE list(h) == <<Surfaces(h)[1], Surfaces(h)[2], Surfaces(h)[3], Surfaces(h)[4],
                          Surfaces(h)[5], Surfaces(h)[6], Surfaces(h)[7]>>
  <2>1. \A h : Surfaces(h) = list(h) /\ Len(Surfaces(h)) = 7
    BY DEF Surfaces
  <2>2. ListUp(list(f), list(g))
    BY <1>1, <1>2, <1>3, <1>4, SevenUp
  <2> HIDE DEF list
  <2> QED
    BY <2>1, <2>2, Zenon
<1>6. Up(Mean(Surfaces(f)), Mean(Surfaces(g)))
  BY <1>5, MeanUp
<1> QED
  BY <1>6, ScoreFilled DEF Acquisition, Mean, Scores

\*   and is judged by its score.
LEMMA AcquisitionStatusUp ==
    ASSUME NEW f, NEW g, Rises(f, g) PROVE NoWorse(AcquisitionStatus(f), AcquisitionStatus(g))
BY ScoresUp, StatusAtUp DEF AcquisitionStatus

\* Conversion rises,
LEMMA ConvertingUp == ASSUME NEW f, NEW g, Rises(f, g) PROVE Rises(Converting(f), Converting(g))
<1> DEFINE a4(h) == Points(4 * h.counts["views"] + 10 * h.events["share_cta"])
           a5(h) == Points(12 * h.joined + 14 * h.pricing.number)
           score(h) == Blend(<<<<38, h.pulse>>, <<28, h.acquisition>>, <<18, h.ready>>,
                               <<8, Capped(a4(h))>>, <<8, Capped(a5(h))>>>>)
<1>1. Up(a4(f), a4(g))
  BY ToldUp, SMT DEF Up, Points
<1>2. Up(a5(f), a5(g))
  BY NumbersUp, ToldUp, SMT DEF Up, Points
<1>3. \A h : Converting(h) = [h EXCEPT !.conversion = score(h)]
  BY DEF Converting
<1> HIDE DEF a4, a5
<1>4. /\ Up(f.pulse, g.pulse) /\ Up(f.acquisition, g.acquisition) /\ Up(f.ready, g.ready)
      /\ Up(Capped(a4(f)), Capped(a4(g))) /\ Up(Capped(a5(f)), Capped(a5(g)))
  BY <1>1, <1>2, ScoresUp, NumbersUp, CappedUp
<1>5. Up(score(f), score(g))
  BY <1>4, Blend5, ZenonT(60)
<1> HIDE DEF score
<1> QED
  BY <1>3, <1>5, ScoreFilled DEF Scores

\*   and is judged with the boards it reads.
LEMMA ConversionStatusUp ==
    ASSUME NEW f, NEW g, Rises(f, g) PROVE NoWorse(ConversionStatus(f), ConversionStatus(g))
<1>1. /\ NoWorse(StatusAt(f.conversion, 35, 70), StatusAt(g.conversion, 35, 70))
      /\ NoWorse(StatusAt(f.ready, 35, 70), StatusAt(g.ready, 35, 70))
  BY ScoresUp, NumbersUp, StatusAtUp
<1> QED
  BY <1>1, PulseStatusUp, AcquisitionStatusUp, WorstUp DEF ConversionStatus

\* Proof rises,
LEMMA ProofUp == ASSUME NEW f, NEW g, Rises(f, g) PROVE Rises(Proof(f), Proof(g))
<1> DEFINE points(h) == [i \in 1..6 |-> StatusScore(StatusAt(AssetScores(h)[i], 45, 75))]
           more(h) == AtMost(8000 * h.counts["views"] + Points(h.feedback) + 15000 * h.conversions, Points(12))
<1>0. \A h : Len(AssetScores(h)) = 6 /\ DOMAIN AssetScores(h) = 1..6
  BY DEF AssetScores
<1>1. Up(AssetScores(f)[1], AssetScores(g)[1]) /\ Up(AssetScores(f)[2], AssetScores(g)[2])
  BY NumbersUp, ToldUp, SMT DEF Up, Points, AssetScores
<1>2. Up(AssetScores(f)[3], AssetScores(g)[3]) /\ Up(AssetScores(f)[4], AssetScores(g)[4])
  BY NumbersUp, ToldUp, SMT DEF Up, Points, AssetScores
<1>3. Up(AssetScores(f)[5], AssetScores(g)[5]) /\ Up(AssetScores(f)[6], AssetScores(g)[6])
  BY NumbersUp, ScoresUp, SMT DEF AssetScores
<1>4. \A i \in 1..6 : Up(AssetScores(f)[i], AssetScores(g)[i])
  BY <1>1, <1>2, <1>3
<1>5. \A i \in 1..6 : Up(points(f)[i], points(g)[i])
  BY <1>0, <1>4, StatusAtUp, StatusScoreUp
<1>6. ListUp(points(f), points(g))
  BY <1>5 DEF ListUp, Up
<1>7. Up(more(f), more(g))
  BY NumbersUp, ToldUp, SMT DEF Up, Points, AtMost
<1>8. ASSUME NEW h PROVE ProofScore(h) = Tenth(Capped(SumOf(points(h)) \div 6 + more(h)))
  <2> DEFINE raw == [i \in DOMAIN AssetScores(h) |-> StatusScore(StatusAt(AssetScores(h)[i], 45, 75))]
  <2>1. raw = points(h) /\ Len(AssetScores(h)) = 6
    BY <1>0
  <2>2. ProofScore(h) = Tenth(Capped(SumOf(raw) \div Len(AssetScores(h)) + more(h)))
    BY DEF ProofScore, Total
  <2> HIDE DEF raw, points, more
  <2> QED
    BY <2>1, <2>2
<1> HIDE DEF points, more
<1>9. Up(SumOf(points(f)) \div 6, SumOf(points(g)) \div 6)
  BY <1>6, ListSum, DivUp
<1>10. Up(SumOf(points(f)) \div 6 + more(f), SumOf(points(g)) \div 6 + more(g))
  BY <1>7, <1>9 DEF Up
<1>11. Up(ProofScore(f), ProofScore(g))
  BY <1>8, <1>10, CappedUp, TenthUp
<1> QED
  BY <1>11, ScoreFilled DEF Proof, Scores

\*   and is judged by its score.
LEMMA ProofStatusUp == ASSUME NEW f, NEW g, Rises(f, g) PROVE NoWorse(ProofStatus(f), ProofStatus(g))
BY ScoresUp, StatusAtUp DEF ProofStatus

\* The wall rises,
LEMMA WallUp == ASSUME NEW f, NEW g, Rises(f, g) PROVE Rises(Wall(f), Wall(g))
<1> DEFINE sum(h) == Points(12 * h.voices + 6 * h.feedback + 12 * h.purchased) + 3000 * h.intent
                       + 800 * h.satisfaction + AtMost(15000 * h.counts["views"], Points(18))
<1>1. Up(sum(f), sum(g))
  BY NumbersUp, ToldUp, SMT DEF Up, Points, AtMost
<1>2. \A h : WallScore(h) = Tenth(Clamp(sum(h), Points(20), Points(100)))
  BY DEF WallScore
<1> HIDE DEF sum
<1>3. Up(Clamp(sum(f), Points(20), Points(100)), Clamp(sum(g), Points(20), Points(100)))
  BY <1>1, SMT DEF Up, Clamp, AtMost, NotBelow, Points
<1>4. Up(WallScore(f), WallScore(g))
  BY <1>2, <1>3, TenthUp
<1> QED
  BY <1>4, ScoreFilled DEF Wall, Scores

\*   and is judged by its score.
LEMMA WallStatusUp == ASSUME NEW f, NEW g, Rises(f, g) PROVE NoWorse(WallStatus(f), WallStatus(g))
BY ScoresUp, StatusAtUp DEF WallStatus

\* The answers to objections rise,
LEMMA ObjectionsUp == ASSUME NEW f, NEW g, Rises(f, g) PROVE Rises(Objections(f), Objections(g))
<1> DEFINE a4(h) == Points(8 * h.checkouts + 8 * h.counts["monitors"] + 4 * h.counts["views"]
                             + 6 * h.feedback)
           score(h) == Blend(<<<<42, h.proof>>, <<22, h.wall>>, <<18, h.ready>>,
                               <<18, Capped(a4(h))>>>>)
<1>1. Up(a4(f), a4(g))
  BY NumbersUp, ToldUp, SMT DEF Up, Points
<1>2. \A h : Objections(h) = [h EXCEPT !.objections = score(h)]
  BY DEF Objections
<1> HIDE DEF a4
<1>3. Up(score(f), score(g))
  BY <1>1, ScoresUp, NumbersUp, CappedUp, Blend4, ZenonT(60)
<1> HIDE DEF score
<1> QED
  BY <1>2, <1>3, ScoreFilled DEF Scores

\*   and are judged by their score.
LEMMA ObjectionStatusUp ==
    ASSUME NEW f, NEW g, Rises(f, g) PROVE NoWorse(ObjectionStatus(f), ObjectionStatus(g))
<1>1. Up(f.objections, g.objections)
  BY ScoresUp
<1> QED
  BY <1>1, StatusAtUp DEF ObjectionStatus

\* The share pack rises,
LEMMA SharePackUp == ASSUME NEW f, NEW g, Rises(f, g) PROVE Rises(SharePack(f), SharePack(g))
<1> DEFINE a4(h) == Points(5 * h.counts["views"] + 15 * h.events["share_cta"])
           a5(h) == Points(12 * h.joined + 20 * h.referred)
           score(h) == Blend(<<<<24, h.proof>>, <<22, h.objections>>, <<18, h.pulse>>,
                               <<18, Capped(a4(h))>>, <<18, Capped(a5(h))>>>>)
<1>1. Up(a4(f), a4(g))
  BY ToldUp, SMT DEF Up, Points
<1>2. Up(a5(f), a5(g))
  BY NumbersUp, SMT DEF Up, Points
<1>3. \A h : SharePack(h) = [h EXCEPT !.sharePack = score(h)]
  BY DEF SharePack
<1> HIDE DEF a4, a5
<1>4. Up(score(f), score(g))
  BY <1>1, <1>2, ScoresUp, CappedUp, Blend5, ZenonT(60)
<1> HIDE DEF score
<1> QED
  BY <1>3, <1>4, ScoreFilled DEF Scores

\*   and is judged by its score.
LEMMA ShareStatusUp == ASSUME NEW f, NEW g, Rises(f, g) PROVE NoWorse(ShareStatus(f), ShareStatus(g))
<1>1. Up(f.sharePack, g.sharePack)
  BY ScoresUp
<1> QED
  BY <1>1, StatusAtUp DEF ShareStatus

\* The router rises,
LEMMA RouterUp == ASSUME NEW f, NEW g, Rises(f, g) PROVE Rises(Router(f), Router(g))
<1>1. Up(Routes(f)[1], Routes(g)[1]) /\ Up(Routes(f)[2], Routes(g)[2])
  BY NumbersUp, ToldUp, ScoresUp, SMT DEF Up, Points, Routes
<1>2. Up(Routes(f)[3], Routes(g)[3]) /\ Up(Routes(f)[4], Routes(g)[4])
  BY NumbersUp, ToldUp, ScoresUp, SMT DEF Up, Points, Routes
<1>3. Up(Routes(f)[5], Routes(g)[5])
  BY NumbersUp, ToldUp, ScoresUp, SMT DEF Up, Points, Routes
<1>4. ListUp(Routes(f), Routes(g)) /\ Len(Routes(f)) = 5
  <2> DEFINE list(h) == <<Routes(h)[1], Routes(h)[2], Routes(h)[3], Routes(h)[4], Routes(h)[5]>>
  <2>1. \A h : Routes(h) = list(h) /\ Len(Routes(h)) = 5
    BY DEF Routes
  <2>2. ListUp(list(f), list(g))
    BY <1>1, <1>2, <1>3, FiveUp
  <2> HIDE DEF list
  <2> QED
    BY <2>1, <2>2, Zenon
<1>5. Up(Mean(Routes(f)), Mean(Routes(g)))
  BY <1>4, MeanUp
<1> QED
  BY <1>5, ScoreFilled DEF Router, Mean, Scores

\*   and is judged by its score.
LEMMA RouterStatusUp == ASSUME NEW f, NEW g, Rises(f, g) PROVE NoWorse(RouterStatus(f), RouterStatus(g))
BY ScoresUp, StatusAtUp DEF RouterStatus

-----------------------------------------------------------------------------
(* Boards that judge boards.                                                *)

\* Ten and seven verdicts, one by one no worse.
LEMMA TenNoWorse ==
    ASSUME NEW a1, NEW b1, NoWorse(a1, b1), NEW a2, NEW b2, NoWorse(a2, b2),
           NEW a3, NEW b3, NoWorse(a3, b3), NEW a4, NEW b4, NoWorse(a4, b4),
           NEW a5, NEW b5, NoWorse(a5, b5), NEW a6, NEW b6, NoWorse(a6, b6),
           NEW a7, NEW b7, NoWorse(a7, b7), NEW a8, NEW b8, NoWorse(a8, b8),
           NEW a9, NEW b9, NoWorse(a9, b9), NEW a10, NEW b10, NoWorse(a10, b10)
    PROVE  ListNoWorse(<<a1, a2, a3, a4, a5, a6, a7, a8, a9, a10>>,
                       <<b1, b2, b3, b4, b5, b6, b7, b8, b9, b10>>)
BY DEF ListNoWorse

\* Nine verdicts that are no worse make a list that is no worse,
LEMMA NineNoWorse ==
    ASSUME NEW a1, NEW b1, NoWorse(a1, b1), NEW a2, NEW b2, NoWorse(a2, b2),
           NEW a3, NEW b3, NoWorse(a3, b3), NEW a4, NEW b4, NoWorse(a4, b4),
           NEW a5, NEW b5, NoWorse(a5, b5), NEW a6, NEW b6, NoWorse(a6, b6),
           NEW a7, NEW b7, NoWorse(a7, b7), NEW a8, NEW b8, NoWorse(a8, b8),
           NEW a9, NEW b9, NoWorse(a9, b9)
    PROVE  ListNoWorse(<<a1, a2, a3, a4, a5, a6, a7, a8, a9>>,
                       <<b1, b2, b3, b4, b5, b6, b7, b8, b9>>)
BY DEF ListNoWorse

\*   and so do seven.
LEMMA SevenNoWorse ==
    ASSUME NEW a1, NEW b1, NoWorse(a1, b1), NEW a2, NEW b2, NoWorse(a2, b2),
           NEW a3, NEW b3, NoWorse(a3, b3), NEW a4, NEW b4, NoWorse(a4, b4),
           NEW a5, NEW b5, NoWorse(a5, b5), NEW a6, NEW b6, NoWorse(a6, b6),
           NEW a7, NEW b7, NoWorse(a7, b7)
    PROVE  ListNoWorse(<<a1, a2, a3, a4, a5, a6, a7>>, <<b1, b2, b3, b4, b5, b6, b7>>)
BY DEF ListNoWorse

\* Clicks stay measured, and the site's address is a setting.
LEMMA MeasuredUp == ASSUME NEW f, NEW g, Rises(f, g) PROVE NoWorse(Measured(f), Measured(g))
<1>1. Up(f.clicks, g.clicks)
  BY NumbersUp
<1> QED
  BY <1>1 DEF Measured, NoWorse, Rank, Verdict, Up

\* Two checks that nothing changes.
LEMMA SiteUp == NoWorse(Site, Site) /\ NoWorse("ok", "ok")
BY DEF Site, NoWorse, Rank, Verdict

\* What the smoke board checks is no worse,
LEMMA SmokeChecksUp ==
    ASSUME NEW f, NEW g, Rises(f, g) PROVE ListNoWorse(SmokeChecks(f), SmokeChecks(g))
<1> DEFINE first1(h) == StatusAt(Tenth((h.proof + h.acquisition + h.pulse) \div 3), 55, 75)
<1>1. Up((f.proof + f.acquisition + f.pulse) \div 3, (g.proof + g.acquisition + g.pulse) \div 3)
  BY ScoresUp, SMT DEF Up
<1>2. NoWorse(first1(f), first1(g))
  BY <1>1, TenthUp, StatusAtUp
<1>3. NoWorse(f.gate, g.gate)
  BY JudgementsUp
<1>4. \A h : SmokeChecks(h) = <<first1(h), "ok", ProofStatus(h), ObjectionStatus(h), ShareStatus(h),
               RouterStatus(h), ConversionStatus(h), h.gate, Site, Measured(h)>>
  BY DEF SmokeChecks
<1> HIDE DEF first1
<1>5. /\ NoWorse(ProofStatus(f), ProofStatus(g)) /\ NoWorse(ObjectionStatus(f), ObjectionStatus(g))
      /\ NoWorse(ShareStatus(f), ShareStatus(g)) /\ NoWorse(RouterStatus(f), RouterStatus(g))
      /\ NoWorse(ConversionStatus(f), ConversionStatus(g)) /\ NoWorse(Measured(f), Measured(g))
      /\ NoWorse(Site, Site) /\ NoWorse("ok", "ok")
  BY ProofStatusUp, ObjectionStatusUp, ShareStatusUp, RouterStatusUp, ConversionStatusUp,
     MeasuredUp, SiteUp
<1> QED
  BY <1>2, <1>3, <1>4, <1>5, TenNoWorse

\*   so its score rises,
LEMMA SmokeScoreUp ==
    ASSUME NEW a, NEW b, ListNoWorse(a, b), DOMAIN a = 1..10, Len(a) = 10, Len(b) = 10
    PROVE  Up(SmokeScore(a), SmokeScore(b))
<1> DEFINE points(v) == CASE v = "ok" -> Points(100)
                          [] v = "warning" -> Points(62)
                          [] v = "blocker" -> Points(18)
           x == [i \in DOMAIN a |-> points(a[i])]
           y == [i \in DOMAIN b |-> points(b[i])]
<1>1. ASSUME NEW u, NEW v, NoWorse(u, v) PROVE Up(points(u), points(v))
  BY <1>1, SMT DEF NoWorse, Verdict, Rank, Points, Up
<1>2. SmokeScore(a) = Tenth(SumOf(x) \div 10) /\ SmokeScore(b) = Tenth(SumOf(y) \div 10)
  BY DEF SmokeScore, Total
<1> HIDE DEF points
<1>3. \A i \in 1..10 : Up(x[i], y[i])
  BY <1>1 DEF ListNoWorse
<1>4. x = [i \in 1..10 |-> x[i]] /\ y = [i \in 1..10 |-> y[i]]
  BY DEF ListNoWorse
<1> HIDE DEF x, y
<1>5. ListUp([i \in 1..10 |-> x[i]], [i \in 1..10 |-> y[i]])
  BY <1>3, FunctionUp
<1>6. ListUp(x, y)
  BY <1>4, <1>5, Zenon
<1>7. Up(SumOf(x) \div 10, SumOf(y) \div 10)
  BY <1>6, ListSum, DivUp
<1> QED
  BY <1>2, <1>7, TenthUp

\*   and its verdict is no worse.
LEMMA SmokeUp == ASSUME NEW f, NEW g, Rises(f, g) PROVE Rises(Smoke(f), Smoke(g))
<1> DEFINE s(h) == SmokeScore(SmokeChecks(h))
           v(h) == Judged(SmokeChecks(h), SmokeScore(SmokeChecks(h)), 45, 76)
           x == [f EXCEPT !.smoke = s(f)]
           y == [g EXCEPT !.smoke = s(g)]
<1>1. ListNoWorse(SmokeChecks(f), SmokeChecks(g))
  BY SmokeChecksUp
<1>2. \A h : DOMAIN SmokeChecks(h) = 1..10 /\ Len(SmokeChecks(h)) = 10
  BY DEF SmokeChecks
<1>3. Up(s(f), s(g))
  BY <1>1, <1>2, SmokeScoreUp
<1>4. NoWorse(v(f), v(g))
  BY <1>1, <1>3, JudgedUp
<1>5. \A h : Smoke(h) = [h EXCEPT !.smoke = s(h), !.surface = v(h)]
  BY DEF Smoke
<1> HIDE DEF s, v
<1>6. Rises(x, y)
  BY <1>3, ScoreFilled DEF Scores
<1>7. Smoke(f) = [x EXCEPT !.surface = v(f)] /\ Smoke(g) = [y EXCEPT !.surface = v(g)]
  BY <1>5
<1> HIDE DEF x, y
<1> QED
  BY <1>4, <1>6, <1>7, SurfaceFilled

\* Revenue is judged no worse.
LEMMA PricingUp ==
    ASSUME NEW f, NEW g, Rises(f, g) PROVE NoWorse(PricingStatus(f.pricing), PricingStatus(g.pricing))
BY ToldUp, SMT DEF PricingStatus, NoWorse, Rank, Verdict, Up

\* The signals of the war room are no worse,
LEMMA WarRoomSignalsUp ==
    ASSUME NEW f, NEW g, Rises(f, g) PROVE ListNoWorse(WarRoomSignals(f), WarRoomSignals(g))
<1>1. NoWorse(AtLeast(f.joined, 1, 5), AtLeast(g.joined, 1, 5))
  BY NumbersUp, AtLeastUp
<1>2. /\ NoWorse(f.surface, g.surface) /\ NoWorse(f.gate, g.gate)
      /\ NoWorse(f.regression, g.regression) /\ NoWorse(f.trial, g.trial)
  BY JudgementsUp
<1>3. /\ NoWorse(PulseStatus(f), PulseStatus(g)) /\ NoWorse(ConversionStatus(f), ConversionStatus(g))
      /\ NoWorse(PricingStatus(f.pricing), PricingStatus(g.pricing)) /\ NoWorse(Measured(f), Measured(g))
  BY PulseStatusUp, ConversionStatusUp, PricingUp, MeasuredUp
<1> QED
  BY <1>1, <1>2, <1>3, NineNoWorse DEF WarRoomSignals

\*   its score is no lower,
LEMMA CommandUp == ASSUME NEW f, NEW g, Rises(f, g) PROVE Rises(Command(f), Command(g))
<1> DEFINE a5(h) == CASE h.regression = "ok" -> Points(92) [] h.regression = "warning" -> Points(62)
                      [] h.regression = "blocker" -> Points(24)
           score(h) == Blend(<<<<24, h.pulse>>, <<20, h.smoke>>, <<20, h.conversion>>,
                               <<20, h.ready>>, <<16, a5(h)>>>>)
<1>1. Up(a5(f), a5(g))
  <2>1. NoWorse(f.regression, g.regression)
    BY JudgementsUp
  <2> QED
    BY <2>1, SMT DEF Up, Points, NoWorse, Rank, Verdict
<1>2. \A h : Command(h) = [h EXCEPT !.command = score(h)]
  BY DEF Command
<1> HIDE DEF a5
<1>3. /\ Up(f.pulse, g.pulse) /\ Up(f.smoke, g.smoke) /\ Up(f.conversion, g.conversion)
      /\ Up(f.ready, g.ready)
  BY ScoresUp, NumbersUp
<1>4. Up(score(f), score(g))
  BY <1>1, <1>3, Blend5, ZenonT(60)
<1> HIDE DEF score
<1> QED
  BY <1>2, <1>4, ScoreFilled DEF Scores

\*   and so it is judged no worse.
LEMMA WarRoomStatusUp ==
    ASSUME NEW f, NEW g, Rises(f, g) PROVE NoWorse(WarRoomStatus(f), WarRoomStatus(g))
<1>1. Up(f.command, g.command)
  BY ScoresUp
<1> QED
  BY <1>1, WarRoomSignalsUp, JudgedUp DEF WarRoomStatus

\* The signals of the incident center are no worse,
LEMMA IncidentSignalsUp ==
    ASSUME NEW f, NEW g, Rises(f, g) PROVE ListNoWorse(IncidentSignals(f), IncidentSignals(g))
<1>1. NoWorse(StatusAt(f.ready, 45, 70), StatusAt(g.ready, 45, 70))
  BY NumbersUp, StatusAtUp
<1>2. /\ NoWorse(f.regression, g.regression) /\ NoWorse(f.integration, g.integration)
      /\ NoWorse(f.governance, g.governance) /\ NoWorse(f.outbox, g.outbox)
  BY JudgementsUp
<1>3. NoWorse(Measured(f), Measured(g)) /\ NoWorse(Site, Site)
  BY MeasuredUp, SiteUp
<1> QED
  BY <1>1, <1>2, <1>3, SevenNoWorse DEF IncidentSignals

\*   its score is no lower,
LEMMA IncidentUp == ASSUME NEW f, NEW g, Rises(f, g) PROVE Rises(Incident(f), Incident(g))
<1> DEFINE a6(h) == Points(8 * h.clicks + 10 * h.counts["traces"] + 8 * h.events["share_cta"]
                             + 10 * h.events["subscription_cta"])
           a7 == Points(IF SiteUrl THEN 95 ELSE 45)
           parts(h) == <<
               <<20, h.ready>>, <<18, StatusScore(h.regression)>>, <<18, h.connected>>,
               <<14, StatusScore(h.governance)>>, <<14, h.delivered>>, <<10, Capped(a6(h))>>,
               <<6, a7>>>>
<1>1. Up(a6(f), a6(g))
  BY NumbersUp, ToldUp, SMT DEF Up, Points
<1>2. Up(a7, a7)
  BY SMT DEF Up, Points
<1>3. \A h : Incident(h) = [h EXCEPT !.incident = Blend(parts(h))]
  BY DEF Incident
<1> HIDE DEF a6, a7
<1>4. /\ Up(f.ready, g.ready) /\ Up(f.connected, g.connected) /\ Up(f.delivered, g.delivered)
      /\ Up(Capped(a6(f)), Capped(a6(g)))
  BY <1>1, NumbersUp, CappedUp
<1>5. /\ Up(StatusScore(f.regression), StatusScore(g.regression))
      /\ Up(StatusScore(f.governance), StatusScore(g.governance))
  BY JudgementsUp, StatusScoreUp
<1>6. PartsUp(parts(f), parts(g))
  BY <1>2, <1>4, <1>5 DEF PartsUp
<1> HIDE DEF parts
<1>7. Up(Blend(parts(f)), Blend(parts(g)))
  BY <1>6, BlendUp
<1> QED
  BY <1>3, <1>7, ScoreFilled DEF Scores

\*   and so it is judged no worse.
LEMMA IncidentStatusUp ==
    ASSUME NEW f, NEW g, Rises(f, g) PROVE NoWorse(IncidentStatus(f), IncidentStatus(g))
<1>1. Up(f.incident, g.incident)
  BY ScoresUp
<1> QED
  BY <1>1, IncidentSignalsUp, JudgedUp DEF IncidentStatus

\* All boards.
LEMMA ScoredUp == ASSUME NEW f, NEW g, Rises(f, g) PROVE Rises(Scored(f), Scored(g))
<1>1. Rises(Proof(Converting(Acquisition(Pulse(f)))), Proof(Converting(Acquisition(Pulse(g)))))
  BY PulseUp, AcquisitionUp, ConvertingUp, ProofUp
<1>2. PICK x, y : /\ x = Proof(Converting(Acquisition(Pulse(f))))
                  /\ y = Proof(Converting(Acquisition(Pulse(g))))
  OBVIOUS
<1>3. Rises(Router(SharePack(Objections(Wall(x)))), Router(SharePack(Objections(Wall(y)))))
  BY <1>1, <1>2, WallUp, ObjectionsUp, SharePackUp, RouterUp
<1>4. PICK v, w : v = Router(SharePack(Objections(Wall(x)))) /\ w = Router(SharePack(Objections(Wall(y))))
  OBVIOUS
<1>5. Rises(Incident(Command(Smoke(v))), Incident(Command(Smoke(w))))
  BY <1>3, <1>4, SmokeUp, CommandUp, IncidentUp
<1> QED
  BY <1>2, <1>4, <1>5 DEF Scored

-----------------------------------------------------------------------------
(* Decisions, and how boards stand.                                         *)

\* A better verdict and a higher score make a better decision.
LEMMA DecideUp ==
    ASSUME NEW u, NEW v, NoWorse(u, v), NEW x, NEW y, Up(x, y)
    PROVE  /\ DecisionRank(Decide(u, x)) \in Int /\ DecisionRank(Decide(v, y)) \in Int
           /\ DecisionRank(Decide(u, x)) <= DecisionRank(Decide(v, y))
<1>1. Points(70) \in Int /\ Points(85) \in Int /\ Points(70) <= Points(85)
  BY SMT DEF Points
<1> QED
  BY <1>1, SMT DEF NoWorse, Up, Verdict, Rank, Decide, DecisionRank

\* How well the war room's decision stands, as in Standing.
WarRoomRank(d) ==
    CASE d = "hold_and_fix" -> 0 [] d = "collect_more_signal" -> 1 [] d = "limited_push" -> 2
      [] d = "scale" -> 3

\* The war room decides for no less.
LEMMA WarRoomUp ==
    ASSUME NEW f, NEW g, Rises(f, g)
    PROVE  Up(WarRoomRank(WarRoomDecision(f)), WarRoomRank(WarRoomDecision(g)))
<1>1. NoWorse(WarRoomStatus(f), WarRoomStatus(g))
  BY WarRoomStatusUp
<1>2. "blocker" \in Range(WarRoomSignals(g)) => "blocker" \in Range(WarRoomSignals(f))
  <2>1. ListNoWorse(WarRoomSignals(f), WarRoomSignals(g))
    BY WarRoomSignalsUp
  <2> QED
    BY <2>1 DEF ListNoWorse, Range, NoWorse, Verdict, Rank
<1>3. \A h : "blocker" \in Range(WarRoomSignals(h)) => WarRoomStatus(h) # "ok"
  BY WorstNotOk DEF WarRoomStatus, Judged
<1>4. Up(f.command, g.command) /\ Points(62) \in Int
  BY ScoresUp, SMT DEF Points
<1> QED
  BY <1>1, <1>2, <1>3, <1>4, SMT DEF WarRoomDecision, WarRoomRank, Up, NoWorse, Rank, Verdict

\* How well the level of an incident stands, as in Standing.
IncidentRank(d) ==
    CASE d = "sev1_hold_launch" -> 0 [] d = "sev2_limited_launch" -> 1 [] d = "sev3_watch" -> 2
      [] d = "green_scale" -> 3

\* There are finitely many signals.
LEMMA SevenFinite == IsFiniteSet(1..7)
<1>1. 1 \in Int /\ 7 \in Int
  OBVIOUS
<1> QED
  BY <1>1, FS_Interval

\* Fewer warnings and a higher score make no incident graver.
LEMMA IncidentRankUp ==
    ASSUME NEW f, NEW g, Rises(f, g)
    PROVE  Up(IncidentRank(IncidentLevel(f)), IncidentRank(IncidentLevel(g)))
<1> DEFINE many(h) == Cardinality({i \in DOMAIN IncidentSignals(h) : IncidentSignals(h)[i] = "warning"})
<1>1. NoWorse(IncidentStatus(f), IncidentStatus(g))
  BY IncidentStatusUp
<1>2. ListNoWorse(IncidentSignals(f), IncidentSignals(g))
  BY IncidentSignalsUp
<1>3. \A h : DOMAIN IncidentSignals(h) = 1..7
  BY DEF IncidentSignals
<1>4. \A h : many(h) \in Nat
  <2>1. IsFiniteSet(1..7)
    BY SevenFinite
  <2> QED
    BY <1>3, <2>1, FS_Subset, FS_CardinalityType
<1>5. IncidentStatus(f) # "blocker" => many(g) <= many(f)
  <2> SUFFICES ASSUME IncidentStatus(f) # "blocker" PROVE many(g) <= many(f)
    OBVIOUS
  <2>1. "blocker" \notin Range(IncidentSignals(f))
    BY WorstBlocked DEF IncidentStatus, Judged
  <2>2. {i \in DOMAIN IncidentSignals(g) : IncidentSignals(g)[i] = "warning"}
          \subseteq {i \in DOMAIN IncidentSignals(f) : IncidentSignals(f)[i] = "warning"}
    BY <1>2, <2>1 DEF ListNoWorse, Range, NoWorse, Verdict, Rank
  <2>3. IsFiniteSet({i \in DOMAIN IncidentSignals(f) : IncidentSignals(f)[i] = "warning"})
    BY <1>3, SevenFinite, FS_Subset
  <2> QED
    BY <2>2, <2>3, FS_Subset
<1>6. Up(f.incident, g.incident) /\ Points(62) \in Int
  BY ScoresUp, SMT DEF Points
<1>7. \A h : IncidentLevel(h) =
        CASE IncidentStatus(h) = "blocker" -> "sev1_hold_launch"
          [] IncidentStatus(h) # "blocker" /\ (h.incident < Points(62) \/ many(h) >= 4) -> "sev2_limited_launch"
          [] OTHER -> IF IncidentStatus(h) = "warning" THEN "sev3_watch" ELSE "green_scale"
  BY DEF IncidentLevel, Count
<1> HIDE DEF many
<1> QED
  BY <1>1, <1>4, <1>5, <1>6, <1>7, SMT DEF IncidentRank, Up, NoWorse, Rank, Verdict

\* What the preflight checks is no worse.
LEMMA PreflightChecksUp ==
    ASSUME NEW f, NEW g, Rises(f, g) PROVE ListNoWorse(PreflightChecks(f), PreflightChecks(g))
<1>1. NoWorse(f.surface, g.surface) /\ NoWorse(f.gate, g.gate)
  BY JudgementsUp
<1>2. /\ NoWorse(WarRoomStatus(f), WarRoomStatus(g)) /\ NoWorse(IncidentStatus(f), IncidentStatus(g))
      /\ NoWorse(Measured(f), Measured(g)) /\ NoWorse(Site, Site)
  BY WarRoomStatusUp, IncidentStatusUp, MeasuredUp, SiteUp
<1>3. NoWorse(PreflightChecks(f).rollback, PreflightChecks(g).rollback)
  BY <1>2 DEF PreflightChecks, NoWorse, Verdict, Rank
<1>4. \A h : /\ PreflightChecks(h).public_surface = h.surface
             /\ PreflightChecks(h).launch_gate = h.gate
             /\ PreflightChecks(h).war_room = WarRoomStatus(h)
             /\ PreflightChecks(h).incident_response = IncidentStatus(h)
             /\ PreflightChecks(h).measurement = Measured(h)
             /\ PreflightChecks(h).share_preview = Site
             /\ DOMAIN PreflightChecks(h) = {"public_surface", "launch_gate", "war_room",
                  "incident_response", "measurement", "share_preview", "rollback"}
  BY DEF PreflightChecks
<1> QED
  BY <1>1, <1>2, <1>3, <1>4 DEF ListNoWorse

\* A warning costs less than a blocker: nine for both, thirteen more for a blocker.
LEMMA PenaltyUp ==
    ASSUME NEW a, NEW b, ListNoWorse(a, b), IsFiniteSet(DOMAIN a)
    PROVE  Up(Penalty(b), Penalty(a))
<1> DEFINE W(h) == {c \in DOMAIN h : h[c] = "warning"}
           B(h) == {c \in DOMAIN h : h[c] = "blocker"}
<1>1. IsFiniteSet(W(a)) /\ IsFiniteSet(B(a)) /\ IsFiniteSet(W(b)) /\ IsFiniteSet(B(b))
  BY FS_Subset DEF ListNoWorse
<1>2. ASSUME NEW h, IsFiniteSet(W(h)), IsFiniteSet(B(h))
      PROVE  /\ Cardinality(W(h)) \in Nat /\ Cardinality(B(h)) \in Nat
             /\ IsFiniteSet(W(h) \cup B(h))
             /\ Cardinality(W(h) \cup B(h)) = Cardinality(W(h)) + Cardinality(B(h))
  <2>1. W(h) \cap B(h) = {}
    OBVIOUS
  <2>2. Cardinality(W(h) \cap B(h)) = 0
    BY <2>1, FS_EmptySet
  <2> HIDE DEF W, B
  <2> QED
    BY <1>2, <2>2, FS_Union, FS_CardinalityType
<1>3. B(b) \subseteq B(a) /\ (W(b) \cup B(b)) \subseteq (W(a) \cup B(a))
  BY DEF ListNoWorse, NoWorse, Verdict, Rank
<1>4. \A h : Penalty(h) = 9 * Cardinality(W(h)) + 22 * Cardinality(B(h))
  BY DEF Penalty
<1> HIDE DEF W, B
<1>5. Cardinality(B(b)) <= Cardinality(B(a))
  BY <1>1, <1>3, FS_Subset
<1>6. Cardinality(W(b) \cup B(b)) <= Cardinality(W(a) \cup B(a))
  BY <1>1, <1>2, <1>3, FS_Subset
<1>7. /\ Cardinality(W(a)) \in Nat /\ Cardinality(B(a)) \in Nat
      /\ Cardinality(W(b)) \in Nat /\ Cardinality(B(b)) \in Nat
      /\ Cardinality(W(b)) + Cardinality(B(b)) <= Cardinality(W(a)) + Cardinality(B(a))
  <2>1. /\ Cardinality(W(a)) \in Nat /\ Cardinality(B(a)) \in Nat
        /\ Cardinality(W(a) \cup B(a)) = Cardinality(W(a)) + Cardinality(B(a))
    BY <1>1, <1>2, Zenon
  <2>2. /\ Cardinality(W(b)) \in Nat /\ Cardinality(B(b)) \in Nat
        /\ Cardinality(W(b) \cup B(b)) = Cardinality(W(b)) + Cardinality(B(b))
    BY <1>1, <1>2, Zenon
  <2> QED
    BY <1>6, <2>1, <2>2
<1>8. PICK wa \in Nat, ba \in Nat, wb \in Nat, bb \in Nat :
        wa = Cardinality(W(a)) /\ ba = Cardinality(B(a)) /\ wb = Cardinality(W(b)) /\ bb = Cardinality(B(b))
  BY <1>7
<1>9. 9 * wb + 22 * bb <= 9 * wa + 22 * ba
  BY <1>5, <1>7, <1>8
<1>10. Penalty(a) = 9 * wa + 22 * ba /\ Penalty(b) = 9 * wb + 22 * bb
  BY <1>4, <1>8
<1> QED
  BY <1>9, <1>10 DEF Up

\* Its score takes fewer points off, and rises.
LEMMA PreflightScoreUp ==
    ASSUME NEW f, NEW g, Rises(f, g)
    PROVE  Up(PreflightScore(f, PreflightChecks(f)), PreflightScore(g, PreflightChecks(g)))
<1> DEFINE a5(h) == Points(NotBelow(100 - Penalty(PreflightChecks(h)), 0))
<1>1. IsFiniteSet(DOMAIN PreflightChecks(f))
  <2> DEFINE A == {"public_surface", "launch_gate", "war_room"}
             B == {"incident_response", "measurement", "share_preview", "rollback"}
  <2>1. DOMAIN PreflightChecks(f) = A \cup B
    BY DEF PreflightChecks
  <2>2. A = (({} \cup {"public_surface"}) \cup {"launch_gate"}) \cup {"war_room"}
    OBVIOUS
  <2>3. B = ((({} \cup {"incident_response"}) \cup {"measurement"}) \cup {"share_preview"}) \cup {"rollback"}
    OBVIOUS
  <2> HIDE DEF A, B
  <2>4. IsFiniteSet(A)
    BY <2>2, FS_EmptySet, FS_AddElement
  <2>5. IsFiniteSet(B)
    BY <2>3, FS_EmptySet, FS_AddElement
  <2> QED
    BY <2>1, <2>4, <2>5, FS_Union
<1>2. Up(Penalty(PreflightChecks(g)), Penalty(PreflightChecks(f)))
  BY <1>1, PreflightChecksUp, PenaltyUp
<1>3. Up(a5(f), a5(g))
  BY <1>2 DEF Up, Points, NotBelow
<1>4. /\ Up(f.smoke, g.smoke) /\ Up(f.ready, g.ready) /\ Up(f.command, g.command)
      /\ Up(f.incident, g.incident)
  BY ScoresUp, NumbersUp
<1> DEFINE score(h) == Blend(<<<<24, h.smoke>>, <<24, h.ready>>, <<22, h.command>>, <<20, h.incident>>,
                               <<10, a5(h)>>>>)
<1>5. \A h : PreflightScore(h, PreflightChecks(h)) = score(h)
  BY DEF PreflightScore
<1> HIDE DEF a5
<1>6. Up(score(f), score(g))
  BY <1>3, <1>4, Blend5, ZenonT(60)
<1> HIDE DEF score
<1> QED
  BY <1>5, <1>6

\* The preflight decides no worse.
LEMMA PreflightUp ==
    ASSUME NEW f, NEW g, Rises(f, g)
    PROVE  Up(DecisionRank(Preflight(f, PreflightChecks(f))), DecisionRank(Preflight(g, PreflightChecks(g))))
<1> DEFINE x == PreflightScore(f, PreflightChecks(f))
           y == PreflightScore(g, PreflightChecks(g))
           u == PreflightStatus(PreflightChecks(f), x)
           v == PreflightStatus(PreflightChecks(g), y)
           S == {"launch_gate", "incident_response", "rollback"}
           bad(h) == \E c \in S : PreflightChecks(h)[c] = "blocker"
<1>1. ListNoWorse(PreflightChecks(f), PreflightChecks(g)) /\ Up(x, y)
  BY PreflightChecksUp, PreflightScoreUp
<1>2. NoWorse(u, v)
  BY <1>1, JudgedUp DEF PreflightStatus
<1>3. S \subseteq DOMAIN PreflightChecks(f)
  BY DEF PreflightChecks
<1>4. bad(g) => bad(f)
  BY <1>1, <1>3 DEF ListNoWorse, NoWorse, Verdict, Rank
<1>5. /\ Preflight(f, PreflightChecks(f)) = CASE bad(f) -> "blocked" [] ~bad(f) /\ u = "blocker" -> "hold"
           [] OTHER -> IF x >= Points(82) /\ u = "ok" THEN "go" ELSE "limited_beta"
      /\ Preflight(g, PreflightChecks(g)) = CASE bad(g) -> "blocked" [] ~bad(g) /\ v = "blocker" -> "hold"
           [] OTHER -> IF y >= Points(82) /\ v = "ok" THEN "go" ELSE "limited_beta"
  BY DEF Preflight, PreflightDecision
<1>6. Points(82) \in Int
  BY DEF Points
<1> HIDE DEF x, y, u, v, bad
<1> QED
  BY <1>1, <1>2, <1>4, <1>5, <1>6, SMT DEF DecisionRank, Up, NoWorse, Verdict, Rank

\* A board that is judged no worse stands no lower.
LEMMA GoodUp == ASSUME NEW u, NEW v, NoWorse(u, v) PROVE Up(Good(u), Good(v))
BY DEF Good, NoWorse, Verdict, Rank, Up

\* So no board stands lower.
LEMMA StandingUp ==
    ASSUME NEW f, NEW g, Rises(f, g), NEW b \in DOMAIN Standing(g)
    PROVE  Up(Standing(f)[b], Standing(g)[b])
<1>1. \A h : DOMAIN Standing(h) = {"gate", "pulse", "acquisition", "conversion", "proof", "wall",
              "objections", "share_pack", "router", "smoke", "war_room", "incident", "preflight"}
  BY DEF Standing
<1>2. \A h : /\ Standing(h).gate = DecisionRank(Decide(h.gate, h.ready))
             /\ Standing(h).war_room = WarRoomRank(WarRoomDecision(h))
             /\ Standing(h).incident = IncidentRank(IncidentLevel(h))
             /\ Standing(h).preflight = DecisionRank(Preflight(h, PreflightChecks(h)))
  BY DEF Standing, WarRoomRank, IncidentRank
<1>3. \A h : /\ Standing(h).pulse = Good(PulseStatus(h))
             /\ Standing(h).acquisition = Good(AcquisitionStatus(h))
             /\ Standing(h).conversion = Good(ConversionStatus(h))
             /\ Standing(h).proof = Good(ProofStatus(h)) /\ Standing(h).wall = Good(WallStatus(h))
             /\ Standing(h).objections = Good(ObjectionStatus(h))
             /\ Standing(h).share_pack = Good(ShareStatus(h))
             /\ Standing(h).router = Good(RouterStatus(h)) /\ Standing(h).smoke = Good(h.surface)
  BY DEF Standing
<1>4. Up(Standing(f).gate, Standing(g).gate)
  <2>1. NoWorse(f.gate, g.gate) /\ Up(f.ready, g.ready)
    BY JudgementsUp, NumbersUp
  <2> QED
    BY <1>2, <2>1, DecideUp DEF Up
<1>5. Up(Standing(f).war_room, Standing(g).war_room)
  BY <1>2, WarRoomUp
<1>6. Up(Standing(f).incident, Standing(g).incident)
  BY <1>2, IncidentRankUp
<1>7. Up(Standing(f).preflight, Standing(g).preflight)
  BY <1>2, PreflightUp
<1>8. /\ Up(Standing(f).pulse, Standing(g).pulse)
      /\ Up(Standing(f).acquisition, Standing(g).acquisition)
      /\ Up(Standing(f).conversion, Standing(g).conversion)
  BY <1>3, GoodUp, PulseStatusUp, AcquisitionStatusUp, ConversionStatusUp
<1>9. /\ Up(Standing(f).proof, Standing(g).proof) /\ Up(Standing(f).wall, Standing(g).wall)
      /\ Up(Standing(f).objections, Standing(g).objections)
  BY <1>3, GoodUp, ProofStatusUp, WallStatusUp, ObjectionStatusUp
<1>10. /\ Up(Standing(f).share_pack, Standing(g).share_pack)
       /\ Up(Standing(f).router, Standing(g).router)
       /\ Up(Standing(f).smoke, Standing(g).smoke)
  <2>1. NoWorse(f.surface, g.surface)
    BY JudgementsUp
  <2> QED
    BY <1>3, <2>1, GoodUp, ShareStatusUp, RouterStatusUp
<1> QED
  BY <1>1, <1>4, <1>5, <1>6, <1>7, <1>8, <1>9, <1>10

-----------------------------------------------------------------------------
(* What sign-ups leave alone.                                               *)

Still == UNCHANGED <<now, runs, feedback, outcomes, checkouts, events, fetches, providers, actions,
                     trials, exports>>

\* Facts about analyses, and fetches,
LEMMA RunsStill ==
    ASSUME Still
    PROVE  /\ Len(runs)' = Len(runs) /\ AverageQuality' = AverageQuality
           /\ QualityScore' = QualityScore /\ QualityReadiness' = QualityReadiness
<1>1. runs' = runs
  BY DEF Still
<1>2. AverageQuality' = AverageQuality
  BY <1>1 DEF AverageQuality, Total
<1>3. QualityScore' = QualityScore
  BY <1>1, <1>2 DEF QualityScore, Total
<1>4. QualityReadiness' = QualityReadiness
  BY <1>1, <1>2 DEF QualityReadiness
<1> QED
  BY <1>1, <1>2, <1>3, <1>4

\*   the share of those with a final pick,
LEMMA PickedStill ==
    ASSUME Still
    PROVE  Percent(Count(runs, LAMBDA r : r.form.picked), Len(runs))'
             = Percent(Count(runs, LAMBDA r : r.form.picked), Len(runs))
BY DEF Still, Count

\*   their quality and cost against those before,
LEMMA RegressionStill == ASSUME Still PROVE Regression' = Regression
<1>1. runs' = runs /\ fetches' = fetches
  BY DEF Still
<1>2. Recent' = Recent /\ Previous' = Previous
  BY <1>1 DEF Recent, Previous, Newest, Before
<1>3. ASSUME NEW h \in Hosts PROVE HostReliability(h)' = HostReliability(h)
  BY <1>1 DEF HostReliability
<1>4. /\ Average(Recent, Quality)' = Average(Recent, Quality)
      /\ Average(Previous, Quality)' = Average(Previous, Quality)
      /\ Average(Recent, Cost)' = Average(Recent, Cost)
      /\ Average(Previous, Cost)' = Average(Previous, Cost)
  BY <1>2 DEF Average, Total
<1>5. Total(Recent, Blockers)' = Total(Recent, Blockers) /\ Total(Previous, Blockers)' = Total(Previous, Blockers)
  BY <1>2 DEF Total
<1>6. RiskFlagged' = RiskFlagged
  BY <1>2, <1>3, <1>4, <1>5 DEF RiskFlagged
<1> QED
  BY <1>1, <1>3, <1>4, <1>5, <1>6 DEF Regression

\*   about feedback and outcomes,
LEMMA FeedbackStill ==
    ASSUME Still
    PROVE  /\ Len(feedback)' = Len(feedback) /\ Satisfaction' = Satisfaction
           /\ IntentRate' = IntentRate
<1>1. feedback' = feedback
  BY DEF Still
<1> QED
  BY <1>1 DEF Satisfaction, IntentRate, Total, Count

\*   outcomes,
LEMMA OutcomesStill ==
    ASSUME Still
    PROVE  /\ Len(outcomes)' = Len(outcomes) /\ Purchased' = Purchased
           /\ ConversionRate' = ConversionRate /\ Conversion' = Conversion
<1>1. outcomes' = outcomes /\ feedback' = feedback
  BY DEF Still
<1>2. Purchased' = Purchased
  BY <1>1 DEF Purchased, Count
<1> QED
  BY <1>1, <1>2 DEF ConversionRate, Conversion

\*   and what has been learnt of products,
LEMMA LearningStill ==
    ASSUME Still
    PROVE  /\ Learning' = Learning /\ LearningItems' = LearningItems
           /\ \A q, p : Later(q, p)' = Later(q, p)
<1>1. outcomes' = outcomes /\ feedback' = feedback /\ checkouts' = checkouts
  BY DEF Still
<1>2. ASSUME NEW p PROVE Rows(p)' = Rows(p) /\ Rated(p)' = Rated(p) /\ Given(p)' = Given(p) /\ Priced(p)' = Priced(p)
  BY <1>1 DEF Rows, Rated, Given, Priced
<1>3. ASSUME NEW p PROVE ProductSatisfaction(p)' = ProductSatisfaction(p)
  BY <1>2 DEF ProductSatisfaction, Average, Total
<1>4. ASSUME NEW p PROVE Insight(p)' = Insight(p)
  <2> DEFINE c(status) == Cardinality({i \in DOMAIN Rows(p) : Rows(p)[i].status = status})
             over == (100 * SumOf([i \in DOMAIN Priced(p) |-> Priced(p)[i].delta])) \div Len(Priced(p)) > 5000
             below(points) == ProductSatisfaction(p) \in 1..(points - 1)
             held == 100 * checkouts[p].blocked >= 35 * checkouts[p].all
             tagged == (Priced(p) # <<>> /\ over) \/ (checkouts[p].all > 0 /\ held)
                          \/ c("abandoned") > 0 \/ c("delayed") > 0 \/ below(400)
             verdict == CASE 5 * c("returned") >= Len(Rows(p)) \/ below(300) -> "blocker"
                          [] ~(5 * c("returned") >= Len(Rows(p))) /\ ~below(300)
                             /\ (2 * c("purchased") < Len(Rows(p)) \/ tagged) -> "warning"
                          [] OTHER -> "ok"
  <2>1. Insight(p) = verdict
    BY DEF Insight, Average, Total, Count
  <2>2. Insight(p)' = verdict'
    BY DEF Insight, Average, Total, Count
  <2>3. \A status : c(status)' = c(status)
    BY <1>2
  <2>4. over' = over /\ below(400)' = below(400) /\ below(300)' = below(300) /\ held' = held
    <3>1. over' = over
      BY <1>2
    <3>2. below(400)' = below(400) /\ below(300)' = below(300)
      BY <1>3
    <3>3. held' = held
      BY <1>1
    <3> QED
      BY <3>1, <3>2, <3>3
  <2> HIDE DEF c, over, below, held
  <2>5. tagged' = tagged
    BY <1>1, <1>2, <2>3, <2>4
  <2> HIDE DEF tagged
  <2>6. verdict' = verdict
    BY <1>2, <2>3, <2>4, <2>5
  <2> QED
    BY <2>1, <2>2, <2>6, Zenon
<1>5. Learnt' = Learnt
  BY <1>2 DEF Learnt
<1>6. ASSUME NEW q, NEW p PROVE Later(q, p)' = Later(q, p)
  BY <1>1 DEF Later
<1>7. ASSUME NEW n PROVE LastLearnt(n)' = LastLearnt(n)
  BY <1>5, <1>6 DEF LastLearnt
<1>8. Learning' = Learning
  <2>1. {Insight(p) : p \in LastLearnt(GateProducts)}' = {Insight(p) : p \in LastLearnt(GateProducts)}
    BY <1>4, <1>7
  <2> QED
    BY <1>5, <2>1 DEF Learning
<1>9. LearningItems' = LearningItems
  <2>1. now' = now
    BY DEF Still
  <2> QED
    BY <1>4, <1>7, <2>1 DEF LearningItems
<1> QED
  BY <1>6, <1>8, <1>9

\*   about events and integrations,
LEMMA GrowthStill == ASSUME Still PROVE Growth' = Growth
<1>1. runs' = runs /\ events' = events
  BY DEF Still
<1>2. ASSUME NEW step PROVE FunnelStep(step)' = FunnelStep(step)
  BY <1>1 DEF FunnelStep
<1> QED
  BY <1>1, <1>2 DEF Growth

\*   and the rates of events,
LEMMA EventsStill ==
    ASSUME Still
    PROVE  /\ events' = events
           /\ EventRate("recommendation_click")' = EventRate("recommendation_click")
           /\ EventRate("share_cta")' = EventRate("share_cta")
           /\ Total(GrowthSteps, LAMBDA e : events[e])' = Total(GrowthSteps, LAMBDA e : events[e])
<1>1. runs' = runs /\ events' = events
  BY DEF Still
<1> QED
  BY <1>1 DEF EventRate, Total

\*   integrations,
LEMMA IntegrationStill ==
    ASSUME Still PROVE Integration' = Integration /\ IntegrationScore' = IntegrationScore
<1>1. providers' = providers
  BY DEF Still
<1>2. ASSUME NEW c PROVE IntegrationCheck(c)' = IntegrationCheck(c)
  BY <1>1 DEF IntegrationCheck, Best
<1>3. {IntegrationCheck(c) : c \in Categories}' = {IntegrationCheck(c) : c \in Categories}
  BY <1>2
<1>4. Integration' = Integration
  BY <1>3 DEF Integration
<1>5. IntegrationScore' = IntegrationScore
  BY <1>2 DEF IntegrationScore
<1> QED
  BY <1>4, <1>5

\*   about experiments and exports.
LEMMA TrialsStill ==
    ASSUME Still
    PROVE  Conversions' = Conversions /\ TrialStatus' = TrialStatus /\ TrialScore' = TrialScore
<1>1. trials' = trials
  BY DEF Still
<1>2. Newest(trials, Limit)' = Newest(trials, Limit)
  BY <1>1 DEF Newest
<1>3. Conversions' = Conversions /\ Impressions' = Impressions
  BY <1>2 DEF Conversions, Impressions, Total
<1>4. TrialRate' = TrialRate
  BY <1>3 DEF TrialRate
<1> QED
  BY <1>3, <1>4 DEF TrialStatus, TrialScore

\*   and exports.
LEMMA ExportsStill ==
    ASSUME Still
    PROVE  /\ Exports("queued")' = Exports("queued") /\ Exports("failed")' = Exports("failed")
           /\ OutboxStatus' = OutboxStatus
<1>1. exports' = exports
  BY DEF Still
<1>2. ASSUME NEW status PROVE Exports(status)' = Exports(status)
  BY <1>1 DEF Exports, Newest, Count
<1> QED
  BY <1>2 DEF OutboxStatus

\* Checkout reviews of all products do not change either.
LEMMA CheckoutsStill == ASSUME Still PROVE Checkouts' = Checkouts
<1>1. checkouts' = checkouts
  BY DEF Still
<1> QED
  BY <1>1 DEF Checkouts, Total

-----------------------------------------------------------------------------
(* What boards read are numbers and verdicts.                               *)

\* A finite set can be listed.
LEMMA SetListed == ASSUME NEW S, IsFiniteSet(S) PROVE SetToSeq(S) \in Seq(S)
<1>1. Cardinality(S) \in Nat /\ ExistsBijection(1..Cardinality(S), S)
  BY FS_CardinalityType
<1>2. \E list \in [1..Cardinality(S) -> S] : IsInjective(list)
  BY <1>1 DEF ExistsBijection, Bijection, Injection, IsInjective
<1>3. SetToSeq(S) \in [1..Cardinality(S) -> S]
  BY <1>2 DEF SetToSeq
<1> QED
  BY <1>1, <1>3

\* Some of the rows of a table are finitely many,
LEMMA SomeRows ==
    ASSUME NEW rows, Len(rows) \in Nat, DOMAIN rows = 1..Len(rows), NEW T \in SUBSET DOMAIN rows
    PROVE  /\ IsFiniteSet(T) /\ Cardinality(T) \in Nat /\ Cardinality(T) <= Len(rows)
<1>1. PICK n \in Nat : n = Len(rows) /\ DOMAIN rows = 1..n
  OBVIOUS
<1>2. 1 \in Int /\ n \in Int
  OBVIOUS
<1>3. IsFiniteSet(1..n) /\ Cardinality(1..n) = IF 1 > n THEN 0 ELSE n - 1 + 1
  BY <1>2, FS_Interval
<1>4. Cardinality(1..n) = n
  BY <1>1, <1>3
<1> QED
  BY <1>1, <1>3, <1>4, FS_Subset, FS_CardinalityType

\*   the newest ones too.
LEMMA NewestRows ==
    ASSUME NEW S, NEW rows \in Seq(S), NEW n \in Nat
    PROVE  /\ Newest(rows, n) \in Seq(S) /\ Len(Newest(rows, n)) \in Nat
           /\ DOMAIN Newest(rows, n) = 1..Len(Newest(rows, n))
<1>1. Len(rows) \in Nat
  OBVIOUS
<1>2. PICK k \in Nat \ {0} : k = NotBelow(Len(rows) - n + 1, 1)
  <2>1. Len(rows) - n + 1 \in Int
    BY <1>1
  <2>2. NotBelow(Len(rows) - n + 1, 1) \in Nat \ {0}
    BY <2>1 DEF NotBelow
  <2> QED
    BY <2>2
<1>3. \A i \in k..Len(rows) : rows[i] \in S
  BY <1>2
<1>4. SubSeq(rows, k, Len(rows)) \in Seq(S)
  BY <1>1, <1>2, <1>3, SubSeqProperties
<1>5. Newest(rows, n) \in Seq(S)
  BY <1>2, <1>4 DEF Newest
<1> QED
  BY <1>5

\* Percentages are numbers.
LEMMA PercentNat == ASSUME NEW part \in Nat, NEW whole \in Nat PROVE Percent(part, whole) \in Nat
BY DEF Percent

\* Rates too.
LEMMA RateNat == ASSUME NEW part \in Nat, NEW whole \in Nat \ {0} PROVE (10000 * part) \div whole \in Nat
<1>1. 10000 * part \in Nat
  OBVIOUS
<1> QED
  BY <1>1

\* Averages and shares of analyses are numbers,
LEMMA RunsTyped ==
    ASSUME Typed
    PROVE  /\ Len(runs) \in Nat /\ AverageQuality \in Nat /\ QualityScore \in Nat
           /\ Percent(Count(runs, LAMBDA r : r.form.picked), Len(runs)) \in Nat
<1> DEFINE quality == [i \in DOMAIN runs |-> runs[i].form.quality]
           blockers == [i \in DOMAIN runs |-> runs[i].form.blockers]
           warnings == [i \in DOMAIN runs |-> runs[i].form.warnings]
<1>1. runs \in Seq(Row(RunForm)) /\ Len(runs) \in Nat /\ DOMAIN runs = 1..Len(runs)
  BY DEF Typed, GateTypeOK
<1>2. ASSUME NEW i \in DOMAIN runs
      PROVE  /\ runs[i].form.quality \in Nat /\ runs[i].form.blockers \in Nat
             /\ runs[i].form.warnings \in Nat
  <2>1. runs[i] \in Row(RunForm)
    BY <1>1
  <2>2. runs[i].form \in RunForm
    BY <2>1 DEF Row
  <2> QED
    BY <2>2 DEF RunForm
<1>3. quality \in Seq(Nat) /\ blockers \in Seq(Nat) /\ warnings \in Seq(Nat)
  BY <1>1, <1>2
<1>4. /\ Total(runs, Quality) = SumOf(quality) /\ Total(runs, Blockers) = SumOf(blockers)
      /\ Total(runs, LAMBDA r : r.form.warnings) = SumOf(warnings)
  BY DEF Total, Quality, Blockers
<1> HIDE DEF quality, blockers, warnings
<1>5. SumOf(quality) \in Nat /\ SumOf(blockers) \in Nat /\ SumOf(warnings) \in Nat
  BY <1>3, SumNat
<1>6. AverageQuality \in Nat
  <2>1. AverageQuality = IF runs = <<>> THEN 0 ELSE (100 * SumOf(quality)) \div Len(runs)
    BY <1>4 DEF AverageQuality
  <2>2. runs # <<>> => Len(runs) > 0
    BY <1>1
  <2> QED
    BY <1>1, <1>5, <2>1, <2>2
<1>7. QualityScore \in Nat
  <2>1. QualityScore = NotBelow(AverageQuality - 1800 * SumOf(blockers) - 150 * SumOf(warnings), 0)
    BY <1>4 DEF QualityScore, Total, Blockers, warnings, blockers
  <2> QED
    BY <1>5, <1>6, <2>1 DEF NotBelow
<1>8. Percent(Count(runs, LAMBDA r : r.form.picked), Len(runs)) \in Nat
  <2>1. {i \in DOMAIN runs : runs[i].form.picked} \in SUBSET DOMAIN runs
    OBVIOUS
  <2>2. Cardinality({i \in DOMAIN runs : runs[i].form.picked}) \in Nat
    BY <1>1, <2>1, SomeRows
  <2> QED
    BY <1>1, <2>2, PercentNat DEF Count
<1> QED
  BY <1>1, <1>6, <1>7, <1>8

\*   of feedback,
LEMMA FeedbackTyped ==
    ASSUME Typed
    PROVE  /\ Len(feedback) \in Nat /\ Satisfaction \in Nat /\ IntentRate \in Nat
<1> DEFINE rating == [i \in DOMAIN feedback |-> feedback[i].form.rating]
<1>1. feedback \in Seq(Row(FeedbackForm)) /\ Len(feedback) \in Nat /\ DOMAIN feedback = 1..Len(feedback)
  BY DEF Typed, GateTypeOK
<1>2. ASSUME NEW i \in DOMAIN feedback PROVE feedback[i].form.rating \in Nat
  <2>1. feedback[i] \in Row(FeedbackForm)
    BY <1>1
  <2>2. feedback[i].form \in FeedbackForm
    BY <2>1 DEF Row
  <2> QED
    BY <2>2 DEF FeedbackForm
<1>3. rating \in Seq(Nat)
  BY <1>1, <1>2
<1>4. Satisfaction = IF feedback = <<>> THEN 0 ELSE (100 * SumOf(rating)) \div Len(feedback)
  BY DEF Satisfaction, Total
<1> HIDE DEF rating
<1>5. SumOf(rating) \in Nat
  BY <1>3, SumNat
<1>6. Satisfaction \in Nat
  <2>1. feedback # <<>> => Len(feedback) > 0
    BY <1>1
  <2> QED
    BY <1>1, <1>4, <1>5, <2>1
<1>7. IntentRate \in Nat
  <2>1. {i \in DOMAIN feedback : feedback[i].form.intent} \in SUBSET DOMAIN feedback
    OBVIOUS
  <2>2. Cardinality({i \in DOMAIN feedback : feedback[i].form.intent}) \in Nat
    BY <1>1, <2>1, SomeRows
  <2> QED
    BY <1>1, <2>2, PercentNat DEF IntentRate, Count
<1> QED
  BY <1>1, <1>6, <1>7

\*   of outcomes,
LEMMA OutcomesTyped ==
    ASSUME Typed
    PROVE  /\ Len(outcomes) \in Nat /\ Purchased \in Nat /\ ConversionRate \in Nat
<1>1. Len(outcomes) \in Nat /\ DOMAIN outcomes = 1..Len(outcomes)
  BY DEF Typed, GateTypeOK
<1>2. Purchased \in Nat
  <2>1. {i \in DOMAIN outcomes : outcomes[i].status = "purchased"} \in SUBSET DOMAIN outcomes
    OBVIOUS
  <2> QED
    BY <1>1, <2>1, SomeRows DEF Purchased, Count
<1> QED
  BY <1>1, <1>2, PercentNat DEF ConversionRate

\*   and the number of checkout reviews.
LEMMA CheckoutsTyped == ASSUME Typed PROVE Checkouts \in Nat
<1> DEFINE list == SetToSeq(Products)
           numbers == [i \in DOMAIN list |-> checkouts[list[i]].all]
<1>1. list \in Seq(Products)
  BY FinitelyManyProducts, SetListed
<1> HIDE DEF list
<1>2. ASSUME NEW i \in DOMAIN list PROVE checkouts[list[i]].all \in Nat
  <2>1. list[i] \in Products
    BY <1>1
  <2>2. checkouts[list[i]] \in [all : Nat, blocked : Nat]
    BY <2>1 DEF Typed, GateTypeOK
  <2> QED
    BY <2>2
<1>3. numbers \in Seq(Nat)
  BY <1>1, <1>2
<1>4. Checkouts = SumOf(numbers)
  BY DEF Checkouts, Total, list
<1> HIDE DEF numbers
<1> QED
  BY <1>3, <1>4, SumNat

\* So are those of events,
LEMMA EventsTyped ==
    ASSUME Typed
    PROVE  /\ \A e \in GrowthEventType : events[e] \in Nat
           /\ EventRate("recommendation_click") \in Nat /\ EventRate("share_cta") \in Nat
           /\ Total(GrowthSteps, LAMBDA e : events[e]) + events["purchase_link_cta"]
                + events["feedback_cta"] \in Nat
<1> DEFINE numbers == [i \in DOMAIN GrowthSteps |-> events[GrowthSteps[i]]]
<1>1. \A e \in GrowthEventType : events[e] \in Nat
  BY DEF Typed, GateTypeOK
<1>2. DOMAIN GrowthSteps = 1..6 /\ \A i \in 1..6 : GrowthSteps[i] \in GrowthEventType
  BY DEF GrowthSteps, GrowthEventType, Range
<1>3. {"recommendation_click", "share_cta", "purchase_link_cta", "feedback_cta"} \subseteq GrowthEventType
  <2>1. GrowthSteps[2] = "recommendation_click" /\ GrowthSteps[4] = "share_cta"
    BY DEF GrowthSteps
  <2> QED
    BY <1>2, <2>1 DEF GrowthEventType
<1>4. numbers \in Seq(Nat)
  BY <1>1, <1>2
<1> HIDE DEF numbers
<1>6. SumOf(numbers) \in Nat
  BY <1>4, SumNat
<1>7. NotBelow(Len(runs), 1) \in Nat \ {0}
  BY RunsTyped DEF NotBelow
<1>8. /\ events["recommendation_click"] \in Nat /\ events["share_cta"] \in Nat
      /\ events["purchase_link_cta"] \in Nat /\ events["feedback_cta"] \in Nat
  BY <1>1, <1>3
<1>9. EventRate("recommendation_click") \in Nat /\ EventRate("share_cta") \in Nat
  BY <1>7, <1>8, RateNat DEF EventRate
<1>10. Total(GrowthSteps, LAMBDA e : events[e]) + events["purchase_link_cta"] + events["feedback_cta"]
         = SumOf(numbers) + events["purchase_link_cta"] + events["feedback_cta"]
  BY DEF Total, numbers
<1> QED
  BY <1>1, <1>6, <1>8, <1>9, <1>10

\*   of integrations,
LEMMA IntegrationTyped == Integration \in Verdict /\ IntegrationScore \in Int
<1> DEFINE A == {"price_api", "marketplace", "official_store", "review_feed", "benchmark"}
           B == {"email", "webhook", "observability", "affiliate", "scheduler"}
           checked(status) == Cardinality({c \in Categories : IntegrationCheck(c) = status})
<1>1. Integration \in Verdict
  BY WorstVerdict DEF Integration
<1>2. IsFiniteSet(Categories) /\ Categories # {}
  <2>1. Categories = A \cup B
    BY DEF Categories, Critical
  <2>2. A = (((({} \cup {"price_api"}) \cup {"marketplace"}) \cup {"official_store"})
               \cup {"review_feed"}) \cup {"benchmark"}
    OBVIOUS
  <2>3. B = (((({} \cup {"email"}) \cup {"webhook"}) \cup {"observability"})
               \cup {"affiliate"}) \cup {"scheduler"}
    OBVIOUS
  <2>4. A # {}
    OBVIOUS
  <2> HIDE DEF A, B
  <2>5. IsFiniteSet(A)
    BY <2>2, FS_EmptySet, FS_AddElement
  <2>6. IsFiniteSet(B)
    BY <2>3, FS_EmptySet, FS_AddElement
  <2> QED
    BY <2>1, <2>4, <2>5, <2>6, FS_Union
<1>3. Cardinality(Categories) \in Nat \ {0}
  BY <1>2, FS_EmptySet, FS_CardinalityType
<1>4. \A status : checked(status) \in Nat
  BY <1>2, FS_Subset, FS_CardinalityType
<1>5. IntegrationScore = Points(100 * checked("ok") + 55 * checked("warning")) \div Cardinality(Categories)
  BY DEF IntegrationScore
<1> HIDE DEF checked
<1>6. Points(100 * checked("ok") + 55 * checked("warning")) \in Int
  BY <1>4 DEF Points
<1>7. IntegrationScore \in Int
  BY <1>3, <1>5, <1>6
<1> QED
  BY <1>1, <1>7

\*   of experiments,
LEMMA TrialsTyped ==
    ASSUME AudienceTyped
    PROVE  Conversions \in Nat /\ TrialStatus \in Verdict /\ TrialScore \in Int
<1> DEFINE rows == Newest(trials, Limit)
           seen == [i \in DOMAIN rows |-> rows[i].impressions]
           converted == [i \in DOMAIN rows |-> rows[i].conversions]
<1>1. rows \in Seq(Trial)
  BY BoardsAssumption, NewestRows DEF AudienceTyped
<1>2. Impressions = SumOf(seen) /\ Conversions = SumOf(converted)
  BY DEF Impressions, Conversions, Total
<1> HIDE DEF rows
<1>3. ASSUME NEW i \in DOMAIN rows PROVE rows[i].impressions \in Nat /\ rows[i].conversions \in Nat
  <2>1. rows[i] \in Trial
    BY <1>1
  <2> QED
    BY <2>1 DEF Trial
<1>4. seen \in Seq(Nat) /\ converted \in Seq(Nat)
  BY <1>1, <1>3
<1> HIDE DEF seen, converted
<1>5. Impressions \in Nat /\ Conversions \in Nat
  BY <1>2, <1>4, SumNat
<1>6. TrialRate \in Nat
  <2>1. CASE Impressions = 0
    BY <2>1 DEF TrialRate
  <2>2. CASE Impressions # 0
    BY <1>5, <2>2, RateNat DEF TrialRate
  <2> QED
    BY <2>1, <2>2
<1>7. TrialStatus \in Verdict
  BY DEF TrialStatus, Verdict
<1>8. TrialScore \in Int
  BY <1>5, <1>6 DEF TrialScore, Capped, Points, AtMost
<1> QED
  BY <1>5, <1>7, <1>8

\*   and of exports.
LEMMA ExportsTyped ==
    ASSUME AudienceTyped
    PROVE  /\ Exports("queued") \in Nat /\ Exports("failed") \in Nat
           /\ OutboxStatus \in Verdict
<1> DEFINE rows == Newest(exports, Clamp(Limit, 5, 30))
<1>1. Clamp(Limit, 5, 30) \in Nat
  BY BoardsAssumption DEF Clamp, NotBelow, AtMost
<1>2. Len(rows) \in Nat /\ DOMAIN rows = 1..Len(rows)
  BY <1>1, NewestRows DEF AudienceTyped
<1>3. \A status : Exports(status) = Cardinality({i \in DOMAIN rows : rows[i] = status})
  BY DEF Exports, Count
<1> HIDE DEF rows
<1>4. \A status : {i \in DOMAIN rows : rows[i] = status} \in SUBSET DOMAIN rows
  OBVIOUS
<1>5. \A status : Exports(status) \in Nat
  BY <1>2, <1>3, <1>4, SomeRows
<1>6. OutboxStatus \in Verdict
  BY <1>5 DEF OutboxStatus, Verdict
<1> QED
  BY <1>5, <1>6

\* Checks of the gate are verdicts.
LEMMA ChecksTyped ==
    /\ Regression \in Verdict /\ Growth \in Verdict /\ Learning \in Verdict
    /\ Conversion \in Verdict /\ DeliveryCheck \in Verdict /\ DataGovernance \in Verdict
    /\ BacklogCheck \in Verdict
<1>1. Regression \in Verdict
  BY DEF Regression, Verdict
<1>2. Growth \in Verdict
  BY DEF Growth, Verdict
<1>3. Learning \in Verdict
  BY WorstVerdict DEF Learning, Verdict
<1>4. Conversion \in Verdict
  BY DEF Conversion, Verdict
<1>5. DeliveryCheck \in Verdict /\ DataGovernance \in Verdict
  BY DEF DeliveryCheck, DataGovernance, Verdict
<1>6. BacklogCheck \in Verdict
  BY DEF BacklogCheck, Verdict
<1> QED
  BY <1>1, <1>2, <1>3, <1>4, <1>5, <1>6

-----------------------------------------------------------------------------
(* A sign-up adds to some counts, and may give a table its first row.       *)

Welcome == {"saved", "shared", "views", "subscriptions", "leads", "channels"}
Grown ==
    /\ Still
    /\ \A c \in Counted : /\ Up(counts[c], counts'[c])
                          /\ c \notin Welcome => counts'[c] = counts[c]
    /\ \A t \in Tables : first'[t] = first[t] \/ (first[t] = None /\ first'[t] = now)
    /\ Fits \/ Readiness' = Readiness

\* The checks of readiness stay as they are if nothing is counted.
LEMMA ReadinessStill == ASSUME Still, counts' = counts PROVE Readiness' = Readiness
<1>1. Len(runs)' = Len(runs) /\ QualityReadiness' = QualityReadiness /\ Len(feedback)' = Len(feedback)
  BY RunsStill, FeedbackStill
<1>2. AtLeast(Len(runs), 3, 10)' = AtLeast(Len(runs), 3, 10)
      /\ AtLeast(Len(feedback), 3, 10)' = AtLeast(Len(feedback), 3, 10)
  BY <1>1 DEF AtLeast
<1> QED
  BY <1>1, <1>2 DEF Readiness

\* A dated table keeps its first row, and an empty one gets it today.
LEMMA DatedGrows ==
    ASSUME Typed, NEW t \in Tables, first' = Dated(t)
    PROVE  \A s \in Tables : first'[s] = first[s] \/ (first[s] = None /\ first'[s] = now)
BY DEF Typed, GateTypeOK, Dated

\* A sign-up only adds.
LEMMA SignUpGrows == ASSUME Typed, SignUp PROVE Grown
<1>0. counts \in [Counted -> Nat]
  BY DEF Typed, GateTypeOK
<1>1. ASSUME NEW c \in Welcome, CountUp(c), Fits \/ Readiness' = Readiness, UNCHANGED audience
      PROVE  Grown
  <2>1. Still
    BY <1>1 DEF CountUp, audience, Still
  <2>2. Welcome \subseteq Counted
    BY DEF Welcome, Counted
  <2>3. counts' = [counts EXCEPT ![c] = @ + 1]
    BY <1>1 DEF CountUp
  <2>4. \A d \in Counted : Up(counts[d], counts'[d]) /\ (d \notin Welcome => counts'[d] = counts[d])
    BY <1>0, <2>2, <2>3 DEF Up
  <2>5. \A t \in Tables : first'[t] = first[t] \/ (first[t] = None /\ first'[t] = now)
    <3>1. CASE c \in DOMAIN TableOf
      <4>1. TableOf[c] \in Tables
        BY <3>1 DEF TableOf, Tables, RetentionDays
      <4>2. first' = Dated(TableOf[c])
        BY <1>1, <3>1 DEF CountUp
      <4> QED
        BY <4>1, <4>2, DatedGrows
    <3>2. CASE c \notin DOMAIN TableOf
      BY <1>1, <3>2 DEF CountUp
    <3> QED
      BY <3>1, <3>2
  <2> QED
    BY <1>1, <2>1, <2>4, <2>5 DEF Grown
<1>2. ASSUME NEW by, JoinWaitlist(by) PROVE Grown
  <2>1. UNCHANGED gateVars /\ UNCHANGED <<trials, exports>>
    BY <1>2 DEF JoinWaitlist
  <2>2. Still /\ counts' = counts /\ first' = first
    BY <2>1 DEF gateVars, ledger, Still
  <2> QED
    BY <1>0, <2>2, ReadinessStill DEF Grown, Up
<1>3. ASSUME NEW form, RecordIntent(form) PROVE Grown
  <2>1. Still /\ counts' = counts /\ first' = Dated("subscription_intents")
    BY <1>3 DEF RecordIntent, Still
  <2>2. "subscription_intents" \in Tables
    BY DEF Tables, RetentionDays
  <2> QED
    BY <1>0, <2>1, <2>2, DatedGrows, ReadinessStill DEF Grown, Up
<1> QED
  BY <1>1, <1>2, <1>3 DEF SignUp, Welcome

\* Scores of readiness rise,
LEMMA ReadinessScoreUp == ASSUME Typed, Grown PROVE Up(ReadinessScore, ReadinessScore')
<1>1. Still
  BY DEF Grown
<1>2. /\ Up(counts["saved"], counts'["saved"]) /\ Up(counts["shared"], counts'["shared"])
      /\ Up(counts["views"], counts'["views"]) /\ Up(counts["subscriptions"], counts'["subscriptions"])
      /\ Up(counts["leads"], counts'["leads"])
  BY DEF Grown, Counted
<1>3. Up(SharingScore, SharingScore')
  BY <1>2, SMT DEF SharingScore, AtMost, Up
<1>4. PICK q \in Nat : q = QualityScore /\ q = QualityScore'
  BY <1>1, RunsTyped, RunsStill
<1>5. PICK n \in Nat : n = Len(runs) /\ n = Len(runs')
  BY <1>1, RunsTyped, RunsStill
<1>6. PICK r \in Int : /\ r = 12 * AtMost(800 * Len(feedback) + 8 * Satisfaction + 25 * IntentRate, 10000)
                       /\ r = 12 * AtMost(800 * Len(feedback)' + 8 * Satisfaction' + 25 * IntentRate', 10000)
  <2>1. AtMost(800 * Len(feedback) + 8 * Satisfaction + 25 * IntentRate, 10000) \in Int
    BY FeedbackTyped, SMT DEF AtMost
  <2> QED
    BY <1>1, <2>1, FeedbackStill, SMT
<1>7. PICK o \in Int : /\ o = 6 * AtMost(1000 * Len(outcomes) + 1800 * Purchased + 30 * ConversionRate, 10000)
                       /\ o = 6 * AtMost(1000 * Len(outcomes)' + 1800 * Purchased' + 30 * ConversionRate', 10000)
  <2>1. AtMost(1000 * Len(outcomes) + 1800 * Purchased + 30 * ConversionRate, 10000) \in Int
    BY OutcomesTyped, SMT DEF AtMost
  <2> QED
    BY <1>1, <2>1, OutcomesStill, SMT
<1>8. ReadinessScore = 1800 * AtMost(10 * n + 12 * counts["saved"], 100) + 1600 * SharingScore
        + 1200 * AtMost(25 * counts["subscriptions"], 100) + r + o
        + 1200 * AtMost(10 * counts["leads"], 100) + 24 * q
  BY <1>4, <1>5, <1>6, <1>7, SMT DEF ReadinessScore
<1>9. ReadinessScore' = 1800 * AtMost(10 * n + 12 * counts'["saved"], 100) + 1600 * SharingScore'
        + 1200 * AtMost(25 * counts'["subscriptions"], 100) + r + o
        + 1200 * AtMost(10 * counts'["leads"], 100) + 24 * q
  BY <1>4, <1>5, <1>6, <1>7, SMT DEF ReadinessScore
<1> QED
  BY <1>2, <1>3, <1>8, <1>9, SMT DEF Up, AtMost

\*   and its checks are no worse.
LEMMA ReadinessUp ==
    ASSUME Typed, Grown, NEW a \in DOMAIN Readiness PROVE NoWorse(Readiness[a], Readiness'[a])
<1>1. Still
  BY DEF Grown
<1>2. /\ Up(counts["shared"], counts'["shared"])
      /\ Up(counts["subscriptions"], counts'["subscriptions"])
      /\ Up(counts["leads"], counts'["leads"])
  BY DEF Grown, Counted
<1>3. Up(Len(runs), Len(runs')) /\ Up(Len(feedback), Len(feedback'))
  BY <1>1, RunsTyped, RunsStill, FeedbackTyped, FeedbackStill DEF Up
<1>4. NoWorse(QualityReadiness, QualityReadiness')
  BY <1>1, RunsStill DEF QualityReadiness, NoWorse, Verdict, Rank
<1>5. /\ NoWorse(AtLeast(Len(runs), 3, 10), AtLeast(Len(runs'), 3, 10))
      /\ NoWorse(AtLeast(Len(feedback), 3, 10), AtLeast(Len(feedback'), 3, 10))
  BY <1>3, AtLeastUp
<1>6. /\ NoWorse(AtLeast(counts["shared"], 1, 3), AtLeast(counts'["shared"], 1, 3))
      /\ NoWorse(AtLeast(counts["subscriptions"], 1, 3), AtLeast(counts'["subscriptions"], 1, 3))
      /\ NoWorse(AtLeast(counts["leads"], 3, 10), AtLeast(counts'["leads"], 3, 10))
  BY <1>2, AtLeastUp
<1>7. a \in {"activation", "sharing", "retention", "feedback", "quality", "lead"}
  BY DEF Readiness
<1>8. /\ Readiness.activation = AtLeast(Len(runs), 3, 10)
      /\ Readiness.sharing = AtLeast(counts["shared"], 1, 3)
      /\ Readiness.retention = AtLeast(counts["subscriptions"], 1, 3)
      /\ Readiness.feedback = AtLeast(Len(feedback), 3, 10)
      /\ Readiness.quality = QualityReadiness
      /\ Readiness.lead = AtLeast(counts["leads"], 3, 10)
  BY DEF Readiness
<1>9. /\ Readiness'.activation = AtLeast(Len(runs'), 3, 10)
      /\ Readiness'.sharing = AtLeast(counts'["shared"], 1, 3)
      /\ Readiness'.retention = AtLeast(counts'["subscriptions"], 1, 3)
      /\ Readiness'.feedback = AtLeast(Len(feedback'), 3, 10)
      /\ Readiness'.quality = QualityReadiness'
      /\ Readiness'.lead = AtLeast(counts'["leads"], 3, 10)
  BY DEF Readiness
<1> QED
  BY <1>4, <1>5, <1>6, <1>7, <1>8, <1>9

\* An item no less calm than before.
Calmer(old, item) ==
    /\ Overdue(item) => Overdue(old)
    /\ DueSoon(item) => DueSoon(old)
    /\ item.severity = "blocker" => old.severity = "blocker"

\* An item of readiness that is still there is no graver.
LEMMA ReadinessCalms ==
    ASSUME Typed, NEW id, NEW u, NEW v, NoWorse(u, v), v # "ok"
    PROVE  Calmer(Merged(Item(id, u, now)), Merged(Item(id, v, now)))
<1> DEFINE old == Merged(Item(id, u, now))
           item == Merged(Item(id, v, now))
<1>1. u \in {"warning", "blocker"} /\ v \in {"warning", "blocker"} /\ (v = "blocker" => u = "blocker")
  BY DEF NoWorse, Verdict, Rank
<1>2. old.severity = u /\ item.severity = v /\ old.status = item.status
  BY DEF Merged, Item
<1>3. now \in Nat
  BY DEF Typed, GateTypeOK
<1>4. CASE id \in DOMAIN actions
  <2>1. old.due = item.due
    BY <1>4 DEF Merged, Item
  <2> HIDE DEF old, item
  <2>2. Calmer(old, item)
    BY <1>1, <1>2, <2>1 DEF Calmer, Overdue, DueSoon, Unfinished
  <2> QED
    BY <2>2 DEF old, item
<1>5. CASE id \notin DOMAIN actions
  <2>1. item.due \in {now + 2, now + 5}
    BY <1>1, <1>5 DEF Merged, Item, DefaultDue
  <2> HIDE DEF old, item
  <2>2. ~ (item.due < now) /\ item.due \notin now..(now + 1)
    BY <1>3, <2>1
  <2>3. Calmer(old, item)
    BY <1>1, <1>2, <2>2 DEF Calmer, Overdue, DueSoon, Unfinished
  <2> QED
    BY <2>3 DEF old, item
<1> QED
  BY <1>4, <1>5

\* All that may be listed is finite,
LEMMA ListedFinite == ASSUME Dates PROVE IsFiniteSet(Listed)
<1>1. IsFiniteSet(QualityItems)
  <2>1. CASE runs = <<>>
    <3>1. QualityItems = {}
      BY <2>1 DEF QualityItems, Latest
    <3> QED
      BY <3>1, FS_EmptySet
  <2>2. CASE runs # <<>>
    <3>1. 1 \in DOMAIN runs /\ DOMAIN runs = 1..Len(runs) /\ Len(runs) \in Nat
      BY <2>2 DEF Dates
    <3>2. runs[1] \in Row(RunForm)
      BY <3>1 DEF Dates
    <3>3. PICK n \in Nat : n = runs[1].form.launchBlockers
      BY <3>2 DEF Row, RunForm
    <3>4. PICK B : B = LaunchBlockersBefore(1, n + 1)
      OBVIOUS
    <3>5. IsFiniteSet(B)
      <4>1. n + 1 \in Nat
        OBVIOUS
      <4> QED
        BY <3>1, <3>4, <4>1, PairsFinite
    <3>6. ASSUME NEW i \in DOMAIN runs, NEW j \in 1..runs[i].form.launchBlockers
          PROVE  <<i, j>> \in B
      <4>1. CASE i = 1
        BY <3>3, <3>4, <3>6, <4>1 DEF LaunchBlockersBefore
      <4>2. CASE i # 1
        <5>1. i \in (1 + 1)..Len(runs)
          BY <3>1, <4>2
        <5> QED
          BY <3>4, <5>1 DEF LaunchBlockersBefore
      <4> QED
        BY <4>1, <4>2
    <3>7. QualityItems \subseteq {Item(<<"quality", x[1], x[2]>>, "blocker", runs[x[1]].at) : x \in B}
      <4> SUFFICES ASSUME NEW a \in QualityItems
                   PROVE  \E x \in B : a = Item(<<"quality", x[1], x[2]>>, "blocker", runs[x[1]].at)
        OBVIOUS
      <4>1. PICK i \in DOMAIN runs : \E j \in 1..runs[i].form.launchBlockers :
              a = Item(<<"quality", i, j>>, "blocker", runs[i].at)
        BY DEF QualityItems, Latest
      <4>2. PICK j \in 1..runs[i].form.launchBlockers :
              a = Item(<<"quality", i, j>>, "blocker", runs[i].at)
        BY <4>1
      <4>3. <<i, j>> \in B /\ <<i, j>>[1] = i /\ <<i, j>>[2] = j
        BY <3>6
      <4> QED
        BY <4>2, <4>3
    <3> QED
      BY <3>5, <3>7, QualityBeforeFinite, FS_Subset
  <2> QED
    BY <2>1, <2>2
<1> QED
  BY <1>1, ReadinessFinite, LearningFinite, FeedbackFinite, FS_Union DEF Listed

\*   and no item comes before itself,
LEMMA NotAheadOfItself ==
    ASSUME Dates, outcomes \in Seq(OutcomeForm), NEW a \in Listed PROVE ~Ahead(a.id, a.id)
<1>1. \A p : ~Later(p, p)
  <2> SUFFICES ASSUME NEW p, NEW i \in DOMAIN outcomes, outcomes[i].product = p,
                      \A j \in DOMAIN outcomes : outcomes[j].product = p => j < i
               PROVE  FALSE
    BY DEF Later
  <2>1. i \in Nat /\ i < i
    OBVIOUS
  <2> QED
    BY <2>1
<1>2. CASE a \in ReadinessItems /\ a.id[1] = "readiness"
  BY <1>2 DEF Ahead, SourceRank
<1>3. CASE a \in LearningItems /\ a.id[1] = "learning"
  BY <1>1, <1>3 DEF Ahead, SourceRank
<1>4. CASE a \in FeedbackItems /\ a.id[1] = "feedback"
  <2>1. PICK k \in DOMAIN feedback : a = FeedbackItem(k)
    BY <1>4 DEF FeedbackItems, FeedbackItem, Latest
  <2>2. a.id[2] \in Nat
    BY <2>1 DEF FeedbackItem, Item, Dates
  <2> QED
    BY <1>4, <2>2 DEF Ahead, SourceRank
<1>5. CASE a \in QualityItems /\ a.id[1] = "quality"
  <2>1. PICK k \in DOMAIN runs : \E j \in 1..runs[k].form.launchBlockers :
          a = Item(<<"quality", k, j>>, "blocker", runs[k].at)
    BY <1>5 DEF QualityItems, Latest
  <2>2. a.id[2] \in Nat /\ a.id[3] \in Int
    BY <2>1 DEF Item, Dates
  <2> QED
    BY <1>5, <2>2 DEF Ahead, SourceRank
<1> QED
  BY <1>2, <1>3, <1>4, <1>5, SourceOfItem

\*   so all items are shown if they fit.
LEMMA AllShown == ASSUME Dates, outcomes \in Seq(OutcomeForm), Fits PROVE Shown = Listed
<1> SUFFICES ASSUME NEW item \in Listed PROVE Cardinality(AheadOf(item)) < BacklogLimit
  BY DEF Shown, AheadOf
<1>1. IsFiniteSet(Listed) /\ Cardinality(Listed) \in Nat /\ Cardinality(Listed) <= BacklogLimit
  BY ListedFinite, FS_CardinalityType DEF Fits
<1>2. IsFiniteSet(Listed \ {item}) /\ Cardinality(Listed \ {item}) = Cardinality(Listed) - 1
  BY <1>1, FS_RemoveElement
<1>3. AheadOf(item) \subseteq Listed \ {item}
  BY NotAheadOfItself DEF AheadOf
<1>4. Cardinality(AheadOf(item)) <= Cardinality(Listed \ {item}) /\ Cardinality(AheadOf(item)) \in Nat
  BY <1>2, <1>3, FS_Subset, FS_CardinalityType
<1> QED
  BY <1>1, <1>2, <1>4, LimitsAssumption

\* Every item of the backlog was there, no calmer than now: either the same items are listed,
\* or all of them were shown.
LEMMA BacklogCalms ==
    ASSUME Typed, Grown, NEW item \in Backlog'
    PROVE  \E old \in Backlog : Calmer(old, item)
<1>1. Still /\ now' = now /\ actions' = actions /\ runs' = runs /\ feedback' = feedback
  BY DEF Grown, Still
<1>2. LearningItems' = LearningItems /\ \A q, p : Later(q, p)' = Later(q, p)
  BY <1>1, LearningStill
<1>3. FeedbackItems' = FeedbackItems /\ QualityItems' = QualityItems
  BY <1>1 DEF FeedbackItems, QualityItems, Latest
<1>4. ASSUME NEW i PROVE Merged(i)' = Merged(i)
  BY <1>1 DEF Merged
<1>5. CASE Readiness' = Readiness
  <2>1. ReadinessItems' = ReadinessItems
    BY <1>1, <1>5 DEF ReadinessItems
  <2>2. Listed' = Listed
    BY <1>2, <1>3, <2>1 DEF Listed
  <2>3. \A a, b : Ahead(a, b)' = Ahead(a, b)
    BY <1>2 DEF Ahead
  <2>4. Shown' = Shown
    BY <2>2, <2>3 DEF Shown
  <2>5. item \in Backlog
    BY <1>4, <2>4 DEF Backlog
  <2> QED
    BY <2>5 DEF Calmer
<1>6. CASE Fits
  <2>1. Dates /\ outcomes \in Seq(OutcomeForm)
    BY DEF Dates, Typed, GateTypeOK
  <2>2. Backlog = {Merged(i) : i \in Listed}
    BY <1>6, <2>1, AllShown DEF Backlog
  <2>3. PICK i \in Listed' : item = Merged(i)
    BY <1>4 DEF Backlog, Shown
  <2>4. CASE i \in LearningItems \cup FeedbackItems \cup QualityItems
    <3>1. item \in Backlog
      BY <2>2, <2>3, <2>4 DEF Listed
    <3> QED
      BY <3>1 DEF Calmer
  <2>5. CASE i \in ReadinessItems'
    <3>1. PICK a \in DOMAIN Readiness' : /\ Readiness'[a] # "ok"
                                         /\ i = Item(<<"readiness", a>>, Readiness'[a], now)
      BY <1>1, <2>5 DEF ReadinessItems
    <3>2. a \in DOMAIN Readiness
      BY <3>1 DEF Readiness
    <3>3. NoWorse(Readiness[a], Readiness'[a])
      BY <3>2, ReadinessUp
    <3>4. PICK u, v : u = Readiness[a] /\ v = Readiness'[a]
      OBVIOUS
    <3>5. u # "ok"
      BY <3>1, <3>3, <3>4 DEF NoWorse, Verdict, Rank
    <3>6. Item(<<"readiness", a>>, u, now) \in ReadinessItems
      BY <3>2, <3>4, <3>5 DEF ReadinessItems
    <3>7. Merged(Item(<<"readiness", a>>, u, now)) \in Backlog
      BY <2>2, <3>6 DEF Listed
    <3>8. Calmer(Merged(Item(<<"readiness", a>>, u, now)), Merged(Item(<<"readiness", a>>, v, now)))
      BY <3>1, <3>3, <3>4, ReadinessCalms
    <3> QED
      BY <2>3, <3>1, <3>4, <3>7, <3>8
  <2> QED
    BY <1>2, <1>3, <2>4, <2>5 DEF Listed
<1> QED
  BY <1>5, <1>6 DEF Grown

\* So the backlog is judged no worse.
LEMMA BacklogUp == ASSUME Typed, Grown PROVE NoWorse(BacklogCheck, BacklogCheck')
<1>1. now' = now
  BY DEF Grown, Still
<1>2. ASSUME NEW item PROVE Overdue(item)' = Overdue(item) /\ DueSoon(item)' = DueSoon(item)
  BY <1>1 DEF Overdue, DueSoon, Unfinished
<1>3. (\E item \in Backlog' : Overdue(item)) => (\E item \in Backlog : Overdue(item))
  BY BacklogCalms DEF Calmer
<1>4. (\E item \in Backlog' : DueSoon(item)) => (\E item \in Backlog : DueSoon(item))
  BY BacklogCalms DEF Calmer
<1>5. CountedBlockers(Backlog') # {} => CountedBlockers(Backlog) # {}
  BY BacklogCalms DEF Calmer, CountedBlockers
<1>6. BacklogCheck' =
        CASE \E item \in Backlog' : Overdue(item) -> "blocker"
          [] /\ \A item \in Backlog' : ~Overdue(item)
             /\ CountedBlockers(Backlog') # {} \/ \E item \in Backlog' : DueSoon(item) -> "warning"
          [] OTHER -> "ok"
  BY <1>2 DEF BacklogCheck, CountedBlockers
<1> QED
  BY <1>3, <1>4, <1>5, <1>6 DEF BacklogCheck, NoWorse, Verdict, Rank

\* Delivery is no worse, nor is the retention of data: a row of today has not expired.
LEMMA DeliveryUp == ASSUME Typed, Grown PROVE NoWorse(DeliveryCheck, DeliveryCheck')
<1>1. /\ counts'["completions"] = counts["completions"] /\ counts'["sent"] = counts["sent"]
      /\ counts'["failed"] = counts["failed"]
  BY DEF Grown, Counted, Welcome
<1>2. Up(counts["channels"], counts'["channels"]) /\ counts["channels"] >= 0
  BY DEF Grown, Counted, Typed, GateTypeOK
<1> QED
  BY <1>1, <1>2 DEF DeliveryCheck, NoWorse, Verdict, Rank, Up

\* No table has a row too old that had none.
LEMMA GovernanceUp == ASSUME Typed, Grown PROVE NoWorse(DataGovernance, DataGovernance')
<1>1. now' = now /\ now \in Nat
  BY DEF Grown, Still, Typed, GateTypeOK
<1>2. ASSUME NEW t \in Tables PROVE RetentionDays[t] \in Nat
  BY DEF RetentionDays, Tables
<1>3. ASSUME NEW t \in Tables, Expired(t)' PROVE Expired(t)
  <2>1. first'[t] # None /\ first'[t] + RetentionDays[t] < now
    BY <1>1, <1>3 DEF Expired
  <2>2. CASE first'[t] = first[t]
    BY <2>1, <2>2 DEF Expired
  <2>3. CASE first'[t] = now
    BY <1>1, <1>2, <2>1, <2>3
  <2> QED
    BY <2>2, <2>3 DEF Grown
<1> QED
  BY <1>3 DEF DataGovernance, NoWorse, Verdict, Rank

\* So the gate is no worse.
LEMMA GateUp == ASSUME Typed, Grown PROVE NoWorse(GateStatus, GateStatus')
<1>1. Still
  BY DEF Grown
<1>2. NoWorse(AtLeast(ReadinessScore, Points(45), Points(70)), AtLeast(ReadinessScore', Points(45), Points(70)))
  <2>1. Points(45) \in Int /\ Points(70) \in Int
    BY DEF Points
  <2> QED
    BY <2>1, ReadinessScoreUp, AtLeastUp
<1>3. /\ NoWorse(Regression, Regression') /\ NoWorse(Learning, Learning')
      /\ NoWorse(Conversion, Conversion') /\ NoWorse(Growth, Growth')
      /\ NoWorse(Integration, Integration')
  <2>1. /\ Regression' = Regression /\ Learning' = Learning /\ Conversion' = Conversion
        /\ Growth' = Growth /\ Integration' = Integration
    BY <1>1, RegressionStill, LearningStill, OutcomesStill, GrowthStill, IntegrationStill
  <2>2. \A v \in Verdict : NoWorse(v, v)
    BY DEF NoWorse, Verdict, Rank
  <2> QED
    BY <2>1, <2>2, ChecksTyped, IntegrationTyped
<1>4. /\ NoWorse(BacklogCheck, BacklogCheck') /\ NoWorse(DeliveryCheck, DeliveryCheck')
      /\ NoWorse(DataGovernance, DataGovernance')
  BY BacklogUp, DeliveryUp, GovernanceUp
<1>5. ListNoWorse(Gate, Gate')
  BY <1>2, <1>3, <1>4 DEF ListNoWorse, Gate
<1>6. "blocker" \in Range(Gate') => "blocker" \in Range(Gate)
  BY <1>5 DEF ListNoWorse, NoWorse, Verdict, Rank, Range
<1>7. Range(Gate) = {"ok"} => Range(Gate') = {"ok"}
  <2> SUFFICES ASSUME Range(Gate) = {"ok"} PROVE Range(Gate') = {"ok"}
    OBVIOUS
  <2>1. \A c \in DOMAIN Gate : Gate[c] = "ok"
    BY DEF Range
  <2>2. \A c \in DOMAIN Gate' : Gate'[c] = "ok"
    BY <1>5, <2>1 DEF ListNoWorse, NoWorse, Verdict, Rank
  <2>3. DOMAIN Gate' # {}
    BY DEF Gate
  <2> QED
    BY <2>2, <2>3 DEF Range
<1>8. ReadinessScore >= Points(85) => ReadinessScore' >= Points(85)
  <2>1. Points(85) \in Int
    BY DEF Points
  <2>2. Up(ReadinessScore, ReadinessScore')
    BY ReadinessScoreUp
  <2> QED
    BY <2>1, <2>2 DEF Up
<1>9. GateStatus' = CASE "blocker" \in Range(Gate') -> "blocker"
                      [] Range(Gate') = {"ok"} /\ ReadinessScore' >= Points(85) -> "ok"
                      [] OTHER -> "warning"
  BY DEF GateStatus, Points
<1>10. CASE "blocker" \in Range(Gate)
  BY <1>9, <1>10 DEF GateStatus, NoWorse, Verdict, Rank
<1>11. CASE "blocker" \notin Range(Gate)
  BY <1>6, <1>7, <1>8, <1>9, <1>11 DEF GateStatus, NoWorse, Verdict, Rank
<1> QED
  BY <1>10, <1>11

-----------------------------------------------------------------------------
(* The audience of a sign-up: the invited, the share of them, intents.      *)

\* One more sign-up, invited or with an unknown code, lowers no share of the invited.
LEMMA JoinedUp ==
    ASSUME AudienceTyped, NEW by \in 1..Len(waitlist) \cup {None}, waitlist' = Append(waitlist, by)
    PROVE  /\ Up(Len(waitlist), Len(waitlist')) /\ Up(Referred, Referred')
           /\ Up(ShareRateHint, ShareRateHint')
<1> DEFINE R == {i \in DOMAIN waitlist : waitlist[i] # 0}
           Q == {i \in DOMAIN waitlist' : waitlist'[i] # 0}
<1>1. PICK n \in Nat : n = Len(waitlist) /\ DOMAIN waitlist = 1..n
  BY DEF AudienceTyped
<1>2. /\ Len(waitlist') = n + 1 /\ DOMAIN waitlist' = 1..(n + 1)
      /\ waitlist'[n + 1] = by /\ \A i \in 1..n : waitlist'[i] = waitlist[i]
  BY <1>1 DEF AudienceTyped
<1>3. by # 0
  BY <1>1, NoneIsNoNumber
<1>4. Q = R \cup {n + 1} /\ n + 1 \notin R
  BY <1>1, <1>2, <1>3
<1>5. R \in SUBSET DOMAIN waitlist
  OBVIOUS
<1>6. Referred = Cardinality(R) /\ Referred' = Cardinality(Q)
  BY DEF Referred, Count
<1> HIDE DEF R, Q
<1>7. IsFiniteSet(R) /\ Cardinality(R) \in Nat /\ Cardinality(R) <= n
  BY <1>1, <1>5, SomeRows
<1>8. Cardinality(R \cup {n + 1}) = Cardinality(R) + 1
  BY <1>4, <1>7, FS_AddElement
<1>9. PICK r \in Nat : r = Referred /\ r <= n /\ Referred' = r + 1
  BY <1>4, <1>6, <1>7, <1>8
<1>10. Up(ShareRateHint, ShareRateHint')
  <2>1. waitlist' # <<>>
    BY <1>2
  <2>2. ShareRateHint' = (1000 * (r + 1) + (n + 1) \div 2) \div (n + 1)
    BY <1>2, <1>9, <2>1 DEF ShareRateHint
  <2>3. PICK y \in Int : y = (1000 * (r + 1) + (n + 1) \div 2) \div (n + 1)
    BY <1>9
  <2>4. PICK k \in Int : k = (n + 1) \div 2 /\ 2 * k <= n + 1 /\ n + 1 < 2 * k + 2
    OBVIOUS
  <2>5. (n + 1) * y <= 1000 * (r + 1) + k /\ 1000 * (r + 1) + k < (n + 1) * (y + 1)
    BY <1>9, <2>3, <2>4
  <2>6. CASE n = 0
    <3>1. ShareRateHint = 0
      BY <1>1, <2>6 DEF ShareRateHint, AudienceTyped
    <3>2. y >= 0
      BY <1>9, <2>4, <2>5, <2>6
    <3> QED
      BY <2>2, <2>3, <3>1, <3>2 DEF Up
  <2>7. CASE n > 0
    <3>1. waitlist # <<>>
      BY <1>1, <2>7
    <3>2. ShareRateHint = (1000 * r + n \div 2) \div n
      BY <1>1, <1>9, <3>1 DEF ShareRateHint
    <3>3. PICK m \in Int : m = n \div 2 /\ 2 * m <= n /\ m >= 0
      OBVIOUS
    <3>4. PICK x \in Int : x = (1000 * r + m) \div n
      BY <1>9, <2>7, <3>3
    <3>5. n * x <= 1000 * r + m
      BY <1>9, <2>7, <3>3, <3>4
    <3>6. x <= 1000
      <4>1. n * x < n * 1001
        BY <1>9, <2>7, <3>3, <3>5
      <4> QED
        BY <2>7, <4>1
    <3>7. (n + 1) * x <= 1000 * (r + 1) + k
      <4>1. (n + 1) * x = n * x + x
        OBVIOUS
      <4>2. m <= k
        BY <2>4, <3>3
      <4> QED
        BY <3>5, <3>6, <4>1, <4>2
    <3>8. (n + 1) * x < (n + 1) * (y + 1)
      BY <2>5, <3>7
    <3>9. x < y + 1
      BY <3>8
    <3> QED
      BY <2>2, <2>3, <3>2, <3>3, <3>4, <3>9 DEF Up
  <2> QED
    BY <2>6, <2>7
<1> QED
  BY <1>1, <1>2, <1>9, <1>10 DEF Up

\* These are numbers.
LEMMA AudienceNumbers ==
    ASSUME AudienceTyped
    PROVE  Len(waitlist) \in Nat /\ Referred \in Nat /\ ShareRateHint \in Nat
<1>1. Len(waitlist) \in Nat /\ DOMAIN waitlist = 1..Len(waitlist)
  BY DEF AudienceTyped
<1>2. {i \in DOMAIN waitlist : waitlist[i] # 0} \in SUBSET DOMAIN waitlist
  OBVIOUS
<1>3. Referred \in Nat
  BY <1>1, <1>2, SomeRows DEF Referred, Count
<1>4. PICK n \in Nat, r \in Nat : n = Len(waitlist) /\ r = Referred
  BY <1>1, <1>3
<1>5. waitlist # <<>> => n > 0
  BY <1>1, <1>4
<1>6. n \div 2 \in Nat
  OBVIOUS
<1>7. n > 0 => (1000 * r + n \div 2) \div n \in Nat
  <2>1. PICK m \in Nat : m = n \div 2
    BY <1>6
  <2>2. 1000 * r + m \in Nat
    OBVIOUS
  <2> QED
    BY <2>1, <2>2
<1>8. ShareRateHint \in Nat
  BY <1>4, <1>5, <1>7 DEF ShareRateHint
<1> QED
  BY <1>1, <1>3, <1>8

\* Those who referred somebody stay; the wall shows no fewer voices.
LEMMA VoicesUp ==
    ASSUME Typed, AudienceTyped, Still,
           waitlist' = waitlist
             \/ \E by \in 1..Len(waitlist) \cup {None} : waitlist' = Append(waitlist, by)
    PROVE  Up(Voices, Voices')
<1> DEFINE liked == {i \in DOMAIN Newest(feedback, NotBelow(Limit, 12)) :
                       Newest(feedback, NotBelow(Limit, 12))[i].form.rating >= 4
                         \/ Newest(feedback, NotBelow(Limit, 12))[i].form.intent}
           bought == {i \in DOMAIN Newest(outcomes, NotBelow(Limit, 12)) :
                        Newest(outcomes, NotBelow(Limit, 12))[i].status \in {"purchased", "delayed"}}
<1>1. NotBelow(Limit, 12) \in Nat
  BY BoardsAssumption DEF NotBelow
<1>2. Cardinality(liked) \in Nat /\ Cardinality(bought) \in Nat
  <2>1. feedback \in Seq(Row(FeedbackForm)) /\ outcomes \in Seq(OutcomeForm)
    BY DEF Typed, GateTypeOK
  <2>2. /\ liked \in SUBSET DOMAIN Newest(feedback, NotBelow(Limit, 12))
        /\ bought \in SUBSET DOMAIN Newest(outcomes, NotBelow(Limit, 12))
    OBVIOUS
  <2> HIDE DEF liked, bought
  <2> QED
    BY <1>1, <2>1, <2>2, NewestRows, SomeRows
<1>3. liked' = liked /\ bought' = bought
  <2>1. feedback' = feedback /\ outcomes' = outcomes
    BY DEF Still
  <2> QED
    BY <2>1 DEF Newest
<1>4. Referrers \subseteq Referrers' /\ IsFiniteSet(Referrers') /\ IsFiniteSet(Referrers)
  <2>1. PICK n \in Nat : n = Len(waitlist) /\ DOMAIN waitlist = 1..n
    BY DEF AudienceTyped
  <2>2. Referrers \subseteq 0..n
    <3>1. \A i \in 1..n : waitlist[i] \in 0..n \cup {None}
      BY <2>1 DEF AudienceTyped
    <3> QED
      BY <2>1, <3>1 DEF Referrers, Range
  <2>3. IsFiniteSet(0..n)
    <3>1. 0 \in Int /\ n \in Int
      OBVIOUS
    <3> QED
      BY <3>1, FS_Interval
  <2>4. Referrers \subseteq Referrers' /\ Referrers' \subseteq 0..n
    <3>1. CASE waitlist' = waitlist
      BY <2>2, <3>1 DEF Referrers
    <3>2. ASSUME NEW by \in 1..Len(waitlist) \cup {None}, waitlist' = Append(waitlist, by)
          PROVE  Referrers \subseteq Referrers' /\ Referrers' \subseteq 0..n
      <4>1. /\ DOMAIN waitlist' = 1..(n + 1) /\ waitlist'[n + 1] = by
            /\ \A i \in 1..n : waitlist'[i] = waitlist[i]
        BY <2>1, <3>2 DEF AudienceTyped
      <4>2. Range(waitlist') = Range(waitlist) \cup {by}
        BY <2>1, <4>1 DEF Range
      <4>3. by \in 0..n \cup {None}
        BY <2>1
      <4> QED
        BY <2>2, <4>2, <4>3 DEF Referrers
    <3> QED
      BY <3>1, <3>2
  <2> QED
    BY <2>2, <2>3, <2>4, FS_Subset
<1>5. Up(Cardinality(Referrers), Cardinality(Referrers'))
  BY <1>4, FS_Subset, FS_CardinalityType DEF Up
<1>6. Clamp(Limit, 1, 12) \in Int /\ Clamp(Limit, 3, 8) \in Int
  BY BoardsAssumption DEF Clamp, NotBelow, AtMost
<1>7. Voices = AtMost(Clamp(Limit, 1, 12), Cardinality(liked) + Cardinality(bought)
                        + AtMost(Cardinality(Referrers), Clamp(Limit, 3, 8)))
  BY DEF Voices, Count
<1>8. Voices' = AtMost(Clamp(Limit, 1, 12), Cardinality(liked') + Cardinality(bought')
                         + AtMost(Cardinality(Referrers'), Clamp(Limit, 3, 8)))
  BY DEF Voices, Count
<1> HIDE DEF liked, bought
<1> QED
  BY <1>2, <1>3, <1>5, <1>6, <1>7, <1>8 DEF Up, AtMost

\* Few rows are all new,
LEMMA NewestAll ==
    ASSUME NEW S, NEW rows \in Seq(S), NEW n \in Nat, Len(rows) <= n PROVE Newest(rows, n) = rows
<1>1. Len(rows) \in Nat /\ NotBelow(Len(rows) - n + 1, 1) = 1
  BY DEF NotBelow
<1>2. SubSeq(rows, 1, Len(rows)) = rows
  BY <1>1
<1> QED
  BY <1>1, <1>2 DEF Newest

\* An intent costs nothing or more.
LEMMA MrrNat == ASSUME NEW form \in IntentForm PROVE Mrr(form) \in Nat
<1>1. form.plan \in Plans /\ form.size \in Nat
  <2>1. form.plan \in Plans /\ form.size \in 1..10000
    BY DEF IntentForm
  <2>2. PICK k : k = form.size
    OBVIOUS
  <2>3. k \in 1..10000
    BY <2>1, <2>2
  <2>4. k \in Nat
    BY <2>3, SMT
  <2> QED
    BY <2>1, <2>2, <2>4
<1>2. /\ AnnualPrice["premium"] \in Nat /\ AnnualPrice["team"] \in Nat
      /\ MonthlyPrice["premium"] \in Nat /\ MonthlyPrice["team"] \in Nat
  BY DEF AnnualPrice, MonthlyPrice
<1>3. CASE form.plan = "free"
  BY <1>3 DEF Mrr
<1>4. CASE form.plan = "premium"
  <2>1. (AnnualPrice["premium"] + 6) \div 12 \in Nat
    BY <1>2
  <2> QED
    BY <1>1, <1>2, <1>4, <2>1 DEF Mrr
<1>5. CASE form.plan = "team"
  <2>1. (AnnualPrice["team"] + 6) \div 12 \in Nat /\ MonthlyPrice["team"] * form.size \in Nat
    BY <1>1, <1>2
  <2> QED
    BY <1>1, <1>5, <2>1 DEF Mrr
<1> QED
  BY <1>1, <1>3, <1>4, <1>5 DEF Plans

\* Intents that are added raise what they add up to.
LEMMA PricingRises ==
    ASSUME NEW rows \in Seq(IntentForm), NEW more \in Seq(IntentForm), Len(rows) <= Len(more),
           \A i \in 1..Len(rows) : more[i] = rows[i],
           NEW k \in {"number", "premium", "team", "mrr"}
    PROVE  Up(Pricing(rows)[k], Pricing(more)[k]) /\ Pricing(rows).number >= 0
<1> DEFINE x == [i \in DOMAIN rows |-> Mrr(rows[i])]
           y == [i \in DOMAIN more |-> Mrr(more[i])]
<1>1. /\ Len(rows) \in Nat /\ DOMAIN rows = 1..Len(rows)
      /\ Len(more) \in Nat /\ DOMAIN more = 1..Len(more)
  OBVIOUS
<1>2. /\ \A i \in 1..Len(rows) : rows[i] \in IntentForm
      /\ \A i \in 1..Len(more) : more[i] \in IntentForm
  OBVIOUS
<1>3. x \in Seq(Nat) /\ y \in Seq(Nat) /\ Len(x) = Len(rows) /\ Len(y) = Len(more)
  <2>1. /\ \A i \in 1..Len(rows) : Mrr(rows[i]) \in Nat
        /\ \A i \in 1..Len(more) : Mrr(more[i]) \in Nat
    BY <1>2, MrrNat
  <2> QED
    BY <1>1, <2>1
<1>4. \A i \in 1..Len(x) : x[i] = y[i]
  BY <1>1, <1>3
<1>5. Pricing(rows).mrr = SumOf(x) /\ Pricing(more).mrr = SumOf(y)
  BY DEF Pricing, Total
<1> HIDE DEF x, y
<1>6. Up(SumOf(x), SumOf(y))
  <2>1. x \in Seq(Int) /\ y \in Seq(Int) /\ Len(x) <= Len(y)
    BY <1>3
  <2>2. \A i \in 1..Len(x) : x[i] <= y[i]
    BY <1>3, <1>4
  <2>3. \A i \in (Len(x) + 1)..Len(y) : y[i] >= 0
    BY <1>3
  <2> QED
    BY <2>1, <2>2, <2>3, SumUp DEF Up
<1>7. ASSUME NEW plan PROVE Up(Plan(rows, plan), Plan(more, plan))
  <2> DEFINE P == {i \in DOMAIN rows : rows[i].plan = plan}
             Q == {i \in DOMAIN more : more[i].plan = plan}
  <2>1. P \in SUBSET DOMAIN rows /\ Q \in SUBSET DOMAIN more
    OBVIOUS
  <2>2. P \subseteq Q
    BY <1>1
  <2>3. Plan(rows, plan) = Cardinality(P) /\ Plan(more, plan) = Cardinality(Q)
    BY DEF Plan, Count
  <2> HIDE DEF P, Q
  <2>4. Cardinality(P) \in Nat /\ Cardinality(Q) \in Nat /\ IsFiniteSet(Q)
    BY <1>1, <2>1, SomeRows
  <2>5. Cardinality(P) <= Cardinality(Q)
    BY <2>2, <2>4, FS_Subset
  <2> QED
    BY <2>3, <2>4, <2>5 DEF Up
<1>8. /\ Up(Pricing(rows).number, Pricing(more).number) /\ Pricing(rows).number >= 0
      /\ Up(Pricing(rows).premium, Pricing(more).premium)
      /\ Up(Pricing(rows).team, Pricing(more).team)
  BY <1>1, <1>7 DEF Pricing, Up
<1> QED
  BY <1>5, <1>6, <1>8

-----------------------------------------------------------------------------
(* So all facts rise, no board stands lower, and sign-ups never hurt.       *)

\* A step that at most adds to what sign-ups add to: to counts, the waitlist, and intents
\* within the window.
Greets ==
    /\ Grown
    /\ \/ waitlist' = waitlist
       \/ \E by \in 1..Len(waitlist) \cup {None} : waitlist' = Append(waitlist, by)
    /\ \/ intents' = intents
       \/ \E form \in IntentForms : Len(intents) < IntentWindow /\ intents' = Append(intents, form)

\* Sign-ups are such steps, and so is none.
LEMMA SignUpGreets == ASSUME Typed, SignUp \/ UNCHANGED vars PROVE Greets
<1>1. CASE SignUp
  BY <1>1, SignUpGrows DEF Greets, SignUp, audience, JoinWaitlist, RecordIntent
<1>2. CASE UNCHANGED vars
  <2>1. Still /\ UNCHANGED <<counts, first, waitlist, intents>>
    BY <1>2 DEF vars, gateVars, ledger, audience, Still
  <2>2. \A c \in Counted : counts[c] \in Nat
    BY DEF Typed, GateTypeOK
  <2> QED
    BY <2>1, <2>2, ReadinessStill DEF Greets, Grown, Up
<1> QED
  BY <1>1, <1>2

\* It asks for no plan, or for one more within the window;
LEMMA IntentsUp ==
    ASSUME AudienceTyped, Greets, NEW old, old = Pricing(Newest(intents, IntentWindow)),
           NEW new, new = Pricing(Newest(intents', IntentWindow)),
           NEW k \in {"number", "premium", "team", "mrr"}
    PROVE  Up(old[k], new[k]) /\ old.number >= 0
<1>1. intents \in Seq(IntentForm) /\ IntentWindow \in Nat /\ Len(intents) \in Nat
  BY DEF AudienceTyped, IntentWindow
<1>2. CASE intents' = intents
  <2>1. Newest(intents, IntentWindow) \in Seq(IntentForm)
    BY <1>1, NewestRows
  <2> QED
    BY <1>2, <2>1, PricingRises
<1>3. ASSUME NEW form \in IntentForms, Len(intents) < IntentWindow, intents' = Append(intents, form)
      PROVE  Up(old[k], new[k]) /\ old.number >= 0
  <2>1. /\ Append(intents, form) \in Seq(IntentForm)
        /\ Len(Append(intents, form)) = Len(intents) + 1
        /\ \A i \in 1..Len(intents) : Append(intents, form)[i] = intents[i]
    BY <1>1, BoardsAssumption
  <2>2. Newest(intents, IntentWindow) = intents
    BY <1>1, <1>3, NewestAll
  <2>3. Newest(Append(intents, form), IntentWindow) = Append(intents, form)
    <3>1. Len(Append(intents, form)) <= IntentWindow
      BY <1>1, <1>3, <2>1
    <3> QED
      BY <1>1, <2>1, <3>1, NewestAll
  <2>4. Len(intents) <= Len(Append(intents, form))
    BY <1>1, <2>1
  <2> QED
    BY <1>1, <1>3, <2>1, <2>2, <2>3, <2>4, PricingRises
<1>4. \/ intents' = intents
      \/ \E form \in IntentForms : Len(intents) < IntentWindow /\ intents' = Append(intents, form)
  BY DEF Greets
<1> QED
  BY <1>2, <1>3, <1>4

\*   it invites nobody, or one more.
LEMMA AudienceUp ==
    ASSUME Typed, AudienceTyped, Greets
    PROVE  /\ Up(Len(waitlist), Len(waitlist')) /\ Up(Referred, Referred')
           /\ Up(ShareRateHint, ShareRateHint') /\ Up(Voices, Voices')
<1>1. Still
  BY DEF Greets, Grown
<1>2. waitlist' = waitlist \/ \E by \in 1..Len(waitlist) \cup {None} : waitlist' = Append(waitlist, by)
  BY DEF Greets
<1>3. Up(Voices, Voices')
  BY <1>1, <1>2, VoicesUp
<1>4. CASE waitlist' = waitlist
  <2>1. Referred' = Referred
    BY <1>4 DEF Referred, Count
  <2>2. ShareRateHint' = ShareRateHint
    BY <1>4, <2>1 DEF ShareRateHint
  <2> QED
    BY <1>3, <1>4, <2>1, <2>2, AudienceNumbers DEF Up
<1> QED
  BY <1>2, <1>3, <1>4, JoinedUp

\* So every fact that a board reads rises.
LEMMA FactsRise ==
    ASSUME Typed, AudienceTyped, Greets
    PROVE  \E f, g : f = Facts /\ g = Facts' /\ Rises(f, g)
<1>1. Grown /\ Still
  BY DEF Greets, Grown
<1>2. PICK f, g : f = Facts /\ g = Facts'
  OBVIOUS
<1>3. Numbers \cup Judgements \subseteq DOMAIN f /\ Numbers \cup Judgements \subseteq DOMAIN g
  BY <1>2 DEF Facts, Numbers, Judgements, Scores
<1>4. ASSUME NEW k \in Scores PROVE f[k] = 0 /\ g[k] = 0
  BY <1>2 DEF Facts, Scores
<1>5. /\ Up(f.runs, g.runs) /\ Up(f.feedback, g.feedback) /\ Up(f.quality, g.quality)
      /\ Up(f.picked, g.picked) /\ Up(f.ready, g.ready)
  <2>1. /\ f.runs = Len(runs) /\ f.feedback = Len(feedback) /\ f.quality = 100 * AverageQuality
        /\ f.picked = Percent(Count(runs, LAMBDA r : r.form.picked), Len(runs))
        /\ f.ready = ReadinessScore
    BY <1>2 DEF Facts
  <2>2. /\ g.runs = Len(runs)' /\ g.feedback = Len(feedback)' /\ g.quality = 100 * AverageQuality'
        /\ g.picked = Percent(Count(runs, LAMBDA r : r.form.picked), Len(runs))'
        /\ g.ready = ReadinessScore'
    BY <1>2 DEF Facts
  <2>3. 100 * AverageQuality \in Int
    BY RunsTyped
  <2> QED
    BY <1>1, <2>1, <2>2, <2>3, RunsTyped, RunsStill, PickedStill, FeedbackTyped, FeedbackStill,
       ReadinessScoreUp DEF Up
<1>6. /\ Up(f.connected, g.connected) /\ Up(f.satisfaction, g.satisfaction)
      /\ Up(f.intent, g.intent) /\ Up(f.purchased, g.purchased) /\ Up(f.checkouts, g.checkouts)
  <2>1. /\ f.connected = IntegrationScore /\ f.satisfaction = Satisfaction /\ f.intent = IntentRate
        /\ f.purchased = Purchased /\ f.checkouts = Checkouts
    BY <1>2 DEF Facts
  <2>2. /\ g.connected = IntegrationScore' /\ g.satisfaction = Satisfaction' /\ g.intent = IntentRate'
        /\ g.purchased = Purchased' /\ g.checkouts = Checkouts'
    BY <1>2 DEF Facts
  <2> QED
    BY <1>1, <2>1, <2>2, IntegrationTyped, IntegrationStill, FeedbackTyped, FeedbackStill,
       OutcomesTyped, OutcomesStill, CheckoutsTyped, CheckoutsStill DEF Up
<1>7. /\ Up(f.joined, g.joined) /\ Up(f.referred, g.referred) /\ Up(f.hint, g.hint)
      /\ Up(f.voices, g.voices)
  <2>1. f.joined = Len(waitlist) /\ f.referred = Referred /\ f.hint = ShareRateHint /\ f.voices = Voices
    BY <1>2 DEF Facts
  <2>2. /\ g.joined = Len(waitlist') /\ g.referred = Referred' /\ g.hint = ShareRateHint'
        /\ g.voices = Voices'
    BY <1>2 DEF Facts
  <2> QED
    BY <2>1, <2>2, AudienceUp
<1>8. /\ Up(f.conversions, g.conversions) /\ Up(f.trialScore, g.trialScore)
      /\ Up(f.delivered, g.delivered)
  <2> DEFINE left == NotBelow(Points(100 - 8 * Exports("queued") - 18 * Exports("failed")), 0)
  <2>1. f.conversions = Conversions /\ f.trialScore = TrialScore /\ f.delivered = left
    BY <1>2 DEF Facts
  <2>2. g.conversions = Conversions' /\ g.trialScore = TrialScore' /\ g.delivered = left'
    BY <1>2 DEF Facts
  <2>3. left' = left
    BY <1>1, ExportsStill
  <2>4. left \in Int
    BY ExportsTyped DEF NotBelow, Points
  <2> HIDE DEF left
  <2> QED
    BY <1>1, <2>1, <2>2, <2>3, <2>4, TrialsTyped, TrialsStill DEF Up
<1>9. Up(f.clicks, g.clicks) /\ Up(f.clickRate, g.clickRate) /\ Up(f.shareRate, g.shareRate)
  <2> DEFINE all == Total(GrowthSteps, LAMBDA e : events[e])
                      + events["purchase_link_cta"] + events["feedback_cta"]
             clicked == EventRate("recommendation_click")
             told == EventRate("share_cta")
  <2>1. f.clicks = all /\ f.clickRate = clicked /\ f.shareRate = told
    BY <1>2 DEF Facts
  <2>2. g.clicks = all' /\ g.clickRate = clicked' /\ g.shareRate = told'
    BY <1>2 DEF Facts
  <2>3. all' = all /\ clicked' = clicked /\ told' = told
    BY <1>1, EventsStill
  <2>4. all \in Int /\ clicked \in Int /\ told \in Int
    BY EventsTyped
  <2> HIDE DEF all, clicked, told
  <2> QED
    BY <2>1, <2>2, <2>3, <2>4 DEF Up
<1>10. \A k \in Numbers : Up(f[k], g[k])
  <2>1. \A k \in Scores : Up(f[k], g[k])
    BY <1>4 DEF Up
  <2> QED
    BY <1>5, <1>6, <1>7, <1>8, <1>9, <2>1 DEF Numbers
<1>11. \A k \in Judgements : NoWorse(f[k], g[k])
  <2>1. /\ f.gate = GateStatus /\ f.regression = Regression /\ f.growth = Growth
        /\ f.governance = DataGovernance /\ f.integration = Integration /\ f.trial = TrialStatus
        /\ f.outbox = OutboxStatus /\ f.surface = "blocker"
    BY <1>2 DEF Facts
  <2>2. /\ g.gate = GateStatus' /\ g.regression = Regression' /\ g.growth = Growth'
        /\ g.governance = DataGovernance' /\ g.integration = Integration' /\ g.trial = TrialStatus'
        /\ g.outbox = OutboxStatus' /\ g.surface = "blocker"
    BY <1>2 DEF Facts
  <2>3. \A v \in Verdict : NoWorse(v, v)
    BY DEF NoWorse, Verdict, Rank
  <2>4. /\ Regression' = Regression /\ Growth' = Growth /\ Integration' = Integration
        /\ TrialStatus' = TrialStatus /\ OutboxStatus' = OutboxStatus
    BY <1>1, RegressionStill, GrowthStill, IntegrationStill, TrialsStill, ExportsStill
  <2>5. /\ Regression \in Verdict /\ Growth \in Verdict /\ Integration \in Verdict
        /\ TrialStatus \in Verdict /\ OutboxStatus \in Verdict /\ "blocker" \in Verdict
    BY ChecksTyped, IntegrationTyped, TrialsTyped, ExportsTyped DEF Verdict
  <2>6. NoWorse(f.gate, g.gate) /\ NoWorse(f.governance, g.governance)
    BY <1>1, <2>1, <2>2, GateUp, GovernanceUp
  <2>7. /\ NoWorse(f.regression, g.regression) /\ NoWorse(f.growth, g.growth)
        /\ NoWorse(f.integration, g.integration) /\ NoWorse(f.trial, g.trial)
        /\ NoWorse(f.outbox, g.outbox) /\ NoWorse(f.surface, g.surface)
    BY <2>1, <2>2, <2>3, <2>4, <2>5
  <2> QED
    BY <2>6, <2>7 DEF Judgements
<1>12. Told(f, g)
  <2>1. f.events = events /\ f.counts = counts /\ g.events = events' /\ g.counts = counts'
    BY <1>2 DEF Facts
  <2>2. /\ f.pricing = Pricing(Newest(intents, IntentWindow))
        /\ g.pricing = Pricing(Newest(intents', IntentWindow))
    BY <1>2 DEF Facts
  <2>3. \A e \in {"recommendation_click", "share_cta", "subscription_cta"} : Up(f.events[e], g.events[e])
    <3>1. {"recommendation_click", "share_cta", "subscription_cta"} \subseteq GrowthEventType
      BY DEF GrowthEventType, GrowthSteps, Range
    <3>2. events' = events
      BY <1>1, EventsStill
    <3> QED
      BY <2>1, <3>1, <3>2, EventsTyped DEF Up
  <2>4. \A c \in {"saved", "shared", "views", "monitors", "traces"} : Up(f.counts[c], g.counts[c])
    BY <1>1, <2>1 DEF Grown, Counted
  <2>5. ASSUME NEW k \in {"number", "premium", "team", "mrr"}
        PROVE  Up(f.pricing[k], g.pricing[k]) /\ f.pricing.number >= 0
    BY <2>2, IntentsUp
  <2>6. f.pricing.number >= 0
    BY <2>5
  <2> QED
    BY <2>3, <2>4, <2>5, <2>6 DEF Told
<1> QED
  BY <1>2, <1>3, <1>10, <1>11, <1>12 DEF Rises

\* What the boards showed before a sign-up; every board stands as high now.
NoneStandsLower == before # None => \A b \in DOMAIN Boards : Up(before[b], Boards[b])

\* No such step lets a board stand lower.
LEMMA BoardsRise ==
    ASSUME Typed, AudienceTyped, Greets
    PROVE  /\ DOMAIN Boards' = DOMAIN Boards
           /\ \A b \in DOMAIN Boards : Up(Boards[b], Boards'[b])
<1>1. PICK f, g : f = Facts /\ g = Facts' /\ Rises(f, g)
  BY FactsRise
<1>2. Boards = Standing(Scored(f))
  BY <1>1, BoardsAreScored
<1>3. Boards' = Standing(Scored(g))
  <2>1. {Standing(u) : u \in {Scored(v) : v \in {g}}} = {Standing(Scored(g))}
    OBVIOUS
  <2> QED
    BY <1>1, <2>1 DEF Boards
<1>4. PICK x, y : x = Scored(f) /\ y = Scored(g) /\ Rises(x, y)
  BY <1>1, ScoredUp
<1>5. DOMAIN Standing(x) = DOMAIN Standing(y)
  BY DEF Standing
<1> QED
  BY <1>2, <1>3, <1>4, <1>5, StandingUp

\* A step compares the boards with those before it, if it is a sign-up.
LEMMA StepStands == ASSUME TypesInv, NoneStandsLower, [Next]_vars PROVE NoneStandsLower'
<1>1. Typed /\ AudienceTyped
  BY DEF TypesInv
<1>2. CASE Next /\ SignUp
  <2>1. before' = Boards
    BY <1>2 DEF Next
  <2> QED
    BY <1>1, <1>2, <2>1, SignUpGreets, BoardsRise DEF NoneStandsLower
<1>3. CASE Next /\ ~SignUp
  <2>1. before' = None
    BY <1>3 DEF Next
  <2> QED
    BY <2>1 DEF NoneStandsLower
<1>4. CASE UNCHANGED vars
  <2>1. before' = before
    BY <1>4 DEF vars
  <2>2. /\ DOMAIN Boards' = DOMAIN Boards
        /\ \A b \in DOMAIN Boards : Up(Boards[b], Boards'[b])
    BY <1>1, <1>4, SignUpGreets, BoardsRise
  <2> QED
    BY <2>1, <2>2 DEF NoneStandsLower, Up
<1> QED
  BY <1>2, <1>3, <1>4

-----------------------------------------------------------------------------
(* Theorems.                                                                *)

\* Analyses and feedback are dated rows of their forms, in whatever order requests come.
THEOREM DatesAlways == Spec => []Dates
  BY InitDates, StepDates, PTL DEF Spec

\* Every row, PATCH and board has its type; that a stored deadline is a day or unreadable, and
\* that no more reports are shared than are saved, takes all steps together.
THEOREM TypesAlways == Spec => []TypeOK
<1>1. TypesInv => TypeOK
  BY DEF TypesInv, Typed, AudienceTyped, HistoryTyped, TypeOK
<1> QED
  BY <1>1, InitTypes, StepTypes, PTL DEF Spec

\* A complaint or a launch blocker past its deadline, whether nobody acted on it or it was put
\* off to a day that has passed, blocks the launch in get_launch_gate_dashboard, as long as
\* the newer rows leave it room among the items that the backlog shows; nothing stored for
\* other items hides it.
THEOREM OverdueBlocksAlways == Spec => []OverdueBlocks
  BY DatesAlways, DatesBlock, PTL

\* Neither the gate nor the preflight says go while an analysis ever had a blocker, the
\* backlog has room for a launch blocker or for a feedback rated 1 or 2, whatever was done
\* about it, or a critical integration is not verified.
THEOREM GoMeansCleanAlways == Spec => []GoMeansClean
<1>1. Dates => GoMeansClean
  BY StainStains DEF GoMeansClean
<1> QED
  BY <1>1, DatesAlways, PTL

\* Sign-ups worsen no board: whoever saves, shares, visits, subscribes, leaves a contact, is
\* invited or asks for a plan, neither the launch gate nor any of the dozen boards built on
\* scores of other boards, up to the preflight, shows a worse verdict right after; where the
\* backlog is cut, that is of those who change no check of readiness.
THEOREM SignUpsNeverHurt == Spec => []SignUpNeverHurts
<1>1. Init => TypesInv /\ NoneStandsLower
  <2>1. Init => NoneStandsLower
    BY DEF Init, NoneStandsLower
  <2> QED
    BY <2>1, InitTypes
<1>2. TypesInv /\ NoneStandsLower /\ [Next]_vars => (TypesInv /\ NoneStandsLower)'
  BY StepTypes, StepStands
<1>3. NoneStandsLower => SignUpNeverHurts
  BY DEF NoneStandsLower, SignUpNeverHurts, NoneWorse, Up
<1> QED
  BY <1>1, <1>2, <1>3, PTL DEF Spec
=============================================================================
