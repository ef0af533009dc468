---------------------------- MODULE SourceRefresh ----------------------------
(****************************************************************************)
(* Source monitors of one workspace and the gate in front of live fetches:  *)
(* provider policies, the hourly quota and its log, the refresh requests    *)
(* that work monitors off one after the other, URL ingestion, and the       *)
(* review items both leave for an operator to decide.                       *)
(*                                                                          *)
(* A request is a sequence of statements, each its own transaction, with a  *)
(* network call among them; requests run on a thread pool and overlap.      *)
(* Rows of blocked fetches are never counted and are not modelled, nor are  *)
(* failure_count and the run history, which nothing reads back.             *)
(****************************************************************************)
EXTENDS FiniteSets, Naturals

CONSTANTS
    Sources,        \* URLs; a monitor carries the name of its URL
    Active,         \* the monitors created active: there is no update
    Snapshots,      \* the monitors created with an html_snapshot
    Overridden,     \* the monitors that html_overrides replace, by a page or blank
    Responsive,     \* hosts that answer, or fail with an error ingestion expects
    Policies,       \* provider policies and the ids they mint
    Matches,        \* the policies whose host_pattern is a suffix of the URL's host
    PatternLength,  \* the length of a host_pattern
    Approved,       \* policies with live fetch, robots and terms all approved
    Quota,          \* rate_limit_per_hour
    Fetches,        \* ids of fetch log rows; enough for one to be always unused
    Keys,           \* what a review id is made from: model, first 120 characters
    Prices,         \* what a page says beyond these
    Threads,        \* worker threads that serve refresh and ingest requests
    Limit,          \* the `limit' of a refresh request
    Cadence,        \* cadence_minutes of the monitors, in ticks
    Hour,           \* the window of the quota, in ticks
    None            \* no row, no value

ASSUME FiniteSources == IsFiniteSet(Sources) /\ IsFiniteSet(Policies)
ASSUME FiniteThreads == IsFiniteSet(Fetches) /\ IsFiniteSet(Threads) /\ Threads # {}
ASSUME SubsetsOfSources ==
    /\ Active \subseteq Sources
    /\ Snapshots \subseteq Sources
    /\ Overridden \subseteq Sources
    /\ Responsive \subseteq Sources
ASSUME PolicyConstants ==
    /\ Matches \in [Sources -> SUBSET Policies]
    /\ PatternLength \in [Policies -> Nat]
    /\ Approved \subseteq Policies
    /\ Quota \in [Policies -> Nat \ {0}]
ASSUME NumbersArePositive == {Limit, Cadence, Hour} \subseteq Nat \ {0}

\* A review item is found by its URL and key; the page's price is data in it.
Items == Sources \X Keys
Review == [price : Prices, status : {"pending", "approved", "rejected"}]
Candidates == [key : Keys, price : Prices]
LogRow == [policy : Policies, age : 0..Hour]

ASSUME NoneIsNoValue ==
    None \notin Sources \cup Policies \cup Keys \cup Nat \cup Review \cup Candidates \cup LogRow
                   \cup {"refresh", "due", "ingest"}

VARIABLES
    born,        \* source_monitors: the order of created_at, 0 for no row
    policyBorn,  \* source_provider_policies, likewise
    sinceRun,    \* ticks since last_run_at, at most Cadence; None before the first run
    lastSource,  \* last_source_id: the key of the last run, None if it failed
    log,         \* source_provider_fetch_log: the allowed rows of the last hour
    review,      \* source_review_queue
    pc,          \* where each thread is in its request
    mode,        \* the endpoint it serves
    blank,       \* the sources without html in this request: these are fetched live
    queue,       \* the monitors a refresh has listed and not taken yet
    doing,       \* the source it is working on
    provider,    \* the policy its gate has found
    result       \* the candidate it has extracted, None after a failure

tableVars == <<born, policyBorn, sinceRun, lastSource, log, review>>
requestVars == <<mode, blank, queue, doing, provider, result>>
vars == <<born, policyBorn, sinceRun, lastSource, log, review,
          pc, mode, blank, queue, doing, provider, result>>

Steps == {"idle", "take", "policy", "count", "record", "fetch", "review", "run"}

TypeOK ==
    /\ born \in [Sources -> Nat]
    /\ policyBorn \in [Policies -> Nat]
    /\ sinceRun \in [Sources -> 0..Cadence \cup {None}]
    /\ lastSource \in [Sources -> Keys \cup {None}]
    /\ log \in [Fetches -> LogRow \cup {None}]
    /\ review \in [Items -> Review \cup {None}]
    /\ pc \in [Threads -> Steps]
    /\ mode \in [Threads -> {"refresh", "due", "ingest", None}]
    /\ blank \in [Threads -> SUBSET Sources]
    /\ queue \in [Threads -> SUBSET Sources]
    /\ doing \in [Threads -> Sources \cup {None}]
    /\ provider \in [Threads -> Policies \cup {None}]
    /\ result \in [Threads -> Candidates \cup {None}]

Init ==
    /\ born = [s \in Sources |-> 0]
    /\ policyBorn = [p \in Policies |-> 0]
    /\ sinceRun = [s \in Sources |-> None]
    /\ lastSource = [s \in Sources |-> None]
    /\ log = [f \in Fetches |-> None]
    /\ review = [i \in Items |-> None]
    /\ pc = [t \in Threads |-> "idle"]
    /\ mode = [t \in Threads |-> None]
    /\ blank = [t \in Threads |-> {}]
    /\ queue = [t \in Threads |-> {}]
    /\ doing = [t \in Threads |-> None]
    /\ provider = [t \in Threads |-> None]
    /\ result = [t \in Threads |-> None]

Created == {s \in Sources : born[s] # 0}
Due(s) == sinceRun[s] \in {None, Cadence}
Used(p) == Cardinality({f \in Fetches : log[f] # None /\ log[f].policy = p})

-----------------------------------------------------------------------------
(* Mistakes the operators below could make, as in the other modules.        *)

\* The oldest monitor goes first.
OldestFirst(s, set) == \A r \in set : born[r] >= born[s]

\* The quota admits one fetch too many.
AdmitAtQuota(t) ==
    /\ pc[t] = "count"
    /\ Used(provider[t]) <= Quota[provider[t]]
    /\ pc' = [pc EXCEPT ![t] = "record"]
    /\ UNCHANGED <<tableVars, requestVars>>

\* refresh-due runs whatever is listed.
SelectedDueOrNot(ids, inactive, due) ==
    LET asked == {s \in Created : (inactive \/ s \in Active) /\ (ids = {} \/ s \in ids)} IN
    {s \in asked : Cardinality({r \in asked : born[r] > born[s]}) < Limit}

\* A refused monitor is skipped without a run.
RefuseWithoutRun(t) ==
    /\ pc' = [pc EXCEPT ![t] = IF mode[t] = "ingest" THEN "idle" ELSE "take"]
    /\ doing' = [doing EXCEPT ![t] = None]
    /\ provider' = [provider EXCEPT ![t] = None]
    /\ UNCHANGED <<mode, blank, queue, result>>

\* INSERT OR REPLACE
Requeued(item, candidate) == [price |-> candidate.price, status |-> "pending"]

\* The candidate goes to the run without its review item.
FetchWithoutReview(t) ==
    /\ pc[t] = "fetch"
    /\ \E candidate \in Candidates :
          result' = [result EXCEPT ![t] = candidate]
    /\ pc' = [pc EXCEPT ![t] = IF mode[t] = "ingest" THEN "review" ELSE "run"]
    /\ UNCHANGED <<tableVars, mode, blank, queue, doing, provider>>

\* The run stores what it extracted where its source id belongs.
WholeCandidate(candidate) == candidate

-----------------------------------------------------------------------------
(* Monitors, policies, review decisions, time.                              *)

\* POST /sources/monitors parses the page once, without fetching or storing it.
CreateMonitor(s) ==
    /\ born[s] = 0
    /\ born' = [born EXCEPT ![s] = 1 + Cardinality(Created)]
    /\ UNCHANGED <<policyBorn, sinceRun, lastSource, log, review, pc, requestVars>>

\* Policies are only ever added; a newer one for the same host supersedes.
CreatePolicy(p) ==
    /\ policyBorn[p] = 0
    /\ policyBorn' = [policyBorn EXCEPT ![p] =
                        1 + Cardinality({q \in Policies : policyBorn[q] # 0})]
    /\ UNCHANGED <<born, sinceRun, lastSource, log, review, pc, requestVars>>

\* An operator may decide an item again, and may put it back to pending.
DecideReview(i, status) ==
    /\ review[i] # None
    /\ review' = [review EXCEPT ![i].status = status]
    /\ UNCHANGED <<born, policyBorn, sinceRun, lastSource, log, pc, requestVars>>

\* Ages stop where they decide nothing more: a monitor at its cadence, a log
\* row when it leaves the window.
Tick ==
    /\ sinceRun' = [s \in Sources |->
                      IF sinceRun[s] \in {None, Cadence} THEN sinceRun[s] ELSE sinceRun[s] + 1]
    /\ log' = [f \in Fetches |->
                 IF log[f] = None \/ log[f].age = Hour THEN None
                 ELSE [log[f] EXCEPT !.age = @ + 1]]
    /\ UNCHANGED <<born, policyBorn, lastSource, review, pc, requestVars>>

-----------------------------------------------------------------------------
(* The start and the end of a request.                                      *)

\* ORDER BY created_at DESC LIMIT
Newest(s, set) == \A r \in set : born[r] <= born[s]
Listed(set) == {s \in set : Cardinality({r \in set : born[r] > born[s]}) < Limit}

\* The due monitors are filtered out of those listed, after the LIMIT.
Selected(ids, inactive, due) ==
    LET asked == {s \in Created : (inactive \/ s \in Active) /\ (ids = {} \/ s \in ids)} IN
    IF due THEN {s \in Listed(asked) : Due(s)} ELSE Listed(asked)

\* What html_overrides can make of the stored snapshots: the sources left blank.
Htmls == {html \in SUBSET Sources :
            html \ Overridden = (Sources \ Snapshots) \ Overridden}

\* POST /sources/refresh and /sources/refresh-due
StartRefresh(t, ids, inactive, due, html) ==
    /\ pc[t] = "idle"
    /\ Selected(ids, inactive, due) # {}
    /\ queue' = [queue EXCEPT ![t] = Selected(ids, inactive, due)]
    /\ mode' = [mode EXCEPT ![t] = IF due THEN "due" ELSE "refresh"]
    /\ blank' = [blank EXCEPT ![t] = html]
    /\ pc' = [pc EXCEPT ![t] = "take"]
    /\ UNCHANGED <<tableVars, doing, provider, result>>

\* POST /sources/ingest-url, with the page's html or without
StartIngest(t, s, html) ==
    /\ pc[t] = "idle"
    /\ mode' = [mode EXCEPT ![t] = "ingest"]
    /\ doing' = [doing EXCEPT ![t] = s]
    /\ blank' = [blank EXCEPT ![t] = html]
    /\ pc' = [pc EXCEPT ![t] = IF s \in html THEN "policy" ELSE "fetch"]
    /\ UNCHANGED <<tableVars, queue, provider, result>>

\* The request answers, or ends with an error; what it has committed stays.
Leave(t) ==
    /\ pc' = [pc EXCEPT ![t] = "idle"]
    /\ mode' = [mode EXCEPT ![t] = None]
    /\ blank' = [blank EXCEPT ![t] = {}]
    /\ queue' = [queue EXCEPT ![t] = {}]
    /\ doing' = [doing EXCEPT ![t] = None]
    /\ provider' = [provider EXCEPT ![t] = None]
    /\ result' = [result EXCEPT ![t] = None]

\* The loop over the monitors, newest first.
Take(t) ==
    /\ pc[t] = "take"
    /\ \E s \in queue[t] :
          /\ Newest(s, queue[t])
          /\ queue' = [queue EXCEPT ![t] = @ \ {s}]
          /\ doing' = [doing EXCEPT ![t] = s]
          /\ pc' = [pc EXCEPT ![t] = IF s \in blank[t] THEN "policy" ELSE "fetch"]
    /\ UNCHANGED <<tableVars, mode, blank, provider, result>>

Answer(t) ==
    /\ pc[t] = "take" /\ queue[t] = {}
    /\ Leave(t)
    /\ UNCHANGED tableVars

-----------------------------------------------------------------------------
(* The gate: policy, quota, log.                                            *)

Live(t) == doing[t] \in blank[t]

\* The longest pattern wins, and among equals the newest policy.
Governing(s) ==
    {p \in Matches[s] :
        /\ policyBorn[p] # 0
        /\ \A q \in Matches[s] :
              policyBorn[q] # 0 =>
                  \/ PatternLength[q] < PatternLength[p]
                  \/ PatternLength[q] = PatternLength[p] /\ policyBorn[q] <= policyBorn[p]}

\* A refresh records the refusal as a failed run; an ingestion answers 403.
Refuse(t) ==
    IF mode[t] = "ingest" THEN Leave(t)
    ELSE /\ pc' = [pc EXCEPT ![t] = "run"]
         /\ provider' = [provider EXCEPT ![t] = None]
         /\ UNCHANGED <<mode, blank, queue, doing, result>>

ReadPolicy(t) ==
    /\ pc[t] = "policy"
    /\ \/ /\ Governing(doing[t]) \cap Approved = {}
          /\ Refuse(t)
       \/ \E p \in Governing(doing[t]) \cap Approved :
             /\ provider' = [provider EXCEPT ![t] = p]
             /\ pc' = [pc EXCEPT ![t] = "count"]
             /\ UNCHANGED <<mode, blank, queue, doing, result>>
    /\ UNCHANGED tableVars

CountFetches(t) ==
    /\ pc[t] = "count"
    /\ \/ /\ Used(provider[t]) >= Quota[provider[t]]
          /\ Refuse(t)
       \/ /\ Used(provider[t]) < Quota[provider[t]]
          /\ pc' = [pc EXCEPT ![t] = "record"]
          /\ UNCHANGED requestVars
    /\ UNCHANGED tableVars

\* The decision is recorded without counting again, and before the fetch.
RecordFetch(t) ==
    /\ pc[t] = "record"
    /\ \E f \in Fetches :
          /\ log[f] = None
          /\ log' = [log EXCEPT ![f] = [policy |-> provider[t], age |-> 0]]
    /\ pc' = [pc EXCEPT ![t] = "fetch"]
    /\ provider' = [provider EXCEPT ![t] = None]
    /\ UNCHANGED <<born, policyBorn, sinceRun, lastSource, review,
                   mode, blank, queue, doing, result>>

-----------------------------------------------------------------------------
(* The page: fetch and parse, review item, run.                             *)

FetchPage(t) ==
    /\ pc[t] = "fetch"
    /\ \E candidate \in Candidates :
          result' = [result EXCEPT ![t] = candidate]
    /\ pc' = [pc EXCEPT ![t] = "review"]
    /\ UNCHANGED <<tableVars, mode, blank, queue, doing, provider>>

\* An HTTP error, a refused connection, a wrong content type: all ValueErrors.
FetchFails(t) ==
    /\ pc[t] = "fetch" /\ Live(t)
    /\ Refuse(t)
    /\ UNCHANGED tableVars

\* A read that times out, or a host that hangs up, is no URLError and no
\* ValueError: it leaves the loop and the request.
FetchAborts(t) ==
    /\ pc[t] = "fetch" /\ Live(t) /\ doing[t] \notin Responsive
    /\ Leave(t)
    /\ UNCHANGED tableVars

\* INSERT OR IGNORE
QueuedAs(item, candidate) ==
    IF review[item] = None THEN [price |-> candidate.price, status |-> "pending"]
    ELSE review[item]

AddReviewItem(t) ==
    /\ pc[t] = "review"
    /\ LET item == <<doing[t], result[t].key>> IN
       review' = [review EXCEPT ![item] = QueuedAs(item, result[t])]
    /\ IF mode[t] = "ingest" THEN Leave(t)
       ELSE pc' = [pc EXCEPT ![t] = "run"] /\ UNCHANGED requestVars
    /\ UNCHANGED <<born, policyBorn, sinceRun, lastSource, log>>

SourceId(candidate) == IF candidate = None THEN None ELSE candidate.key

\* record_source_refresh_run: the run and the monitor in one transaction.
RecordRun(t) ==
    /\ pc[t] = "run"
    /\ sinceRun' = [sinceRun EXCEPT ![doing[t]] = 0]
    /\ lastSource' = [lastSource EXCEPT ![doing[t]] = SourceId(result[t])]
    /\ pc' = [pc EXCEPT ![t] = "take"]
    /\ doing' = [doing EXCEPT ![t] = None]
    /\ result' = [result EXCEPT ![t] = None]
    /\ UNCHANGED <<born, policyBorn, log, review, mode, blank, queue, provider>>

\* A statement fails: the request ends with status 500.
Fail(t) ==
    /\ pc[t] # "idle"
    /\ Leave(t)
    /\ UNCHANGED tableVars

\* The server restarts: the tables stay.
Restart ==
    /\ pc' = [t \in Threads |-> "idle"]
    /\ mode' = [t \in Threads |-> None]
    /\ blank' = [t \in Threads |-> {}]
    /\ queue' = [t \in Threads |-> {}]
    /\ doing' = [t \in Threads |-> None]
    /\ provider' = [t \in Threads |-> None]
    /\ result' = [t \in Threads |-> None]
    /\ UNCHANGED tableVars

-----------------------------------------------------------------------------

Gate(t) == ReadPolicy(t) \/ CountFetches(t) \/ RecordFetch(t)
Page(t) == FetchPage(t) \/ FetchFails(t) \/ FetchAborts(t) \/ AddReviewItem(t)
Step(t) == Take(t) \/ Answer(t) \/ Gate(t) \/ Page(t) \/ RecordRun(t)

Work ==
    \/ \E s \in Sources : CreateMonitor(s)
    \/ \E p \in Policies : CreatePolicy(p)
    \/ \E i \in Items, status \in {"pending", "approved", "rejected"} : DecideReview(i, status)
    \/ Tick
    \/ \E t \in Threads :
          \/ \E ids \in SUBSET Sources, inactive, due \in BOOLEAN, html \in Htmls :
                StartRefresh(t, ids, inactive, due, html)
          \/ \E s \in Sources, html \in {{}, Sources} : StartIngest(t, s, html)
          \/ Step(t)

Next == Work \/ (\E t \in Threads : Fail(t)) \/ Restart

Spec == Init /\ [][Next]_vars

\* README: an external scheduler calls /sources/refresh-due.  It does so again
\* and again, without monitor_ids and html_overrides, and requests progress.
Fairness ==
    \A t \in Threads :
        /\ SF_vars(StartRefresh(t, {}, FALSE, TRUE, Sources \ Snapshots))
        /\ WF_vars(Step(t))

\* Failing statements and restarts that never end prevent any progress; from
\* some point on there must be none, and the tables can be as they are then
\* without any.
FairSpec == Init /\ [][Work]_vars /\ Fairness

-----------------------------------------------------------------------------
(* Properties.                                                              *)

\* However requests overlap, no hour sees more fetches through a provider than
\* its quota and one for each other thread: every thread that has been admitted
\* has counted fewer rows than the quota.
QuotaOvershootBounded ==
    \A p \in Policies : Used(p) <= Quota[p] + Cardinality(Threads) - 1

\* The documented limit: no hour sees more fetches than rate_limit_per_hour.
HourlyQuota == \A p \in Policies : Used(p) <= Quota[p]

\* The documented promise of /sources/refresh-due: when the turn of a monitor
\* comes and until its run is recorded, it is due.
QueuedAreDue ==
    \A t \in Threads : mode[t] = "due" =>
        \A s \in queue[t] \cup {doing[t]} : s # None => Due(s)

\* What an operator has judged is not replaced under the judgement: an item
\* keeps its evidence, and no refresh or ingestion of the page reopens it.
DecisionsStand ==
    [][\A i \in Items : review[i] # None =>
          /\ review'[i] # None /\ review'[i].price = review[i].price
          /\ review'[i].status # review[i].status => UNCHANGED <<pc, requestVars>>]_vars

\* The last successful run of a monitor leads to a review item, also when it
\* overlaps failures, restarts and other runs.
RunHasReviewItem ==
    \A s \in Sources : lastSource[s] # None => review[<<s, lastSource[s]>>] # None

\* What a run has extracted is what the operator gets to review.  The code
\* makes review ids from the URL, the model and the first 120 characters, and
\* ignores a later page that differs beyond them.
EvidenceIsReviewed ==
    \A t \in Threads : pc[t] = "run" /\ result[t] # None =>
        review[<<doing[t], result[t].key>>].price = result[t].price

\* An active monitor that is due, and whose own host answers, is run, whatever
\* the other monitors are: so the cadence of a monitor means something.
DueIsRefreshed == \A s \in Active \cap Responsive : born[s] # 0 /\ Due(s) ~> ~ Due(s)

\* What can keep an active monitor from ever being run: more than LIMIT active
\* monitors that are as new, or one as new whose host hangs.
Kept(s) ==
    LET listing == Active \cap Created IN
    \/ s \notin Listed(listing)
    \/ \E r \in listing \ Responsive : born[r] >= born[s]

\* An active monitor stays due for ever only behind such monitors: no quota, no
\* policy, no failed fetch and no other request keeps the refresh from it.
DueUnlessKept == \A s \in Active : <>[](born[s] # 0 /\ Due(s)) => <>[]Kept(s)
=============================================================================
