------------------------ MODULE ObservabilityOutbox ------------------------
(****************************************************************************)
(* The observability exports of one workspace: a request queues the spans   *)
(* of an analysis, a dispatch hands the oldest open exports to their        *)
(* destination.  A dispatch selects on one connection and writes what it    *)
(* has decided in a transaction of another, without looking again.          *)
(****************************************************************************)
EXTENDS FiniteSets, Integers, Sequences

CONSTANTS
    Exports,      \* POST /ops/observability/exports requests and the ids they mint
    Dispatchers,  \* worker threads that serve POST /ops/observability/dispatch
    Limit,        \* the `limit' of a dispatch request
    RetryLimit,   \* 4 in the code
    None

ASSUME LimitsArePositive == Limit \in Nat \ {0} /\ RetryLimit \in Nat \ {0}

\* What decides an export's fate, fixed when it is created: whether a payload was asked for,
\* and whether the destination is opentelemetry or langsmith.
Forms == [payload : BOOLEAN, supported : BOOLEAN]
Deliverable(form) == form.payload /\ form.supported

\* `over' and `empty' are failures without next_retry_at, `unset' is one with it.
Outcomes == {"over", "empty", "unset", "sent"}

\* retry_count is counted up to Cap and stays there: from it on every retry is over the limit.
Cap == RetryLimit + 2
Bump(n) == IF n < Cap THEN n + 1 ELSE Cap

Row == [form : Forms, last : Outcomes \cup {"queued"}, retries : 0..Cap]

ASSUME NoneIsNoRow == None \notin Row \cup Forms

VARIABLES
    begun,     \* the creations that have taken their created_at, oldest first
    asked,     \* the form of each of them
    rows,      \* observability_exports: a row or None
    picked,    \* what each dispatch has selected: rows as it read them, None for the others
    attempts,  \* how many dispatches have committed an outcome for an export,
    sends      \*   and how many handed it over: history, up to Cap

vars == <<begun, asked, rows, picked, attempts, sends>>

Nothing == [e \in Exports |-> None]

Init ==
    /\ begun = <<>>
    /\ asked = Nothing
    /\ rows = Nothing
    /\ picked = [d \in Dispatchers |-> Nothing]
    /\ attempts = [e \in Exports |-> 0]
    /\ sends = [e \in Exports |-> 0]

\* The status column.
Status(row) ==
    CASE row.last = "queued" -> "queued"
      [] row.last = "sent" -> "sent"
      [] row.last \in {"over", "empty", "unset"} -> "failed"

-----------------------------------------------------------------------------
(* Mistakes the operators below could make; no specification uses them.     *)

\* The selection forgets the status.
OpenWhateverStatus(e) == rows[e] # None

\* The retry limit is off by one.
OutcomeOneEarly(form, retry) ==
    CASE retry >= RetryLimit -> "over"
      [] retry < RetryLimit /\ ~form.payload -> "empty"
      [] retry < RetryLimit /\ form.payload /\ ~form.supported -> "unset"
      [] OTHER -> "sent"

\* An export is stored though its analysis was not found.
InsertWithoutAnalysis(e) ==
    /\ rows[e] = None
    /\ rows' = [rows EXCEPT ![e] = [form |-> asked[e], last |-> "queued", retries |-> 0]]
    /\ UNCHANGED <<begun, asked, picked, attempts, sends>>

-----------------------------------------------------------------------------
(* Creation: the analysis is found, and the time is taken; then the INSERT. *)

Create(e, form) ==
    /\ asked[e] = None
    /\ asked' = [asked EXCEPT ![e] = form]
    /\ begun' = Append(begun, e)
    /\ UNCHANGED <<rows, picked, attempts, sends>>

Insert(e) ==
    /\ asked[e] # None
    /\ rows[e] = None
    /\ rows' = [rows EXCEPT ![e] = [form |-> asked[e], last |-> "queued", retries |-> 0]]
    /\ UNCHANGED <<begun, asked, picked, attempts, sends>>

-----------------------------------------------------------------------------
(* Dispatch.                                                                *)

Open(e) == rows[e] # None /\ Status(rows[e]) \in {"queued", "failed"}

OlderThan(f, e) ==
    \E i, j \in DOMAIN begun : i < j /\ begun[i] = f /\ begun[j] = e

\* The Limit oldest of them.
Oldest(open) ==
    {e \in open : Cardinality({f \in open : OlderThan(f, e)}) < Limit}

\* Without export_ids a request asks for every export.
Select(d, ids) ==
    /\ picked[d] = Nothing
    /\ picked' = [picked EXCEPT ![d] =
         [e \in Exports |-> IF e \in Oldest({f \in ids : Open(f)}) THEN rows[e] ELSE None]]
    /\ UNCHANGED <<begun, asked, rows, attempts, sends>>

\* _observability_dispatch_status, dry runs apart.
Outcome(form, retry) ==
    CASE retry > RetryLimit -> "over"
      [] retry <= RetryLimit /\ ~form.payload -> "empty"
      [] retry <= RetryLimit /\ form.payload /\ ~form.supported -> "unset"
      [] OTHER -> "sent"

Decided(row) ==
    [row EXCEPT !.last = Outcome(row.form, row.retries + 1), !.retries = Bump(row.retries)]

\* The transaction: each selected export, as it was selected, with its outcome.
Commit(d) ==
    /\ picked[d] # Nothing
    /\ rows' = [e \in Exports |->
         IF picked[d][e] = None THEN rows[e] ELSE Decided(picked[d][e])]
    /\ attempts' = [e \in Exports |->
         IF picked[d][e] = None THEN attempts[e] ELSE Bump(attempts[e])]
    /\ sends' = [e \in Exports |->
         IF picked[d][e] # None /\ Decided(picked[d][e]).last = "sent"
         THEN Bump(sends[e]) ELSE sends[e]]
    /\ picked' = [picked EXCEPT ![d] = Nothing]
    /\ UNCHANGED <<begun, asked>>

\* A statement fails, or the server restarts: the transaction is rolled back.
Lose(d) ==
    /\ picked[d] # Nothing
    /\ picked' = [picked EXCEPT ![d] = Nothing]
    /\ UNCHANGED <<begun, asked, rows, attempts, sends>>

Next ==
    \/ \E e \in Exports : Insert(e) \/ \E form \in Forms : Create(e, form)
    \/ \E d \in Dispatchers :
         \/ \E ids \in SUBSET Exports : Select(d, ids)
         \/ Commit(d)
         \/ Lose(d)

Spec == Init /\ [][Next]_vars

-----------------------------------------------------------------------------
(* Properties.                                                              *)

TypeOK ==
    /\ begun \in Seq(Exports)
    /\ asked \in [Exports -> Forms \cup {None}]
    /\ rows \in [Exports -> Row \cup {None}]
    /\ picked \in [Dispatchers -> [Exports -> Row \cup {None}]]
    /\ attempts \in [Exports -> 0..Cap]
    /\ sends \in [Exports -> 0..Cap]

\* An export with a payload for a destination that exists is never shown as failed, though
\* overlapping dispatches write back what they read before the other one committed and count
\* one retry for both: no number of dispatches brings it near the retry limit.
DeliverableNeverFails ==
    \A e \in Exports :
        (rows[e] # None /\ Deliverable(rows[e].form)) => Status(rows[e]) # "failed"

\* retry_count loses dispatches that overlap, and never invents one: an export is reported
\* over the retry limit only after more dispatches than the limit have worked it.
GivenUpLate ==
    \A e \in Exports :
        (rows[e] # None /\ rows[e].last = "over") => attempts[e] > RetryLimit

-----------------------------------------------------------------------------
(* A queue worked by one dispatcher at a time delivers as AlertDelivery     *)
(* says: an export reaches its one destination at most once, and sent is    *)
(* final.                                                                   *)

Shown(e) == IF rows[e] = None THEN None ELSE Status(rows[e])
Destinations == Exports \X {"destination"}

Delivery == INSTANCE AlertDelivery WITH
    Events <- Exports, Deliveries <- Destinations, None <- None,
    status <- [e \in Exports |-> Shown(e)],
    sends <- [x \in Destinations |-> sends[x[1]]]

\* Every behaviour is one of AlertDelivery.
ExportsAsPromised == Delivery!Spec
=============================================================================
