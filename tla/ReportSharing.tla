---------------------------- MODULE ReportSharing ----------------------------
(****************************************************************************)
(* Saved reports and their public share links.                              *)
(*                                                                          *)
(* The FastAPI handlers are plain functions, so the server runs them on a   *)
(* thread pool: any number of requests are in progress at once.  A store    *)
(* method opens its own SQLite connection; a SELECT that precedes the first *)
(* write of the block runs in autocommit, and the writes of the block are   *)
(* one transaction.  A request is therefore a sequence of atomic steps,     *)
(* each of them a read or a committed transaction, between which the other  *)
(* requests run.  A step may also fail (SQLite's busy timeout), and the     *)
(* process may restart: the tables survive, `traceCache' and the requests   *)
(* in progress do not.                                                      *)
(*                                                                          *)
(* Every identifier is minted with uuid4 by exactly one request, and names  *)
(* that request here: a trace is the analyze request that created it, a     *)
(* report the save request, a share token the share request.                *)
(****************************************************************************)
EXTENDS FiniteSets, Naturals

CONSTANTS
    Workspaces,   \* tenants, one per API key
    Analyses,     \* POST /analyze requests, and the trace ids they mint
    Saves,        \* POST /reports/save requests, and the report ids they mint
    Shares,       \* POST /reports/{id}/share requests, and the tokens they mint
    Revokes,      \* DELETE /reports/{id}/share requests
    Views,        \* GET /public/reports/{token} and GET /r/{token} requests
    None          \* the SQL NULL, and Python's None

Requests == Analyses \cup Saves \cup Shares \cup Revokes \cup Views

ASSUME RequestsDisjoint ==
    /\ Analyses \cap (Saves \cup Shares \cup Revokes \cup Views) = {}
    /\ Saves \cap (Shares \cup Revokes \cup Views) = {}
    /\ Shares \cap (Revokes \cup Views) = {}
    /\ Revokes \cap Views = {}

ASSUME NoneIsNoRequest == None \notin Requests \cup Workspaces

VARIABLES
    traceCache,   \* _TRACE_CACHE: pairs <<workspace, trace>> held in memory
    analysis,     \* analysis_runs: the workspace_id of each stored trace
    report,       \* saved_reports: a row per report, or None
    pc,           \* where each request is
    caller,       \* the workspace of the request's API key
    target,       \* the trace, report or token the request names
    held          \* the share token, or the report row, read by the request

dbVars  == <<analysis, report>>
reqVars == <<caller, target, held>>
vars    == <<traceCache, analysis, report, pc, caller, target, held>>

Finished   == {"done", "notFound", "failed"}
InProgress == {"store", "upsert", "insert", "update", "count", "reply"}

\* share_token and shared_at are NULL together in every row the code writes;
\* the row keeps both columns because the public query tests both.
Row == [ws : Workspaces, trace : Analyses, token : Shares \cup {None},
        shared : BOOLEAN, views : Nat]

ASSUME NoneIsNoRow == None \notin Row

TypeOK ==
    /\ traceCache \subseteq Workspaces \X Analyses
    /\ analysis \in [Analyses -> Workspaces \cup {None}]
    /\ report \in [Saves -> Row \cup {None}]
    /\ pc \in [Requests -> {"idle"} \cup Finished \cup InProgress]
    /\ caller \in [Requests -> Workspaces \cup {None}]
    /\ target \in [Requests -> Analyses \cup Saves \cup Shares \cup {None}]
    /\ held \in [Requests -> Saves \cup Shares \cup {None}]
    /\ \A k \in Revokes : pc[k] = "update" => target[k] \in Saves
    /\ \A v \in Views : pc[v] \in {"count", "reply"} => held[v] \in Saves

Init ==
    /\ traceCache = {}
    /\ analysis = [a \in Analyses |-> None]
    /\ report = [r \in Saves |-> None]
    /\ pc = [q \in Requests |-> "idle"]
    /\ caller = [q \in Requests |-> None]
    /\ target = [q \in Requests |-> None]
    /\ held = [q \in Requests |-> None]

-----------------------------------------------------------------------------
(* A request comes in, and moves on.                                        *)

\* Request q arrives with the key of workspace w and names x.
Arrive(q, w, x) ==
    /\ pc[q] = "idle"
    /\ caller' = [caller EXCEPT ![q] = w]
    /\ target' = [target EXCEPT ![q] = x]

Goto(q, label) == pc' = [pc EXCEPT ![q] = label]

-----------------------------------------------------------------------------
(* Mistakes the steps below could make.  No specification uses these        *)
(* operators: put in the place of the step they resemble, each is rejected  *)
(* by one of the properties.                                                *)

\* The statements forget `workspace_id = ?'.
AnyOwner(r, w) == report[r] # None

\* The save looks the trace up without the workspace.
SaveableByAnyone(w, a) == \E u \in Workspaces : <<u, a>> \in traceCache \/ analysis[a] = u

\* Sharing resets the counter of the row.
ShareResetsViews(h) ==
    /\ pc[h] = "update"
    /\ report' = IF report[target[h]].ws = caller[h]
                 THEN [report EXCEPT ![target[h]].token = held[h],
                                     ![target[h]].shared = TRUE,
                                     ![target[h]].views = 0]
                 ELSE report
    /\ Goto(h, "done")
    /\ UNCHANGED <<traceCache, analysis, reqVars>>

\* Revoking clears shared_at and leaves share_token for the next share.
RevokeKeepsToken(k) ==
    /\ pc[k] = "update"
    /\ report' = [report EXCEPT ![target[k]].shared = FALSE]
    /\ Goto(k, "done")
    /\ UNCHANGED <<traceCache, analysis, reqVars>>

\* A visit to an unknown token goes on instead of answering 404.
ViewUnknownToken(v, t) ==
    /\ Arrive(v, None, t)
    /\ Goto(v, "count")
    /\ UNCHANGED <<traceCache, dbVars, held>>

-----------------------------------------------------------------------------
(* The requests' steps.                                                     *)

\* The row SELECTed by report_id and workspace_id exists.
OwnedBy(r, w) == report[r] # None /\ report[r].ws = w

\* The row SELECTed by share_token, joined with the same workspace's analysis.
PublicRow(r, t) ==
    /\ report[r] # None
    /\ report[r].token = t
    /\ report[r].shared
    /\ analysis[report[r].trace] = report[r].ws

\* The workflow has produced a response with a fresh trace id; the handler puts
\* it in the in-memory cache before it stores it.
AnalyzeRun(a, w) ==
    /\ Arrive(a, w, a)
    /\ traceCache' = traceCache \cup {<<w, a>>}
    /\ Goto(a, "store")
    /\ UNCHANGED <<analysis, report, held>>

AnalyzeStore(a) ==
    /\ pc[a] = "store"
    /\ analysis' = [analysis EXCEPT ![a] = caller[a]]
    /\ Goto(a, "done")
    /\ UNCHANGED <<traceCache, report, reqVars>>

\* The lookup of POST /reports/save: the cache first, then the database, both
\* under the caller's workspace.
Saveable(w, a) == <<w, a>> \in traceCache \/ analysis[a] = w

SaveLookup(s, w, a) ==
    /\ Arrive(s, w, a)
    /\ Goto(s, IF Saveable(w, a) THEN "upsert" ELSE "notFound")
    /\ UNCHANGED <<traceCache, dbVars, held>>

\* save_report stores the analysis again before it inserts the report: the
\* upsert is on trace_id and overwrites workspace_id.
SaveUpsert(s) ==
    /\ pc[s] = "upsert"
    /\ analysis' = [analysis EXCEPT ![target[s]] = caller[s]]
    /\ Goto(s, "insert")
    /\ UNCHANGED <<traceCache, report, reqVars>>

SaveInsert(s) ==
    /\ pc[s] = "insert"
    /\ report' = [report EXCEPT ![s] =
                    [ws |-> caller[s], trace |-> target[s], token |-> None,
                     shared |-> FALSE, views |-> 0]]
    /\ Goto(s, "done")
    /\ UNCHANGED <<traceCache, analysis, reqVars>>

\* The existing token is reused; a report without one gets the fresh token.
ShareRead(h, w, r) ==
    /\ Arrive(h, w, r)
    /\ IF OwnedBy(r, w)
       THEN /\ held' = [held EXCEPT ![h] =
                          IF report[r].token # None THEN report[r].token ELSE h]
            /\ Goto(h, "update")
       ELSE /\ Goto(h, "notFound")
            /\ UNCHANGED held
    /\ UNCHANGED <<traceCache, dbVars>>

\* The UPDATE repeats the workspace condition, not the value it has read.
ShareUpdate(h) ==
    /\ pc[h] = "update"
    /\ report' = IF OwnedBy(target[h], caller[h])
                 THEN [report EXCEPT ![target[h]].token = held[h],
                                     ![target[h]].shared = TRUE]
                 ELSE report
    /\ Goto(h, "done")
    /\ UNCHANGED <<traceCache, analysis, reqVars>>

RevokeRead(k, w, r) ==
    /\ Arrive(k, w, r)
    /\ Goto(k, IF OwnedBy(r, w) THEN "update" ELSE "notFound")
    /\ UNCHANGED <<traceCache, dbVars, held>>

RevokeUpdate(k) ==
    /\ pc[k] = "update"
    /\ report' = IF OwnedBy(target[k], caller[k])
                 THEN [report EXCEPT ![target[k]].token = None,
                                     ![target[k]].shared = FALSE]
                 ELSE report
    /\ Goto(k, "done")
    /\ UNCHANGED <<traceCache, analysis, reqVars>>

\* A visitor needs no key.
ViewRead(v, t) ==
    /\ Arrive(v, None, t)
    /\ \/ \E r \in Saves :
             /\ PublicRow(r, t)
             /\ held' = [held EXCEPT ![v] = r]
             /\ Goto(v, "count")
       \/ /\ \A r \in Saves : ~ PublicRow(r, t)
          /\ Goto(v, "notFound")
          /\ UNCHANGED held
    /\ UNCHANGED <<traceCache, dbVars>>

\* UPDATE ... WHERE share_token = t counts on whichever row holds the token
\* now; the page is served even if none does any more.
ViewCount(v) ==
    /\ pc[v] = "count"
    /\ report' = [r \in Saves |->
                    IF report[r] # None /\ report[r].token = target[v]
                    THEN [report[r] EXCEPT !.views = @ + 1]
                    ELSE report[r]]
    /\ Goto(v, "reply")
    /\ UNCHANGED <<traceCache, analysis, reqVars>>

\* The active purchase links are read on a second connection before the reply.
ViewReply(v) ==
    /\ pc[v] = "reply"
    /\ Goto(v, "done")
    /\ UNCHANGED <<traceCache, dbVars, reqVars>>

\* A step that cannot get the database raises OperationalError: HTTP 500.
Fail(q) ==
    /\ pc[q] \in InProgress
    /\ Goto(q, "failed")
    /\ UNCHANGED <<traceCache, dbVars, reqVars>>

\* The server process restarts.
Restart ==
    /\ traceCache' = {}
    /\ pc' = [q \in Requests |-> IF pc[q] \in InProgress THEN "failed" ELSE pc[q]]
    /\ UNCHANGED <<dbVars, reqVars>>

-----------------------------------------------------------------------------

\* A client names a trace only once it has been told of it.
Known(a) == pc[a] = "done" \/ analysis[a] # None

Arrival ==
    \/ \E a \in Analyses, w \in Workspaces : AnalyzeRun(a, w)
    \/ \E s \in Saves, w \in Workspaces, a \in Analyses :
          Known(a) /\ SaveLookup(s, w, a)
    \/ \E h \in Shares, w \in Workspaces, r \in Saves : ShareRead(h, w, r)
    \/ \E k \in Revokes, w \in Workspaces, r \in Saves : RevokeRead(k, w, r)
    \/ \E v \in Views, t \in Shares : ViewRead(v, t)

Progress(q) ==
    \/ q \in Analyses /\ AnalyzeStore(q)
    \/ q \in Saves /\ (SaveUpsert(q) \/ SaveInsert(q))
    \/ q \in Shares /\ ShareUpdate(q)
    \/ q \in Revokes /\ RevokeUpdate(q)
    \/ q \in Views /\ (ViewCount(q) \/ ViewReply(q))

Next ==
    \/ Arrival
    \/ \E q \in Requests : Progress(q) \/ Fail(q)
    \/ Restart

Spec == Init /\ [][Next]_vars

-----------------------------------------------------------------------------
(* Properties.                                                              *)

Live(t) == \E r \in Saves : report[r] # None /\ report[r].token = t /\ report[r].shared

\* A token opens a single report, the one it was minted for, and the request
\* that minted it carried the key of the report's own workspace.  Tokens travel
\* through requests that read them long before they write them back.
TokenOpensOneReport ==
    \A r \in Saves :
        report[r] # None /\ report[r].token # None =>
            /\ target[report[r].token] = r
            /\ caller[report[r].token] = report[r].ws

\* A shared report can always be opened: the public query joins the report
\* with an analysis of the same workspace, and no later save, cached copy or
\* restart moves that analysis to another workspace.
SharedReportOpens ==
    \A r \in Saves :
        report[r] # None /\ report[r].shared => PublicRow(r, report[r].token)

\* Only a request of the owning workspace opens or closes a report: a step that
\* changes the token of a report is taken by a share or revoke request whose
\* key belongs to the report's workspace.
OnlyOwnerChangesSharing ==
    [][\A r \in Saves :
         report[r] # None /\ report'[r].token # report[r].token =>
            \E q \in Shares \cup Revokes :
                /\ pc[q] = "update" /\ pc'[q] = "done"
                /\ target[q] = r /\ caller[q] = report[r].ws]_vars

\* A token is gone when no row carries it and no share request in progress has
\* read it; the request that minted it is past its read.
Gone(t) ==
    /\ pc[t] # "idle"
    /\ ~ Live(t)
    /\ \A h \in Shares : ~ (pc[h] = "update" /\ held[h] = t)

\* A revoked link stays dead: once it is gone, no sequence of share, revoke,
\* view and restart brings the token back.
GoneTokenNeverReturns == [][\A t \in Shares : Gone(t) => Gone(t)']_vars

\* The share_views counter of a report is never ahead of the visits that found it, and behind
\* them only where it may be: while a report has had a single token and no revocation, it counts
\* every visit that reached its reply, whatever share requests run at the same time.
SingleToken(r) ==
    /\ \A k \in Revokes : target[k] # r
    /\ \A h, g \in Shares :
          target[h] = r /\ target[g] = r /\ held[h] = h /\ held[g] = g => h = g
VisitsOf(r, progress) == Cardinality({v \in Views : held[v] = r /\ pc[v] \in progress})
ViewsMatchVisits ==
    \A r \in Saves :
        report[r] # None =>
            /\ report[r].views <= VisitsOf(r, {"reply", "done", "failed"})
            /\ SingleToken(r) => report[r].views >= VisitsOf(r, {"reply", "done"})

\* The product plan says that the public token is a 404 once sharing has been
\* revoked: after a completed revocation the token the report had is dead, until
\* the owner shares again, which mints another.  Stated on steps: a step never
\* makes live a token that a finished share request had already published and
\* that no row carries.
RevokedTokenIs404 ==
    [][\A t \in Shares : pc[t] = "done" /\ ~ Live(t) => ~ Live(t)']_vars
=============================================================================
