------------------------ MODULE ReportSharing_proofs ------------------------
(* Proofs about ReportSharing, for any sets of workspaces and requests.     *)
EXTENDS ReportSharing, FiniteSetTheorems, TLAPS

-----------------------------------------------------------------------------
(* The inductive invariant.  Each part says whose key a datum goes back to:  *)
(* the request that minted the identifier is the witness.                    *)

\* The cache and the table hold a trace under the key that analyzed it.
TraceOwned ==
    /\ \A w \in Workspaces, a \in Analyses :
          <<w, a>> \in traceCache => caller[a] = w /\ pc[a] # "idle"
    /\ \A a \in Analyses :
          analysis[a] # None => analysis[a] = caller[a] /\ pc[a] # "idle"

\* A save in progress works on a trace of its own workspace.
SaveOwned ==
    \A s \in Saves :
        pc[s] \in {"upsert", "insert"} =>
            /\ target[s] \in Analyses
            /\ caller[s] \in Workspaces
            /\ caller[target[s]] = caller[s]
            /\ pc[target[s]] # "idle"
            /\ pc[s] = "insert" => analysis[target[s]] = caller[s]

\* A stored report is of the workspace that stored its trace.
ReportOwned ==
    \A r \in Saves :
        report[r] # None =>
            /\ pc[r] = "done"
            /\ analysis[report[r].trace] = report[r].ws
            /\ report[r].shared <=> report[r].token # None

\* A token, in a row or held by a share in progress, was minted for its report.
TokenOwned ==
    /\ \A r \in Saves :
          report[r] # None /\ report[r].token # None => pc[report[r].token] # "idle"
    /\ \A h \in Shares :
          pc[h] = "update" =>
              /\ target[h] \in Saves
              /\ OwnedBy(target[h], caller[h])
              /\ held[h] \in Shares
              /\ target[held[h]] = target[h]
              /\ caller[held[h]] = caller[h]
              /\ pc[held[h]] # "idle"

Inv ==
    /\ TypeOK
    /\ TraceOwned
    /\ SaveOwned
    /\ ReportOwned
    /\ TokenOwned
    /\ TokenOpensOneReport

-----------------------------------------------------------------------------

\* No request, workspace or row is None.
LEMMA NoneIsFresh == None \notin Requests /\ None \notin Workspaces /\ None \notin Row
BY NoneIsNoRequest, NoneIsNoRow

LEMMA InitInv == Init => Inv
BY NoneIsFresh
   DEF Init, Inv, TypeOK, TraceOwned, SaveOwned, ReportOwned, TokenOwned,
       TokenOpensOneReport, Requests

\* An analysis request stores its own trace under its own key.
LEMMA AnalyzeInv ==
    ASSUME Inv, NEW a \in Analyses,
           (\E w \in Workspaces : AnalyzeRun(a, w)) \/ AnalyzeStore(a)
    PROVE  Inv'
<1> USE NoneIsFresh, RequestsDisjoint
<1>1. CASE \E w \in Workspaces : AnalyzeRun(a, w)
  <2>1. PICK w \in Workspaces : AnalyzeRun(a, w)
    BY <1>1
  <2>2. /\ pc[a] = "idle" /\ pc' = [pc EXCEPT ![a] = "store"]
        /\ caller' = [caller EXCEPT ![a] = w]
        /\ target' = [target EXCEPT ![a] = a]
        /\ traceCache' = traceCache \cup {<<w, a>>}
        /\ UNCHANGED <<analysis, report, held>>
    BY <2>1 DEF AnalyzeRun, Arrive, Goto
  <2>3. TypeOK'
    BY <2>2 DEF Inv, TypeOK, Requests, InProgress
  <2>4. TraceOwned'
    BY <2>2 DEF Inv, TypeOK, TraceOwned, Requests
  <2>5. SaveOwned'
    BY <2>2 DEF Inv, TypeOK, SaveOwned, Requests
  <2>6. ReportOwned'
    BY <2>2 DEF Inv, TypeOK, ReportOwned, Requests
  <2>7. TokenOwned'
    BY <2>2 DEF Inv, TypeOK, TokenOwned, OwnedBy, Requests, Row
  <2>8. TokenOpensOneReport'
    BY <2>2 DEF Inv, TypeOK, TokenOpensOneReport, Requests, Row
  <2> QED
    BY <2>3, <2>4, <2>5, <2>6, <2>7, <2>8 DEF Inv
<1>2. CASE AnalyzeStore(a)
  <2>1. /\ pc[a] = "store" /\ pc' = [pc EXCEPT ![a] = "done"]
        /\ analysis' = [analysis EXCEPT ![a] = caller[a]]
        /\ UNCHANGED <<traceCache, report, caller, target, held>>
    BY <1>2 DEF AnalyzeStore, Goto, reqVars
  <2>2. TypeOK'
    BY <2>1 DEF Inv, TypeOK, Requests, Finished
  <2>3. TraceOwned'
    BY <2>1 DEF Inv, TypeOK, TraceOwned, Requests
  <2>4. SaveOwned'
    BY <2>1 DEF Inv, TypeOK, SaveOwned, Requests
  <2>5. ReportOwned'
    <3>1. \A r \in Saves : report[r] # None => analysis[report[r].trace] # None
      BY DEF Inv, TypeOK, ReportOwned, Row
    <3> QED
      BY <2>1, <3>1 DEF Inv, TypeOK, ReportOwned, TraceOwned, Requests, Row
  <2>6. TokenOwned'
    BY <2>1 DEF Inv, TypeOK, TokenOwned, OwnedBy, Requests, Row
  <2>7. TokenOpensOneReport'
    BY <2>1 DEF Inv, TokenOpensOneReport
  <2> QED
    BY <2>2, <2>3, <2>4, <2>5, <2>6, <2>7 DEF Inv
<1> QED
  BY <1>1, <1>2

\* A save looks a trace of its own workspace up, stores it again and inserts
\* its report.
LEMMA SaveInv ==
    ASSUME Inv, NEW s \in Saves,
           \/ \E w \in Workspaces, a \in Analyses : SaveLookup(s, w, a)
           \/ SaveUpsert(s)
           \/ SaveInsert(s)
    PROVE  Inv'
<1> USE NoneIsFresh, RequestsDisjoint
<1>1. CASE \E w \in Workspaces, a \in Analyses : SaveLookup(s, w, a)
  <2>1. PICK w \in Workspaces, a \in Analyses : SaveLookup(s, w, a)
    BY <1>1
  <2>2. /\ pc[s] = "idle"
        /\ pc' = [pc EXCEPT ![s] = IF Saveable(w, a) THEN "upsert" ELSE "notFound"]
        /\ caller' = [caller EXCEPT ![s] = w]
        /\ target' = [target EXCEPT ![s] = a]
        /\ UNCHANGED <<traceCache, analysis, report, held>>
    BY <2>1 DEF SaveLookup, Arrive, Goto, dbVars
  <2>3. Saveable(w, a) => caller[a] = w /\ pc[a] # "idle"
    BY DEF Saveable, Inv, TraceOwned
  <2>4. TypeOK'
    BY <2>2 DEF Inv, TypeOK, Requests, InProgress, Finished
  <2>5. TraceOwned'
    BY <2>2 DEF Inv, TypeOK, TraceOwned, Requests
  <2>6. SaveOwned'
    BY <2>2, <2>3 DEF Inv, TypeOK, SaveOwned, Requests
  <2>7. ReportOwned'
    BY <2>2 DEF Inv, TypeOK, ReportOwned, Requests
  <2>8. TokenOwned'
    BY <2>2 DEF Inv, TypeOK, TokenOwned, OwnedBy, Requests, Row
  <2>9. TokenOpensOneReport'
    BY <2>2 DEF Inv, TypeOK, TokenOpensOneReport, Requests, Row
  <2> QED
    BY <2>4, <2>5, <2>6, <2>7, <2>8, <2>9 DEF Inv
<1>2. CASE SaveUpsert(s)
  <2>1. /\ pc[s] = "upsert" /\ pc' = [pc EXCEPT ![s] = "insert"]
        /\ analysis' = [analysis EXCEPT ![target[s]] = caller[s]]
        /\ UNCHANGED <<traceCache, report, caller, target, held>>
    BY <1>2 DEF SaveUpsert, Goto, reqVars
  <2>2. /\ target[s] \in Analyses /\ caller[s] \in Workspaces
        /\ caller[target[s]] = caller[s] /\ pc[target[s]] # "idle"
    BY <2>1 DEF Inv, SaveOwned
  <2>3. TypeOK'
    BY <2>1, <2>2 DEF Inv, TypeOK, Requests, InProgress
  <2>4. TraceOwned'
    BY <2>1, <2>2 DEF Inv, TypeOK, TraceOwned, Requests
  <2>5. SaveOwned'
    BY <2>1, <2>2 DEF Inv, TypeOK, SaveOwned, Requests
  <2>6. ReportOwned'
    <3>1. \A r \in Saves : report[r] # None => analysis[report[r].trace] # None
      BY DEF Inv, TypeOK, ReportOwned, Row
    <3> QED
      BY <2>1, <2>2, <3>1 DEF Inv, TypeOK, ReportOwned, TraceOwned, Requests, Row
  <2>7. TokenOwned'
    BY <2>1 DEF Inv, TypeOK, TokenOwned, OwnedBy, Requests, Row
  <2>8. TokenOpensOneReport'
    BY <2>1 DEF Inv, TokenOpensOneReport
  <2> QED
    BY <2>3, <2>4, <2>5, <2>6, <2>7, <2>8 DEF Inv
<1>3. CASE SaveInsert(s)
  <2> DEFINE row == [ws |-> caller[s], trace |-> target[s], token |-> None,
                     shared |-> FALSE, views |-> 0]
  <2>1. /\ pc[s] = "insert" /\ pc' = [pc EXCEPT ![s] = "done"]
        /\ report' = [report EXCEPT ![s] = row]
        /\ UNCHANGED <<traceCache, analysis, caller, target, held>>
    BY <1>3 DEF SaveInsert, Goto, reqVars
  <2>2. /\ target[s] \in Analyses /\ caller[s] \in Workspaces
        /\ analysis[target[s]] = caller[s]
    BY <2>1 DEF Inv, SaveOwned
  <2>3. row \in Row
    BY <2>2 DEF Row
  <2>4. TypeOK'
    BY <2>1, <2>3 DEF Inv, TypeOK, Requests, Finished
  <2>5. TraceOwned'
    BY <2>1 DEF Inv, TypeOK, TraceOwned, Requests
  <2>6. SaveOwned'
    BY <2>1 DEF Inv, TypeOK, SaveOwned, Requests
  <2>7. ReportOwned'
    BY <2>1, <2>2 DEF Inv, TypeOK, ReportOwned, Requests
  <2>8. TokenOwned'
    <3>1. \A h \in Shares : pc[h] = "update" => pc'[h] = "update" /\ target[h] \in Saves
      BY <2>1 DEF Inv, TypeOK, TokenOwned, Requests
    <3>2. ASSUME NEW h \in Shares, pc'[h] = "update"
          PROVE  report'[target[h]] # None /\ report'[target[h]].ws = caller[h]
      <4>1. pc[h] = "update"
        BY <2>1, <3>2 DEF Inv, TypeOK, Requests
      <4>2. target[h] # s
        BY <2>1, <4>1 DEF Inv, ReportOwned, TokenOwned, OwnedBy
      <4> QED
        BY <2>1, <4>1, <4>2 DEF Inv, TypeOK, TokenOwned, OwnedBy, Requests
    <3> QED
      BY <2>1, <3>1, <3>2 DEF Inv, TypeOK, TokenOwned, OwnedBy, Requests, Row
  <2>9. TokenOpensOneReport'
    BY <2>1 DEF Inv, TypeOK, TokenOpensOneReport, Requests
  <2> QED
    BY <2>4, <2>5, <2>6, <2>7, <2>8, <2>9 DEF Inv
<1> QED
  BY <1>1, <1>2, <1>3

\* A share reads the row of its own workspace and writes back the token it
\* read, or its own.
LEMMA ShareInv ==
    ASSUME Inv, NEW h \in Shares,
           (\E w \in Workspaces, r \in Saves : ShareRead(h, w, r)) \/ ShareUpdate(h)
    PROVE  Inv'
<1> USE NoneIsFresh, RequestsDisjoint
<1>1. CASE \E w \in Workspaces, r \in Saves : ShareRead(h, w, r)
  <2>1. PICK w \in Workspaces, r \in Saves : ShareRead(h, w, r)
    BY <1>1
  <2>2. /\ pc[h] = "idle"
        /\ caller' = [caller EXCEPT ![h] = w]
        /\ target' = [target EXCEPT ![h] = r]
        /\ UNCHANGED <<traceCache, analysis, report>>
    BY <2>1 DEF ShareRead, Arrive, dbVars
  <2>3. \/ /\ OwnedBy(r, w)
           /\ pc' = [pc EXCEPT ![h] = "update"]
           /\ held' = [held EXCEPT ![h] =
                         IF report[r].token # None THEN report[r].token ELSE h]
        \/ pc' = [pc EXCEPT ![h] = "notFound"] /\ UNCHANGED held
    BY <2>1 DEF ShareRead, Goto
  <2>4. ASSUME OwnedBy(r, w)
        PROVE  /\ report[r] \in Row
               /\ report[r].token # None =>
                    /\ report[r].token \in Shares
                    /\ report[r].token # h
                    /\ target[report[r].token] = r
                    /\ caller[report[r].token] = w
                    /\ pc[report[r].token] # "idle"
    BY <2>2, <2>4 DEF OwnedBy, Inv, TypeOK, TokenOwned, TokenOpensOneReport, Row
  <2>5. TypeOK'
    BY <2>2, <2>3, <2>4 DEF Inv, TypeOK, Requests, InProgress, Finished
  <2>6. TraceOwned'
    BY <2>2, <2>3 DEF Inv, TypeOK, TraceOwned, Requests
  <2>7. SaveOwned'
    BY <2>2, <2>3 DEF Inv, TypeOK, SaveOwned, Requests
  <2>8. ReportOwned'
    BY <2>2, <2>3 DEF Inv, TypeOK, ReportOwned, Requests
  <2>9. TokenOwned'
    <3>1. \A x \in Saves : report'[x] # None /\ report'[x].token # None
                            => pc'[report'[x].token] # "idle"
      BY <2>2, <2>3 DEF Inv, TypeOK, TokenOwned, Requests, Row
    <3>2. ASSUME NEW g \in Shares, pc'[g] = "update", g # h
          PROVE  /\ target'[g] \in Saves
                 /\ OwnedBy(target[g], caller[g])'
                 /\ held'[g] \in Shares
                 /\ target'[held'[g]] = target'[g]
                 /\ caller'[held'[g]] = caller'[g]
                 /\ pc'[held'[g]] # "idle"
      <4>1. pc[g] = "update" /\ held'[g] = held[g] /\ held[g] # h
        BY <2>2, <2>3, <3>2 DEF Inv, TypeOK, TokenOwned, Requests
      <4> QED
        BY <2>2, <2>3, <3>2, <4>1 DEF Inv, TypeOK, TokenOwned, OwnedBy, Requests
    <3>3. ASSUME pc'[h] = "update"
          PROVE  /\ target'[h] \in Saves
                 /\ OwnedBy(target[h], caller[h])'
                 /\ held'[h] \in Shares
                 /\ target'[held'[h]] = target'[h]
                 /\ caller'[held'[h]] = caller'[h]
                 /\ pc'[held'[h]] # "idle"
      BY <2>2, <2>3, <2>4, <3>3 DEF Inv, TypeOK, OwnedBy, Requests
    <3> QED
      BY <3>1, <3>2, <3>3 DEF TokenOwned
  <2>10. TokenOpensOneReport'
    BY <2>2, <2>3 DEF Inv, TypeOK, TokenOwned, TokenOpensOneReport, Requests, Row
  <2> QED
    BY <2>5, <2>6, <2>7, <2>8, <2>9, <2>10 DEF Inv
<1>2. CASE ShareUpdate(h)
  <2> DEFINE r == target[h]
  <2>1. /\ pc[h] = "update" /\ pc' = [pc EXCEPT ![h] = "done"]
        /\ UNCHANGED <<traceCache, analysis, caller, target, held>>
    BY <1>2 DEF ShareUpdate, Goto, reqVars
  <2>2. /\ r \in Saves /\ OwnedBy(r, caller[h])
        /\ held[h] \in Shares /\ target[held[h]] = r
        /\ caller[held[h]] = caller[h] /\ pc[held[h]] # "idle"
    BY <2>1 DEF Inv, TokenOwned
  <2>3. report' = [report EXCEPT ![r] = [@ EXCEPT !.token = held[h], !.shared = TRUE]]
    BY <1>2, <2>2 DEF ShareUpdate, Inv, TypeOK, OwnedBy
  <2>4. report[r] \in Row
    BY <2>2 DEF OwnedBy, Inv, TypeOK
  <2>5. TypeOK'
    BY <2>1, <2>2, <2>3, <2>4 DEF Inv, TypeOK, Requests, Finished, Row
  <2>6. TraceOwned'
    BY <2>1 DEF Inv, TypeOK, TraceOwned, Requests
  <2>7. SaveOwned'
    BY <2>1 DEF Inv, TypeOK, SaveOwned, Requests
  <2>8. ReportOwned'
    BY <2>1, <2>2, <2>3, <2>4 DEF Inv, TypeOK, ReportOwned, OwnedBy, Requests, Row
  <2>9. TokenOwned'
    <3>1. /\ report'[r] \in Row /\ report'[r].ws = report[r].ws
          /\ report'[r].token = held[h]
          /\ \A x \in Saves : x # r => report'[x] = report[x]
      BY <2>2, <2>3, <2>4 DEF Inv, TypeOK, Row
    <3>2. \A x \in Saves, w \in Workspaces : OwnedBy(x, w) => OwnedBy(x, w)'
      BY <2>2, <3>1 DEF OwnedBy
    <3>3. \A x \in Saves : report'[x] # None /\ report'[x].token # None
                            => pc'[report'[x].token] # "idle"
      BY <2>1, <2>2, <3>1 DEF Inv, TypeOK, TokenOwned, Requests, Row
    <3>4. \A g \in Shares : pc[g] = "update" => caller[g] \in Workspaces
      BY DEF Inv, TypeOK, TokenOwned, OwnedBy, Row
    <3> QED
      BY <2>1, <3>2, <3>3, <3>4 DEF Inv, TypeOK, TokenOwned, Requests
  <2>10. TokenOpensOneReport'
    BY <2>1, <2>2, <2>3, <2>4 DEF Inv, TypeOK, TokenOpensOneReport, OwnedBy, Row
  <2> QED
    BY <2>5, <2>6, <2>7, <2>8, <2>9, <2>10 DEF Inv
<1> QED
  BY <1>1, <1>2

\* A revocation clears the columns of a report of its own workspace.
LEMMA RevokeInv ==
    ASSUME Inv, NEW k \in Revokes,
           (\E w \in Workspaces, r \in Saves : RevokeRead(k, w, r)) \/ RevokeUpdate(k)
    PROVE  Inv'
<1> USE NoneIsFresh, RequestsDisjoint
<1>1. CASE \E w \in Workspaces, r \in Saves : RevokeRead(k, w, r)
  <2>1. PICK w \in Workspaces, r \in Saves : RevokeRead(k, w, r)
    BY <1>1
  <2>2. /\ pc[k] = "idle"
        /\ pc' = [pc EXCEPT ![k] = IF OwnedBy(r, w) THEN "update" ELSE "notFound"]
        /\ caller' = [caller EXCEPT ![k] = w]
        /\ target' = [target EXCEPT ![k] = r]
        /\ UNCHANGED <<traceCache, analysis, report, held>>
    BY <2>1 DEF RevokeRead, Arrive, Goto, dbVars
  <2>3. TypeOK'
    BY <2>2 DEF Inv, TypeOK, Requests, InProgress, Finished
  <2>4. TraceOwned'
    BY <2>2 DEF Inv, TypeOK, TraceOwned, Requests
  <2>5. SaveOwned'
    BY <2>2 DEF Inv, TypeOK, SaveOwned, Requests
  <2>6. ReportOwned'
    BY <2>2 DEF Inv, TypeOK, ReportOwned, Requests
  <2>7. TokenOwned'
    BY <2>2 DEF Inv, TypeOK, TokenOwned, OwnedBy, Requests, Row
  <2>8. TokenOpensOneReport'
    BY <2>2 DEF Inv, TypeOK, TokenOpensOneReport, Requests, Row
  <2> QED
    BY <2>3, <2>4, <2>5, <2>6, <2>7, <2>8 DEF Inv
<1>2. CASE RevokeUpdate(k)
  <2> DEFINE r == target[k]
  <2>1. /\ pc[k] = "update" /\ pc' = [pc EXCEPT ![k] = "done"]
        /\ UNCHANGED <<traceCache, analysis, caller, target, held>>
    BY <1>2 DEF RevokeUpdate, Goto, reqVars
  <2>2. \/ UNCHANGED report
        \/ /\ OwnedBy(r, caller[k]) /\ r \in Saves
           /\ report' = [report EXCEPT ![r] =
                           [@ EXCEPT !.token = None, !.shared = FALSE]]
    BY <1>2, <2>1 DEF RevokeUpdate, Inv, TypeOK, OwnedBy
  <2>3. \A x \in Saves :
           /\ report'[x] \in Row \cup {None}
           /\ report'[x] # None <=> report[x] # None
           /\ report[x] # None =>
                /\ report'[x].ws = report[x].ws
                /\ report'[x].trace = report[x].trace
                /\ \/ report'[x] = report[x]
                   \/ report'[x].token = None /\ ~ report'[x].shared
    <3>1. CASE UNCHANGED report
      BY <3>1 DEF Inv, TypeOK
    <3>2. CASE /\ OwnedBy(r, caller[k]) /\ r \in Saves
               /\ report' = [report EXCEPT ![r] =
                               [@ EXCEPT !.token = None, !.shared = FALSE]]
      <4>1. report[r] \in Row
        BY <3>2 DEF Inv, TypeOK, OwnedBy
      <4>2. /\ report'[r] = [report[r] EXCEPT !.token = None, !.shared = FALSE]
            /\ \A x \in Saves : x # r => report'[x] = report[x]
        BY <3>2 DEF Inv, TypeOK
      <4>3. /\ report'[r] \in Row /\ report'[r].ws = report[r].ws
            /\ report'[r].trace = report[r].trace
            /\ report'[r].token = None /\ ~ report'[r].shared
        BY <4>1, <4>2 DEF Row
      <4> QED
        BY <4>1, <4>2, <4>3 DEF Inv, TypeOK
    <3> QED
      BY <2>2, <3>1, <3>2
  <2>4. TypeOK'
    <3>1. report' \in [Saves -> Row \cup {None}]
      BY <2>2, <2>3 DEF Inv, TypeOK
    <3> QED
      BY <2>1, <3>1 DEF Inv, TypeOK, Requests, Finished
  <2>5. TraceOwned'
    BY <2>1 DEF Inv, TypeOK, TraceOwned, Requests
  <2>6. SaveOwned'
    BY <2>1 DEF Inv, TypeOK, SaveOwned, Requests
  <2>7. ReportOwned'
    BY <2>1, <2>3 DEF Inv, TypeOK, ReportOwned, Requests
  <2>8. TokenOwned'
    <3>1. \A x \in Saves, w \in Workspaces : OwnedBy(x, w) => OwnedBy(x, w)'
      BY <2>3 DEF OwnedBy
    <3>2. \A x \in Saves : report'[x] # None /\ report'[x].token # None
                            => pc'[report'[x].token] # "idle"
      BY <2>1, <2>3 DEF Inv, TypeOK, TokenOwned, Requests, Row
    <3>3. \A g \in Shares : pc[g] = "update" => caller[g] \in Workspaces
      BY DEF Inv, TypeOK, TokenOwned, OwnedBy, Row
    <3> QED
      BY <2>1, <3>1, <3>2, <3>3 DEF Inv, TypeOK, TokenOwned, Requests
  <2>9. TokenOpensOneReport'
    BY <2>1, <2>3 DEF Inv, TokenOpensOneReport
  <2> QED
    BY <2>4, <2>5, <2>6, <2>7, <2>8, <2>9 DEF Inv
<1> QED
  BY <1>1, <1>2

\* A visit changes nothing but the counter of the row that holds its token.
LEMMA ViewInv ==
    ASSUME Inv, NEW v \in Views,
           \/ \E t \in Shares : ViewRead(v, t)
           \/ ViewCount(v)
           \/ ViewReply(v)
    PROVE  Inv'
<1> USE NoneIsFresh, RequestsDisjoint
<1>1. CASE \E t \in Shares : ViewRead(v, t)
  <2>1. PICK t \in Shares : ViewRead(v, t)
    BY <1>1
  <2>2. /\ pc[v] = "idle"
        /\ caller' = [caller EXCEPT ![v] = None]
        /\ target' = [target EXCEPT ![v] = t]
        /\ UNCHANGED <<traceCache, analysis, report>>
    BY <2>1 DEF ViewRead, Arrive, dbVars
  <2>3. \/ \E r \in Saves : /\ held' = [held EXCEPT ![v] = r]
                            /\ pc' = [pc EXCEPT ![v] = "count"]
        \/ UNCHANGED held /\ pc' = [pc EXCEPT ![v] = "notFound"]
    BY <2>1 DEF ViewRead, Goto
  <2>4. TypeOK'
    BY <2>2, <2>3 DEF Inv, TypeOK, Requests, InProgress, Finished
  <2>5. TraceOwned'
    BY <2>2, <2>3 DEF Inv, TypeOK, TraceOwned, Requests
  <2>6. SaveOwned'
    BY <2>2, <2>3 DEF Inv, TypeOK, SaveOwned, Requests
  <2>7. ReportOwned'
    BY <2>2, <2>3 DEF Inv, TypeOK, ReportOwned, Requests
  <2>8. TokenOwned'
    BY <2>2, <2>3 DEF Inv, TypeOK, TokenOwned, OwnedBy, Requests, Row
  <2>9. TokenOpensOneReport'
    BY <2>2, <2>3 DEF Inv, TypeOK, TokenOpensOneReport, Requests, Row
  <2> QED
    BY <2>4, <2>5, <2>6, <2>7, <2>8, <2>9 DEF Inv
<1>2. CASE ViewCount(v)
  <2>1. /\ pc[v] = "count" /\ pc' = [pc EXCEPT ![v] = "reply"]
        /\ UNCHANGED <<traceCache, analysis, caller, target, held>>
    BY <1>2 DEF ViewCount, Goto, reqVars
  <2>2. /\ DOMAIN report' = Saves
        /\ \A r \in Saves :
              \/ report'[r] = report[r]
              \/ /\ report[r] # None
                 /\ report'[r] = [report[r] EXCEPT !.views = @ + 1]
    BY <1>2 DEF ViewCount
  <2>3. \A r \in Saves : report[r] # None => report[r] \in Row
    BY DEF Inv, TypeOK
  <2>4. \A r \in Saves :
           /\ report'[r] \in Row \cup {None}
           /\ report'[r] # None <=> report[r] # None
           /\ report[r] # None =>
                /\ report'[r].ws = report[r].ws
                /\ report'[r].trace = report[r].trace
                /\ report'[r].token = report[r].token
                /\ report'[r].shared = report[r].shared
    BY <2>2, <2>3 DEF Inv, TypeOK, Row, Requests
  <2>5. TypeOK'
    <3>1. report' \in [Saves -> Row \cup {None}]
      BY <1>2, <2>4 DEF ViewCount
    <3> QED
      BY <2>1, <3>1 DEF Inv, TypeOK, Requests, InProgress
  <2>6. TraceOwned'
    BY <2>1 DEF Inv, TypeOK, TraceOwned, Requests
  <2>7. SaveOwned'
    BY <2>1 DEF Inv, TypeOK, SaveOwned, Requests
  <2>8. ReportOwned'
    BY <2>1, <2>4 DEF Inv, TypeOK, ReportOwned, Requests
  <2>9. TokenOwned'
    BY <2>1, <2>3, <2>4 DEF Inv, TypeOK, TokenOwned, OwnedBy, Requests, Row
  <2>10. TokenOpensOneReport'
    BY <2>1, <2>4 DEF Inv, TokenOpensOneReport
  <2> QED
    BY <2>5, <2>6, <2>7, <2>8, <2>9, <2>10 DEF Inv
<1>3. CASE ViewReply(v)
  <2>1. /\ pc[v] = "reply" /\ pc' = [pc EXCEPT ![v] = "done"]
        /\ UNCHANGED <<traceCache, analysis, report, caller, target, held>>
    BY <1>3 DEF ViewReply, Goto, dbVars, reqVars
  <2> QED
    BY <2>1 DEF Inv, TypeOK, TraceOwned, SaveOwned, ReportOwned, TokenOwned,
                TokenOpensOneReport, OwnedBy, Requests, Finished, Row
<1> QED
  BY <1>1, <1>2, <1>3

\* Requests in progress may vanish, and the cache with them: the invariant asks
\* nothing of a request that has failed.
LEMMA LossInv ==
    ASSUME Inv, (\E q \in Requests : Fail(q)) \/ Restart
    PROVE  Inv'
<1> USE NoneIsFresh
<1>1. /\ traceCache' \subseteq traceCache
      /\ UNCHANGED <<analysis, report, caller, target, held>>
      /\ pc' \in [Requests -> {"idle"} \cup Finished \cup InProgress]
      /\ \A q \in Requests :
            pc'[q] = pc[q] \/ (pc[q] \in InProgress /\ pc'[q] = "failed")
  BY DEF Fail, Restart, Goto, dbVars, reqVars, Inv, TypeOK, Finished
<1>2. TypeOK'
  BY <1>1 DEF Inv, TypeOK, Requests, InProgress
<1>3. TraceOwned'
  BY <1>1 DEF Inv, TypeOK, TraceOwned, Requests
<1>4. SaveOwned'
  BY <1>1 DEF Inv, TypeOK, SaveOwned, Requests
<1>5. ReportOwned'
  BY <1>1 DEF Inv, TypeOK, ReportOwned, Requests, InProgress
<1>6. TokenOwned'
  BY <1>1 DEF Inv, TypeOK, TokenOwned, OwnedBy, Requests, Row
<1>7. TokenOpensOneReport'
  BY <1>1 DEF Inv, TokenOpensOneReport
<1> QED
  BY <1>2, <1>3, <1>4, <1>5, <1>6, <1>7 DEF Inv

LEMMA StutterInv == Inv /\ UNCHANGED vars => Inv'
BY DEF Inv, TypeOK, TraceOwned, SaveOwned, ReportOwned, TokenOwned,
       TokenOpensOneReport, OwnedBy, vars

LEMMA NextInv == Inv /\ [Next]_vars => Inv'
<1> SUFFICES ASSUME Inv, [Next]_vars PROVE Inv'
  OBVIOUS
<1>1. CASE \E a \in Analyses : (\E w \in Workspaces : AnalyzeRun(a, w)) \/ AnalyzeStore(a)
  BY <1>1, AnalyzeInv
<1>2. CASE \E s \in Saves : \/ \E w \in Workspaces, a \in Analyses : SaveLookup(s, w, a)
                           \/ SaveUpsert(s)
                           \/ SaveInsert(s)
  BY <1>2, SaveInv
<1>3. CASE \E h \in Shares : \/ \E w \in Workspaces, r \in Saves : ShareRead(h, w, r)
                            \/ ShareUpdate(h)
  BY <1>3, ShareInv
<1>4. CASE \E k \in Revokes : \/ \E w \in Workspaces, r \in Saves : RevokeRead(k, w, r)
                             \/ RevokeUpdate(k)
  BY <1>4, RevokeInv
<1>5. CASE \E v \in Views : \/ \E t \in Shares : ViewRead(v, t)
                           \/ ViewCount(v)
                           \/ ViewReply(v)
  BY <1>5, ViewInv
<1>6. CASE (\E q \in Requests : Fail(q)) \/ Restart
  BY <1>6, LossInv
<1>7. CASE UNCHANGED vars
  BY <1>7, StutterInv
<1> QED
  BY <1>1, <1>2, <1>3, <1>4, <1>5, <1>6, <1>7 DEF Next, Arrival, Progress

-----------------------------------------------------------------------------

\* The invariant holds in every reachable state.
THEOREM Invariance == Spec => []Inv
<1>1. Init => Inv
  BY InitInv
<1>2. Inv /\ [Next]_vars => Inv'
  BY NextInv
<1> QED
  BY <1>1, <1>2, PTL DEF Spec

\* Every variable keeps its type, whatever the sets of requests.
THEOREM TypeCorrect == Spec => []TypeOK
<1>1. Inv => TypeOK
  BY DEF Inv
<1> QED
  BY <1>1, Invariance, PTL

\* A public token opens only the report it was minted for, and was minted with
\* the key of that report's workspace.
THEOREM TokensOpenOneReport == Spec => []TokenOpensOneReport
<1>1. Inv => TokenOpensOneReport
  BY DEF Inv
<1> QED
  BY <1>1, Invariance, PTL

\* A shared report always has the analysis its public page is made from, in its
\* own workspace.
THEOREM SharedReportsOpen == Spec => []SharedReportOpens
<1>1. Inv => SharedReportOpens
  BY DEF Inv, ReportOwned, SharedReportOpens, PublicRow
<1> QED
  BY <1>1, Invariance, PTL

-----------------------------------------------------------------------------
(* The steps that touch the sharing columns.                                *)

\* What a step does to the rows: an update writes the columns of its own
\* target, every other step leaves the token of every row alone.
LEMMA SharingSteps ==
    ASSUME Inv, [Next]_vars
    PROVE  \/ \E h \in Shares :
                 /\ ShareUpdate(h) /\ pc[h] = "update" /\ pc'[h] = "done"
                 /\ target[h] \in Saves /\ OwnedBy(target[h], caller[h])
                 /\ report'[target[h]].token = held[h]
                 /\ \A r \in Saves : r # target[h] => report'[r] = report[r]
           \/ \E k \in Revokes :
                 /\ RevokeUpdate(k) /\ pc[k] = "update" /\ pc'[k] = "done"
                 /\ target[k] \in Saves /\ OwnedBy(target[k], caller[k])
                 /\ report'[target[k]].token = None
                 /\ \A r \in Saves : r # target[k] => report'[r] = report[r]
           \/ \A r \in Saves :
                 \/ report'[r] = report[r]
                 \/ report[r] = None /\ report'[r].token = None
                 \/ report[r] # None /\ report'[r].token = report[r].token
<1> USE NoneIsFresh, RequestsDisjoint
<1>1. ASSUME NEW h \in Shares, ShareUpdate(h)
      PROVE  /\ pc[h] = "update" /\ pc'[h] = "done"
             /\ target[h] \in Saves /\ OwnedBy(target[h], caller[h])
             /\ report'[target[h]].token = held[h]
             /\ \A r \in Saves : r # target[h] => report'[r] = report[r]
  <2>1. pc[h] = "update" /\ pc'[h] = "done"
    BY <1>1 DEF ShareUpdate, Goto, Inv, TypeOK, Requests
  <2>2. target[h] \in Saves /\ OwnedBy(target[h], caller[h]) /\ held[h] \in Shares
    BY <2>1 DEF Inv, TokenOwned
  <2>3. report[target[h]] \in Row
    BY <2>2 DEF OwnedBy, Inv, TypeOK
  <2>4. report' = [report EXCEPT ![target[h]] =
                     [@ EXCEPT !.token = held[h], !.shared = TRUE]]
    BY <1>1, <2>2 DEF ShareUpdate, Inv, TypeOK, OwnedBy
  <2> QED
    BY <2>1, <2>2, <2>3, <2>4 DEF Inv, TypeOK, Row
<1>2. ASSUME NEW k \in Revokes, RevokeUpdate(k), OwnedBy(target[k], caller[k])
      PROVE  /\ pc[k] = "update" /\ pc'[k] = "done"
             /\ target[k] \in Saves
             /\ report'[target[k]].token = None
             /\ \A r \in Saves : r # target[k] => report'[r] = report[r]
  <2>1. /\ pc[k] = "update" /\ pc'[k] = "done" /\ target[k] \in Saves
    BY <1>2 DEF RevokeUpdate, Goto, Inv, TypeOK, Requests
  <2>2. report[target[k]] \in Row
    BY <1>2, <2>1 DEF OwnedBy, Inv, TypeOK
  <2>3. report' = [report EXCEPT ![target[k]] =
                     [@ EXCEPT !.token = None, !.shared = FALSE]]
    BY <1>2, <2>1 DEF RevokeUpdate, Inv, TypeOK, OwnedBy
  <2> QED
    BY <2>1, <2>2, <2>3 DEF Inv, TypeOK, Row
<1>3. ASSUME NEW k \in Revokes, RevokeUpdate(k), ~ OwnedBy(target[k], caller[k])
      PROVE  UNCHANGED report
  BY <1>3 DEF RevokeUpdate
<1>4. ASSUME NEW s \in Saves, SaveInsert(s), NEW r \in Saves
      PROVE  report'[r] = report[r] \/ (report[r] = None /\ report'[r].token = None)
  <2>1. pc[s] = "insert" /\ report[s] = None
    BY <1>4 DEF SaveInsert, Inv, ReportOwned
  <2> QED
    BY <1>4, <2>1 DEF SaveInsert, Inv, TypeOK
<1>5. ASSUME NEW v \in Views, ViewCount(v), NEW r \in Saves
      PROVE  report'[r] = report[r]
             \/ (report[r] # None /\ report'[r].token = report[r].token)
  <2>1. report[r] # None => report[r] \in Row
    BY DEF Inv, TypeOK
  <2>2. \/ report'[r] = report[r]
        \/ report[r] # None /\ report'[r] = [report[r] EXCEPT !.views = @ + 1]
    BY <1>5 DEF ViewCount
  <2> QED
    BY <2>1, <2>2 DEF Row
<1>6. CASE UNCHANGED report
  BY <1>6
<1>7. \/ UNCHANGED report
      \/ \E h \in Shares : ShareUpdate(h)
      \/ \E k \in Revokes : RevokeUpdate(k)
      \/ \E s \in Saves : SaveInsert(s)
      \/ \E v \in Views : ViewCount(v)
  BY DEF Next, Arrival, Progress, AnalyzeRun, AnalyzeStore, SaveLookup, SaveUpsert,
         ShareRead, RevokeRead, ViewRead, ViewReply, Fail, Restart, vars, dbVars
<1> QED
  BY <1>1, <1>2, <1>3, <1>4, <1>5, <1>6, <1>7

\* What a step does to a share request.
LEMMA ShareRequestSteps ==
    ASSUME Inv, [Next]_vars, NEW h \in Shares
    PROVE  \/ pc'[h] = pc[h] /\ held'[h] = held[h]
           \/ \E w \in Workspaces, r \in Saves : ShareRead(h, w, r)
           \/ pc[h] = "update" /\ pc'[h] \in Finished /\ held'[h] = held[h]
           \/ pc[h] \in InProgress /\ pc'[h] = "failed" /\ held'[h] = held[h]
<1> USE RequestsDisjoint DEF Requests
<1> DEFINE Same == pc'[h] = pc[h] /\ held'[h] = held[h]
<1> TypeOK
  BY DEF Inv
<1>1. ASSUME NEW a \in Analyses, (\E w \in Workspaces : AnalyzeRun(a, w)) \/ AnalyzeStore(a)
      PROVE  Same
  BY <1>1 DEF AnalyzeRun, AnalyzeStore, Arrive, Goto, reqVars, TypeOK
<1>2. ASSUME NEW s \in Saves,
             \/ \E w \in Workspaces, a \in Analyses : SaveLookup(s, w, a)
             \/ SaveUpsert(s) \/ SaveInsert(s)
      PROVE  Same
  BY <1>2 DEF SaveLookup, SaveUpsert, SaveInsert, Arrive, Goto, reqVars, TypeOK
<1>3. ASSUME NEW k \in Revokes,
             (\E w \in Workspaces, r \in Saves : RevokeRead(k, w, r)) \/ RevokeUpdate(k)
      PROVE  Same
  BY <1>3 DEF RevokeRead, RevokeUpdate, Arrive, Goto, reqVars, TypeOK
<1>4. ASSUME NEW v \in Views, \/ \E t \in Shares : ViewRead(v, t)
                              \/ ViewCount(v) \/ ViewReply(v)
      PROVE  Same
  BY <1>4 DEF ViewRead, ViewCount, ViewReply, Arrive, Goto, reqVars, TypeOK
<1>5. ASSUME NEW g \in Shares, g # h,
             (\E w \in Workspaces, r \in Saves : ShareRead(g, w, r)) \/ ShareUpdate(g)
      PROVE  Same
  BY <1>5 DEF ShareRead, ShareUpdate, Arrive, Goto, reqVars, TypeOK
<1>6. ASSUME ShareUpdate(h)
      PROVE  pc[h] = "update" /\ pc'[h] \in Finished /\ held'[h] = held[h]
  BY <1>6 DEF ShareUpdate, Goto, reqVars, TypeOK, Finished
<1>7. ASSUME (\E q \in Requests : Fail(q)) \/ Restart
      PROVE  Same \/ (pc[h] \in InProgress /\ pc'[h] = "failed" /\ held'[h] = held[h])
  BY <1>7 DEF Fail, Restart, Goto, reqVars, TypeOK
<1>8. ASSUME UNCHANGED vars PROVE Same
  BY <1>8 DEF vars
<1> QED
  BY <1>1, <1>2, <1>3, <1>4, <1>5, <1>6, <1>7, <1>8 DEF Next, Arrival, Progress

\* The sharing of a report is changed only by a request with its workspace's key.
THEOREM OwnerChangesSharing == Spec => OnlyOwnerChangesSharing
<1> DEFINE Changes ==
        \A r \in Saves :
            report[r] # None /\ report'[r].token # report[r].token =>
                \E q \in Shares \cup Revokes :
                    /\ pc[q] = "update" /\ pc'[q] = "done"
                    /\ target[q] = r /\ caller[q] = report[r].ws
<1>1. Inv /\ [Next]_vars => [Changes]_vars
  <2> SUFFICES ASSUME Inv, [Next]_vars PROVE Changes
    OBVIOUS
  <2> SUFFICES ASSUME NEW r \in Saves, report[r] # None,
                      report'[r].token # report[r].token
               PROVE  \E q \in Shares \cup Revokes :
                          /\ pc[q] = "update" /\ pc'[q] = "done"
                          /\ target[q] = r /\ caller[q] = report[r].ws
    OBVIOUS
  <2> QED
    BY SharingSteps DEF OwnedBy
<1> QED
  BY <1>1, Invariance, PTL DEF Spec, OnlyOwnerChangesSharing

\* A token that no row and no share in progress carries never comes back.
THEOREM GoneTokensStayGone == Spec => GoneTokenNeverReturns
<1> USE NoneIsFresh, RequestsDisjoint
<1> DEFINE Stays == \A t \in Shares : Gone(t) => Gone(t)'
<1>1. Inv /\ [Next]_vars => [Stays]_vars
  <2> SUFFICES ASSUME Inv, [Next]_vars, NEW t \in Shares, Gone(t) PROVE Gone(t)'
    OBVIOUS
  <2>1. \A r \in Saves : report[r] # None => report[r].token # t
    BY DEF Gone, Live, Inv, TypeOK, ReportOwned, Requests, Row
  <2>2. \A h \in Shares : pc[h] = "update" => held[h] # t
    BY DEF Gone
  <2>3. pc'[t] # "idle"
    BY ShareRequestSteps DEF Gone, ShareRead, Arrive, Finished
  <2>4. ~ Live(t)'
    BY SharingSteps, <2>1, <2>2 DEF Live, OwnedBy, Requests
  <2>5. ASSUME NEW h \in Shares, pc'[h] = "update" PROVE held'[h] # t
    <3>1. CASE \E w \in Workspaces, r \in Saves : ShareRead(h, w, r)
      <4>1. PICK w \in Workspaces, r \in Saves : ShareRead(h, w, r)
        BY <3>1
      <4>2. pc[h] = "idle" /\ h # t
        BY <4>1 DEF ShareRead, Arrive, Gone
      <4>3. /\ report[r] # None
            /\ held'[h] = IF report[r].token # None THEN report[r].token ELSE h
        BY <4>1, <2>5 DEF ShareRead, OwnedBy, Goto, Inv, TypeOK, Requests
      <4> QED
        BY <2>1, <4>2, <4>3
    <3> QED
      BY <2>2, <2>5, <3>1, ShareRequestSteps DEF Finished
  <2> QED
    BY <2>3, <2>4, <2>5 DEF Gone
<1> QED
  BY <1>1, Invariance, PTL DEF Spec, GoneTokenNeverReturns

-----------------------------------------------------------------------------
(* The counter of visits.  A visit remembers the row it found and the token *)
(* it came with, however long it takes to count; the counter is compared    *)
(* with the visits that remember the row.                                   *)

\* A request that has not come in names nothing.
IdleIsBlank == \A q \in Requests : pc[q] = "idle" => target[q] = None /\ held[q] = None

\* Share request t minted its token for report r: it found no other.
Minted(t, r) == target[t] = r /\ held[t] = t

\* Every token in a row or in a share in progress was minted by its request.
TokenMinted ==
    /\ \A r \in Saves :
          report[r] # None /\ report[r].token # None => Minted(report[r].token, r)
    /\ \A h \in Shares : pc[h] = "update" => Minted(held[h], target[h])

\* A visit that found a row came with a token minted for it.
VisitFound ==
    \A v \in Views :
        held[v] # None =>
            /\ held[v] \in Saves
            /\ report[held[v]] # None
            /\ target[v] \in Shares
            /\ Minted(target[v], held[v])

\* A visit about to count still finds its token in the row, unless the report has been revoked
\* or has had a second token.
CountsItsToken ==
    \A v \in Views :
        pc[v] = "count" /\ SingleToken(held[v]) => report[held[v]].token = target[v]

\* Finitely many visits have come in, in every reachable state: the counts exist.
FinitelyMany == IsFiniteSet({v \in Views : pc[v] # "idle"})

VisitInv ==
    /\ IdleIsBlank
    /\ TokenMinted
    /\ VisitFound
    /\ CountsItsToken
    /\ FinitelyMany
    /\ ViewsMatchVisits

\* What a step does to requests: it brings in at most one, and a request that has come in keeps
\* what it names and what it has read.
LEMMA RequestSteps ==
    ASSUME Inv, [Next]_vars
    PROVE  /\ \A q \in Requests :
                 \/ pc[q] = "idle"
                 \/ pc'[q] # "idle" /\ target'[q] = target[q] /\ held'[q] = held[q]
           /\ \A q \in Requests :
                 pc[q] = "idle" /\ pc'[q] = "idle" =>
                    target'[q] = target[q] /\ held'[q] = held[q]
           /\ \A p, q \in Requests :
                 /\ pc[p] = "idle" /\ pc'[p] # "idle"
                 /\ pc[q] = "idle" /\ pc'[q] # "idle"
                 => p = q
<1> DEFINE Alone(p) ==
        /\ pc[p] = "idle" => pc'[p] # "idle"
        /\ pc[p] # "idle" => pc'[p] # "idle" /\ target'[p] = target[p] /\ held'[p] = held[p]
        /\ \A q \in Requests :
              q # p => pc'[q] = pc[q] /\ target'[q] = target[q] /\ held'[q] = held[q]
<1> DEFINE Kept ==
        \A q \in Requests :
            /\ pc[q] = "idle" <=> pc'[q] = "idle"
            /\ target'[q] = target[q] /\ held'[q] = held[q]
<1> USE RequestsDisjoint DEF Requests
<1> TypeOK
  BY DEF Inv
<1>1. ASSUME NEW a \in Analyses, (\E w \in Workspaces : AnalyzeRun(a, w)) \/ AnalyzeStore(a)
      PROVE  Alone(a)
  BY <1>1 DEF AnalyzeRun, AnalyzeStore, Arrive, Goto, reqVars, TypeOK
<1>2. ASSUME NEW s \in Saves,
             \/ \E w \in Workspaces, a \in Analyses : SaveLookup(s, w, a)
             \/ SaveUpsert(s) \/ SaveInsert(s)
      PROVE  Alone(s)
  BY <1>2 DEF SaveLookup, SaveUpsert, SaveInsert, Arrive, Goto, reqVars, TypeOK
<1>3. ASSUME NEW h \in Shares,
             (\E w \in Workspaces, r \in Saves : ShareRead(h, w, r)) \/ ShareUpdate(h)
      PROVE  Alone(h)
  BY <1>3 DEF ShareRead, ShareUpdate, Arrive, Goto, reqVars, TypeOK
<1>4. ASSUME NEW k \in Revokes,
             (\E w \in Workspaces, r \in Saves : RevokeRead(k, w, r)) \/ RevokeUpdate(k)
      PROVE  Alone(k)
  BY <1>4 DEF RevokeRead, RevokeUpdate, Arrive, Goto, reqVars, TypeOK
<1>5. ASSUME NEW v \in Views, \/ \E t \in Shares : ViewRead(v, t)
                              \/ ViewCount(v) \/ ViewReply(v)
      PROVE  Alone(v)
  BY <1>5 DEF ViewRead, ViewCount, ViewReply, Arrive, Goto, reqVars, TypeOK
<1>6. ASSUME (\E q \in Requests : Fail(q)) \/ Restart
      PROVE  Kept
  BY <1>6 DEF Fail, Restart, Goto, reqVars, TypeOK, InProgress
<1>7. ASSUME UNCHANGED vars PROVE Kept
  BY <1>7 DEF vars
<1>8. Kept \/ \E p \in Requests : Alone(p)
  BY <1>1, <1>2, <1>3, <1>4, <1>5, <1>6, <1>7 DEF Next, Arrival, Progress
<1> QED
  BY <1>8

\* What a step does to visits: only the row found gives the visit something to hold.
LEMMA VisitSteps ==
    ASSUME Inv, [Next]_vars, NEW v \in Views
    PROVE  \/ pc'[v] = pc[v] /\ held'[v] = held[v] /\ target'[v] = target[v]
           \/ \E t \in Shares : ViewRead(v, t)
           \/ ViewCount(v)
           \/ pc[v] = "reply" /\ pc'[v] = "done"
           \/ pc[v] \in InProgress /\ pc'[v] = "failed"
<1> DEFINE Same == pc'[v] = pc[v] /\ held'[v] = held[v] /\ target'[v] = target[v]
<1> USE RequestsDisjoint DEF Requests
<1> TypeOK
  BY DEF Inv
<1>1. ASSUME NEW a \in Analyses, (\E w \in Workspaces : AnalyzeRun(a, w)) \/ AnalyzeStore(a)
      PROVE  Same
  BY <1>1 DEF AnalyzeRun, AnalyzeStore, Arrive, Goto, reqVars, TypeOK
<1>2. ASSUME NEW s \in Saves,
             \/ \E w \in Workspaces, a \in Analyses : SaveLookup(s, w, a)
             \/ SaveUpsert(s) \/ SaveInsert(s)
      PROVE  Same
  BY <1>2 DEF SaveLookup, SaveUpsert, SaveInsert, Arrive, Goto, reqVars, TypeOK
<1>3. ASSUME NEW h \in Shares,
             (\E w \in Workspaces, r \in Saves : ShareRead(h, w, r)) \/ ShareUpdate(h)
      PROVE  Same
  BY <1>3 DEF ShareRead, ShareUpdate, Arrive, Goto, reqVars, TypeOK
<1>4. ASSUME NEW k \in Revokes,
             (\E w \in Workspaces, r \in Saves : RevokeRead(k, w, r)) \/ RevokeUpdate(k)
      PROVE  Same
  BY <1>4 DEF RevokeRead, RevokeUpdate, Arrive, Goto, reqVars, TypeOK
<1>5. ASSUME NEW u \in Views, u # v, \/ \E t \in Shares : ViewRead(u, t)
                                     \/ ViewCount(u) \/ ViewReply(u)
      PROVE  Same
  BY <1>5 DEF ViewRead, ViewCount, ViewReply, Arrive, Goto, reqVars, TypeOK
<1>6. ASSUME ViewReply(v)
      PROVE  pc[v] = "reply" /\ pc'[v] = "done"
  BY <1>6 DEF ViewReply, Goto, TypeOK
<1>7. ASSUME (\E q \in Requests : Fail(q)) \/ Restart
      PROVE  Same \/ (pc[v] \in InProgress /\ pc'[v] = "failed")
  BY <1>7 DEF Fail, Restart, Goto, reqVars, TypeOK
<1>8. ASSUME UNCHANGED vars PROVE Same
  BY <1>8 DEF vars
<1> QED
  BY <1>1, <1>2, <1>3, <1>4, <1>5, <1>6, <1>7, <1>8 DEF Next, Arrival, Progress


\* A count adds one to the row that holds the visit's token, and touches no other.
LEMMA CountSteps ==
    ASSUME Inv, NEW v \in Views, ViewCount(v), NEW r \in Saves
    PROVE  \/ /\ report'[r] = report[r]
              /\ ~ (report[r] # None /\ report[r].token = target[v])
           \/ /\ report[r] # None /\ report'[r] # None
              /\ report[r].token = target[v] /\ report'[r].token = target[v]
              /\ report'[r].views = report[r].views + 1
<1>1. report'[r] = IF report[r] # None /\ report[r].token = target[v]
                   THEN [report[r] EXCEPT !.views = @ + 1]
                   ELSE report[r]
  BY DEF ViewCount
<1>2. report[r] # None => report[r] \in Row
  BY DEF Inv, TypeOK
<1>3. report[r] # None /\ report[r].token = target[v] => report'[r] \in Row
  BY <1>1, <1>2 DEF Row
<1> QED
  BY <1>1, <1>2, <1>3, NoneIsFresh DEF Row

\* Any other step leaves the counter of a row alone, or starts it at zero with the row.
LEMMA QuietSteps ==
    ASSUME Inv, [Next]_vars, \A v \in Views : ~ ViewCount(v), NEW r \in Saves
    PROVE  \/ report'[r] = report[r]
           \/ /\ report[r] = None /\ report'[r] # None
              /\ report'[r].views = 0 /\ report'[r].token = None
           \/ /\ report[r] # None /\ report'[r] # None
              /\ report'[r].views = report[r].views
              /\ \/ \E h \in Shares : /\ pc[h] = "update" /\ target[h] = r
                                      /\ report'[r].token = held[h]
                 \/ \E k \in Revokes : /\ pc[k] = "update" /\ target[k] = r
                                       /\ report'[r].token = None
<1> USE NoneIsFresh
<1>1. ASSUME NEW h \in Shares, ShareUpdate(h), target[h] = r
      PROVE  /\ report[r] # None /\ report'[r] # None
             /\ report'[r].views = report[r].views
             /\ pc[h] = "update" /\ report'[r].token = held[h]
  <2>1. pc[h] = "update"
    BY <1>1 DEF ShareUpdate
  <2>2. OwnedBy(r, caller[h]) /\ held[h] \in Shares
    BY <1>1, <2>1 DEF Inv, TokenOwned
  <2>3. report[r] \in Row
    BY <2>2 DEF OwnedBy, Inv, TypeOK
  <2>4. report'[r] = [report[r] EXCEPT !.token = held[h], !.shared = TRUE]
    BY <1>1, <2>2 DEF ShareUpdate, Inv, TypeOK, OwnedBy
  <2>5. report'[r] \in Row
    BY <2>2, <2>3, <2>4 DEF Row
  <2> QED
    BY <2>1, <2>3, <2>4, <2>5 DEF Row
<1>2. ASSUME NEW k \in Revokes, RevokeUpdate(k), target[k] = r, OwnedBy(r, caller[k])
      PROVE  /\ report[r] # None /\ report'[r] # None
             /\ report'[r].views = report[r].views
             /\ pc[k] = "update" /\ report'[r].token = None
  <2>1. report[r] \in Row
    BY <1>2 DEF OwnedBy, Inv, TypeOK
  <2>2. report'[r] = [report[r] EXCEPT !.token = None, !.shared = FALSE]
    BY <1>2 DEF RevokeUpdate, Inv, TypeOK, OwnedBy
  <2>3. report'[r] \in Row
    BY <2>1, <2>2 DEF Row
  <2>4. pc[k] = "update"
    BY <1>2 DEF RevokeUpdate
  <2> QED
    BY <2>1, <2>2, <2>3, <2>4 DEF Row
<1>3. ASSUME NEW s \in Saves, SaveInsert(s)
      PROVE  \/ report'[r] = report[r]
             \/ /\ report[r] = None /\ report'[r] # None
                /\ report'[r].views = 0 /\ report'[r].token = None
  <2>1. pc[s] = "insert" /\ report[s] = None
    BY <1>3 DEF SaveInsert, Inv, ReportOwned
  <2>2. caller[s] \in Workspaces /\ target[s] \in Analyses
    BY <2>1 DEF Inv, SaveOwned
  <2>3. report' = [report EXCEPT ![s] =
                    [ws |-> caller[s], trace |-> target[s], token |-> None,
                     shared |-> FALSE, views |-> 0]]
    BY <1>3 DEF SaveInsert
  <2>4. [ws |-> caller[s], trace |-> target[s], token |-> None,
         shared |-> FALSE, views |-> 0] \in Row
    BY <2>2 DEF Row
  <2> QED
    BY <2>1, <2>3, <2>4 DEF Inv, TypeOK
<1>4. ASSUME NEW h \in Shares, ShareUpdate(h), target[h] # r
      PROVE  report'[r] = report[r]
  BY <1>4, SharingSteps DEF ShareUpdate, Inv, TypeOK
<1>5. ASSUME NEW k \in Revokes, RevokeUpdate(k),
             target[k] # r \/ ~ OwnedBy(target[k], caller[k])
      PROVE  report'[r] = report[r]
  BY <1>5 DEF RevokeUpdate, Inv, TypeOK
<1>6. \/ UNCHANGED report
      \/ \E h \in Shares : ShareUpdate(h)
      \/ \E k \in Revokes : RevokeUpdate(k)
      \/ \E s \in Saves : SaveInsert(s)
  BY DEF Next, Arrival, Progress, AnalyzeRun, AnalyzeStore, SaveLookup, SaveUpsert,
         ShareRead, RevokeRead, ViewRead, ViewReply, Fail, Restart, vars, dbVars
<1> QED
  BY <1>1, <1>2, <1>3, <1>4, <1>5, <1>6

\* A report that has had one token and no revocation had so before: the condition is only ever
\* lost.
LEMMA SingleTokenBefore ==
    ASSUME Inv, IdleIsBlank, [Next]_vars, NEW r \in Saves, SingleToken(r)'
    PROVE  SingleToken(r)
<1>1. \A q \in Requests :
         \/ target[q] = None /\ held[q] = None
         \/ target'[q] = target[q] /\ held'[q] = held[q]
  BY RequestSteps DEF IdleIsBlank
<1> QED
  BY <1>1, NoneIsFresh DEF SingleToken, Requests

-----------------------------------------------------------------------------
(* The invariant of the counter.                                            *)

\* Nothing has come in, and nothing has been counted.
LEMMA InitVisit == Init => VisitInv
<1> SUFFICES ASSUME Init PROVE VisitInv
  OBVIOUS
<1>1. {v \in Views : pc[v] # "idle"} = {}
  BY DEF Init, Requests
<1>2. FinitelyMany
  BY <1>1, FS_EmptySet DEF FinitelyMany
<1> QED
  BY <1>2, NoneIsFresh
     DEF Init, VisitInv, IdleIsBlank, TokenMinted, VisitFound, CountsItsToken,
         ViewsMatchVisits, Requests

\* A token goes back to the request that minted it.
LEMMA MintedSteps ==
    ASSUME Inv, VisitInv, [Next]_vars
    PROVE  IdleIsBlank' /\ TokenMinted'
<1> USE NoneIsFresh, RequestsDisjoint
<1>1. IdleIsBlank'
  BY RequestSteps DEF VisitInv, IdleIsBlank
<1>2. \A t \in Shares, r \in Saves : Minted(t, r) => Minted(t, r)'
  BY RequestSteps DEF Minted, VisitInv, IdleIsBlank, Requests
<1>3. ASSUME NEW r \in Saves, report'[r] # None, report'[r].token # None
      PROVE  Minted(report[r].token, r)'
  <2>1. \/ report[r] # None /\ report'[r].token = report[r].token
        \/ \E h \in Shares : pc[h] = "update" /\ target[h] = r /\ report'[r].token = held[h]
    BY <1>3, QuietSteps, CountSteps
  <2>2. CASE report[r] # None /\ report'[r].token = report[r].token
    <3>1. report[r].token \in Shares
      BY <1>3, <2>2 DEF Inv, TypeOK, Row
    <3>2. Minted(report[r].token, r)
      BY <1>3, <2>2 DEF VisitInv, TokenMinted
    <3> QED
      BY <1>2, <2>2, <3>1, <3>2
  <2>3. CASE \E h \in Shares :
                pc[h] = "update" /\ target[h] = r /\ report'[r].token = held[h]
    <3>1. PICK h \in Shares :
                pc[h] = "update" /\ target[h] = r /\ report'[r].token = held[h]
      BY <2>3
    <3>2. held[h] \in Shares /\ Minted(held[h], r)
      BY <3>1 DEF VisitInv, TokenMinted, Inv, TokenOwned
    <3> QED
      BY <1>2, <3>1, <3>2
  <2> QED
    BY <2>1, <2>2, <2>3
<1>4. ASSUME NEW h \in Shares, pc'[h] = "update"
      PROVE  Minted(held[h], target[h])'
  <2>1. CASE pc[h] = "idle"
    <3>1. PICK w \in Workspaces, r \in Saves : ShareRead(h, w, r)
      BY <1>4, <2>1, ShareRequestSteps DEF InProgress
    <3>2. /\ report[r] # None /\ target'[h] = r
          /\ held'[h] = IF report[r].token # None THEN report[r].token ELSE h
      BY <1>4, <3>1 DEF ShareRead, OwnedBy, Arrive, Goto, Inv, TypeOK, Requests
    <3>3. CASE report[r].token # None
      <4>1. report[r].token \in Shares /\ Minted(report[r].token, r)
        BY <3>2, <3>3 DEF Inv, TypeOK, Row, VisitInv, TokenMinted
      <4> QED
        BY <1>2, <3>2, <3>3, <4>1
    <3> QED
      BY <3>2, <3>3 DEF Minted
  <2>2. CASE pc[h] # "idle"
    <3>1. pc[h] = "update" /\ held'[h] = held[h] /\ target'[h] = target[h]
      BY <1>4, <2>2, ShareRequestSteps, RequestSteps DEF ShareRead, Arrive, Finished, Requests
    <3>2. held[h] \in Shares /\ target[h] \in Saves /\ Minted(held[h], target[h])
      BY <3>1 DEF VisitInv, TokenMinted, Inv, TokenOwned
    <3> QED
      BY <1>2, <3>1, <3>2
  <2> QED
    BY <2>1, <2>2
<1> QED
  BY <1>1, <1>3, <1>4 DEF TokenMinted

\* A visit keeps the row it found and its token, and the row is never deleted.
LEMMA FoundSteps ==
    ASSUME Inv, VisitInv, [Next]_vars
    PROVE  VisitFound'
<1> USE NoneIsFresh, RequestsDisjoint
<1> SUFFICES ASSUME NEW v \in Views, held'[v] # None
             PROVE  /\ held'[v] \in Saves
                    /\ report'[held'[v]] # None
                    /\ target'[v] \in Shares
                    /\ Minted(target[v], held[v])'
  BY DEF VisitFound
<1>1. \A t \in Shares, r \in Saves : Minted(t, r) => Minted(t, r)'
  BY RequestSteps DEF Minted, VisitInv, IdleIsBlank, Requests
<1>2. \A r \in Saves : report[r] # None => report'[r] # None
  BY QuietSteps, CountSteps
<1>3. CASE pc[v] # "idle" \/ pc'[v] = "idle"
  <2>1. held'[v] = held[v] /\ target'[v] = target[v]
    BY <1>3, RequestSteps DEF Requests
  <2> QED
    BY <1>1, <1>2, <2>1 DEF VisitInv, VisitFound
<1>4. CASE pc[v] = "idle" /\ pc'[v] # "idle"
  <2>1. PICK t \in Shares : ViewRead(v, t)
    BY <1>4, VisitSteps DEF ViewCount, InProgress
  <2>2. held[v] = None
    BY <1>4 DEF VisitInv, IdleIsBlank, Requests
  <2>3. PICK r \in Saves : PublicRow(r, t) /\ held' = [held EXCEPT ![v] = r]
    BY <2>1, <2>2 DEF ViewRead
  <2>4. target' = [target EXCEPT ![v] = t] /\ report' = report
    BY <2>1 DEF ViewRead, Arrive, dbVars
  <2>5. report[r] # None /\ report[r].token = t
    BY <2>3 DEF PublicRow
  <2>6. Minted(t, r)
    BY <2>5 DEF VisitInv, TokenMinted, Requests
  <2>7. held'[v] = r /\ target'[v] = t
    BY <2>3, <2>4 DEF Inv, TypeOK, Requests
  <2> QED
    BY <1>1, <2>4, <2>5, <2>6, <2>7
<1> QED
  BY <1>3, <1>4

\* While a report has one token, no other token replaces the one a visit came with.
LEMMA CountsItsTokenSteps ==
    ASSUME Inv, VisitInv, [Next]_vars
    PROVE  CountsItsToken'
<1> USE NoneIsFresh, RequestsDisjoint
<1> SUFFICES ASSUME NEW v \in Views, pc'[v] = "count", SingleToken(held[v])'
             PROVE  report'[held'[v]].token = target'[v]
  BY DEF CountsItsToken
<1>1. CASE pc[v] = "idle"
  <2>1. PICK t \in Shares : ViewRead(v, t)
    BY <1>1, VisitSteps DEF ViewCount, InProgress
  <2>2. PICK r \in Saves : PublicRow(r, t) /\ held' = [held EXCEPT ![v] = r]
    BY <2>1 DEF ViewRead, Goto, Inv, TypeOK, Requests
  <2>3. target' = [target EXCEPT ![v] = t] /\ report' = report
    BY <2>1 DEF ViewRead, Arrive, dbVars
  <2>4. held'[v] = r /\ target'[v] = t
    BY <2>2, <2>3 DEF Inv, TypeOK, Requests
  <2> QED
    BY <2>2, <2>3, <2>4 DEF PublicRow
<1>2. CASE pc[v] # "idle"
  <2>1. held'[v] = held[v] /\ target'[v] = target[v]
    BY <1>2, RequestSteps DEF Requests
  <2>2. pc[v] = "count"
    BY <1>2, VisitSteps DEF ViewRead, Arrive, ViewCount, Goto, Inv, TypeOK, Requests
  <2>3. PICK r \in Saves : r = held[v]
    BY <2>2 DEF Inv, TypeOK
  <2>4. report[r] # None /\ target[v] \in Shares /\ Minted(target[v], r)
    BY <2>3 DEF VisitInv, VisitFound, Requests
  <2>5. SingleToken(r)'
    BY <2>1, <2>3
  <2>6. SingleToken(r)
    BY <2>5, SingleTokenBefore DEF VisitInv
  <2>7. report[r].token = target[v]
    BY <2>2, <2>6, <2>3 DEF VisitInv, CountsItsToken
  <2>8. \A k \in Revokes : target[k] # r
    BY <2>6 DEF SingleToken
  <2>9. \A h \in Shares : pc[h] = "update" /\ target[h] = r => held[h] = target[v]
    <3> SUFFICES ASSUME NEW h \in Shares, pc[h] = "update", target[h] = r
                 PROVE  held[h] = target[v]
      OBVIOUS
    <3>1. held[h] \in Shares /\ Minted(held[h], r)
      BY DEF VisitInv, TokenMinted, Inv, TokenOwned
    <3> QED
      BY <2>4, <2>6, <3>1 DEF SingleToken, Minted
  <2>10. report'[r].token = target[v]
    BY <2>4, <2>7, <2>8, <2>9, QuietSteps, CountSteps
  <2> QED
    BY <2>1, <2>10, <2>3
<1> QED
  BY <1>1, <1>2

\* A step brings in at most one visit.
LEMMA FinitelyManySteps ==
    ASSUME Inv, VisitInv, [Next]_vars
    PROVE  FinitelyMany'
<1> DEFINE Come == {v \in Views : pc[v] # "idle"}
<1> DEFINE New == {v \in Views : pc'[v] # "idle"}
<1>1. IsFiniteSet(Come)
  BY DEF VisitInv, FinitelyMany
<1>2. CASE New \subseteq Come
  BY <1>1, <1>2, FS_Subset DEF FinitelyMany
<1>3. CASE \E p \in Views : pc[p] = "idle" /\ pc'[p] # "idle"
  <2>1. PICK p \in Views : pc[p] = "idle" /\ pc'[p] # "idle"
    BY <1>3
  <2>2. New \subseteq Come \cup {p}
    BY <2>1, RequestSteps DEF Requests
  <2>3. IsFiniteSet(Come \cup {p})
    BY <1>1, FS_AddElement
  <2>4. IsFiniteSet(New)
    BY <2>2, <2>3, FS_Subset
  <2> QED
    BY <2>4 DEF FinitelyMany
<1> QED
  BY <1>2, <1>3

\* The visits that found a row are finitely many, so that they can be counted.
LEMMA VisitsFinite ==
    ASSUME Inv, VisitInv, NEW r \in Saves, NEW P, "idle" \notin P
    PROVE  /\ IsFiniteSet({v \in Views : held[v] = r /\ pc[v] \in P})
           /\ VisitsOf(r, P) \in Nat
<1>1. {v \in Views : held[v] = r /\ pc[v] \in P} \subseteq {v \in Views : pc[v] # "idle"}
  OBVIOUS
<1>2. IsFiniteSet({v \in Views : held[v] = r /\ pc[v] \in P})
  BY <1>1, FS_Subset DEF VisitInv, FinitelyMany
<1> QED
  BY <1>2, FS_CardinalityType DEF VisitsOf

\* The counter never runs ahead of the visits that found the row, and counts every visit that
\* replied as long as the report has had a single token.
LEMMA ViewsSteps ==
    ASSUME Inv, VisitInv, [Next]_vars, FinitelyMany'
    PROVE  ViewsMatchVisits'
<1> USE NoneIsFresh, RequestsDisjoint
<1> SUFFICES ASSUME NEW r \in Saves, report'[r] # None
             PROVE  /\ report'[r].views <= VisitsOf(r, {"reply", "done", "failed"})'
                    /\ SingleToken(r)' =>
                          report'[r].views >= VisitsOf(r, {"reply", "done"})'
  BY DEF ViewsMatchVisits
<1> DEFINE Upper == {v \in Views : held[v] = r /\ pc[v] \in {"reply", "done", "failed"}}
           NewUpper == {v \in Views : held'[v] = r /\ pc'[v] \in {"reply", "done", "failed"}}
           Lower == {v \in Views : held[v] = r /\ pc[v] \in {"reply", "done"}}
           NewLower == {v \in Views : held'[v] = r /\ pc'[v] \in {"reply", "done"}}
<1>1. /\ IsFiniteSet(Upper) /\ IsFiniteSet(Lower)
      /\ Cardinality(Upper) \in Nat /\ Cardinality(Lower) \in Nat
      /\ Cardinality(Upper) = VisitsOf(r, {"reply", "done", "failed"})
      /\ Cardinality(Lower) = VisitsOf(r, {"reply", "done"})
  BY VisitsFinite DEF VisitsOf
<1>2. /\ IsFiniteSet(NewUpper) /\ IsFiniteSet(NewLower)
      /\ Cardinality(NewUpper) \in Nat /\ Cardinality(NewLower) \in Nat
  <2>1. IsFiniteSet({v \in Views : pc'[v] # "idle"})
    BY DEF FinitelyMany
  <2>2. /\ NewUpper \subseteq {v \in Views : pc'[v] # "idle"}
        /\ NewLower \subseteq {v \in Views : pc'[v] # "idle"}
    OBVIOUS
  <2>3. IsFiniteSet(NewUpper) /\ IsFiniteSet(NewLower)
    BY <2>1, <2>2, FS_Subset
  <2> QED
    BY <2>3, FS_CardinalityType
<1>3. /\ VisitsOf(r, {"reply", "done", "failed"})' = Cardinality(NewUpper)
      /\ VisitsOf(r, {"reply", "done"})' = Cardinality(NewLower)
  BY DEF VisitsOf
<1>4. report'[r].views \in Nat /\ report'[r] \in Row
  <2>1. TypeOK'
    BY NextInv DEF Inv
  <2> QED
    BY <2>1 DEF TypeOK, Row
<1>5. SingleToken(r)' => SingleToken(r)
  BY SingleTokenBefore DEF VisitInv
<1>6. ASSUME report[r] # None
      PROVE  /\ report[r].views \in Nat
             /\ report[r].views <= Cardinality(Upper)
             /\ SingleToken(r) => report[r].views >= Cardinality(Lower)
  BY <1>1, <1>6 DEF VisitInv, ViewsMatchVisits, Inv, TypeOK, Row
<1>7. \A v \in Views : held[v] = r => report[r] # None
  BY DEF VisitInv, VisitFound, Requests
<1>8. \A v \in Views : held'[v] # held[v] => pc'[v] \in {"count", "notFound"} /\ pc[v] = "idle"
  <2> SUFFICES ASSUME NEW v \in Views, held'[v] # held[v]
               PROVE  pc'[v] \in {"count", "notFound"} /\ pc[v] = "idle"
    OBVIOUS
  <2>1. pc[v] = "idle" /\ pc'[v] # "idle"
    BY RequestSteps DEF Requests
  <2>2. PICK t \in Shares : ViewRead(v, t)
    BY <2>1, VisitSteps DEF ViewCount, InProgress
  <2> QED
    BY <2>1, <2>2 DEF ViewRead, Goto, Inv, TypeOK, Requests
<1>9. CASE \E v \in Views : ViewCount(v)
  <2>1. PICK v \in Views : ViewCount(v)
    BY <1>9
  <2>2. /\ pc[v] = "count" /\ pc' = [pc EXCEPT ![v] = "reply"]
        /\ UNCHANGED <<held, target>>
    BY <2>1 DEF ViewCount, Goto, reqVars
  <2>3. \A u \in Views : u # v => pc'[u] = pc[u]
    BY <2>2 DEF Inv, TypeOK, Requests
  <2>4. pc'[v] = "reply"
    BY <2>2 DEF Inv, TypeOK, Requests
  <2>5. CASE held[v] = r
    <3>1. NewUpper = Upper \cup {v} /\ v \notin Upper
      BY <2>2, <2>3, <2>4, <2>5
    <3>2. NewLower = Lower \cup {v} /\ v \notin Lower
      BY <2>2, <2>3, <2>4, <2>5
    <3>3. /\ Cardinality(NewUpper) = Cardinality(Upper) + 1
          /\ Cardinality(NewLower) = Cardinality(Lower) + 1
      BY <1>1, <3>1, <3>2, FS_AddElement
    <3>4. report[r] # None
      BY <1>7, <2>5
    <3>5. \/ report'[r].views = report[r].views /\ report[r].token # target[v]
          \/ report'[r].views = report[r].views + 1
      BY <2>1, <3>4, CountSteps
    <3>6. SingleToken(r) => report[r].token = target[v]
      BY <2>2, <2>5 DEF VisitInv, CountsItsToken
    <3> HIDE DEF Upper, NewUpper, Lower, NewLower
    <3> QED
      BY <1>1, <1>3, <1>5, <1>6, <3>3, <3>4, <3>5, <3>6
  <2>6. CASE held[v] # r
    <3>1. NewUpper = Upper /\ NewLower = Lower
      BY <2>2, <2>3, <2>6
    <3>2. ~ (report[r] # None /\ report[r].token = target[v])
      <4> SUFFICES ASSUME report[r] # None, report[r].token = target[v] PROVE FALSE
        OBVIOUS
      <4>1. held[v] \in Saves
        BY <2>2 DEF Inv, TypeOK
      <4>2. target[v] \in Shares /\ target[target[v]] = held[v]
        BY <4>1 DEF VisitInv, VisitFound, Minted, Requests
      <4> QED
        BY <2>6, <4>2 DEF Inv, TokenOpensOneReport, Requests
    <3>3. report'[r] = report[r]
      BY <2>1, <3>2, CountSteps
    <3> HIDE DEF Upper, NewUpper, Lower, NewLower
    <3> QED
      BY <1>3, <1>5, <1>6, <3>1, <3>3
  <2> QED
    BY <2>5, <2>6
<1>10. CASE \A v \in Views : ~ ViewCount(v)
  <2>1. \A v \in Views :
           \/ pc'[v] = pc[v]
           \/ pc[v] = "idle" /\ pc'[v] \in {"count", "notFound"}
           \/ pc[v] = "reply" /\ pc'[v] = "done"
           \/ pc[v] \in InProgress /\ pc'[v] = "failed"
    BY <1>10, VisitSteps DEF ViewRead, Goto, Arrive, Inv, TypeOK, Requests
  <2>2. Upper \subseteq NewUpper
    BY <1>8, <2>1 DEF InProgress
  <2>3. NewLower \subseteq Lower
    BY <1>8, <2>1 DEF InProgress
  <2>4. /\ Cardinality(Upper) <= Cardinality(NewUpper)
        /\ Cardinality(NewLower) <= Cardinality(Lower)
    BY <1>1, <1>2, <2>2, <2>3, FS_Subset
  <2>5. CASE report[r] # None
    <3>1. report'[r].views = report[r].views
      BY <1>10, <2>5, QuietSteps
    <3> HIDE DEF Upper, NewUpper, Lower, NewLower
    <3> QED
      BY <1>1, <1>2, <1>3, <1>5, <1>6, <2>4, <2>5, <3>1
  <2>6. CASE report[r] = None
    <3>1. report'[r].views = 0
      BY <1>10, <2>6, QuietSteps
    <3>2. Lower = {}
      BY <1>7, <2>6
    <3>3. Cardinality(NewLower) = 0
      BY <2>3, <3>2, FS_EmptySet
    <3> HIDE DEF Upper, NewUpper, Lower, NewLower
    <3> QED
      BY <1>2, <1>3, <3>1, <3>3
  <2> QED
    BY <2>5, <2>6
<1> QED
  BY <1>9, <1>10

\* The invariant of the counter is kept by every step.
LEMMA VisitStep == Inv /\ VisitInv /\ [Next]_vars => VisitInv'
BY MintedSteps, FoundSteps, CountsItsTokenSteps, FinitelyManySteps, ViewsSteps DEF VisitInv

\* The counter of a report's visits is never ahead of the visits that found it, and while the
\* report has had a single token it misses none that got their reply: whatever the requests, the
\* failures and the restarts in between.
THEOREM ViewsMatch == Spec => []ViewsMatchVisits
<1>1. Init => VisitInv
  BY InitVisit
<1>2. Inv /\ VisitInv /\ [Next]_vars => VisitInv'
  BY VisitStep
<1>3. VisitInv => ViewsMatchVisits
  BY DEF VisitInv
<1> QED
  BY <1>1, <1>2, <1>3, Invariance, PTL DEF Spec

=============================================================================
