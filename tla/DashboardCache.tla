---------------------------- MODULE DashboardCache ----------------------------
(****************************************************************************)
(* The launch dashboard cache of SpecPilotStore: a class-level dictionary   *)
(* that keeps computed dashboards for a time to live, drops a workspace's   *)
(* entries after the writes that concern them, and holds a bounded number   *)
(* of entries.  A dashboard is computed from the tables and from other      *)
(* dashboards, which may come from the cache in turn.                       *)
(*                                                                          *)
(* The dictionary is guarded by a lock that is held for a lookup, a         *)
(* remember or an invalidation only: a computation reads the tables and the *)
(* other dashboards between its own lookup and its own remember, and the    *)
(* other threads of the pool run in between.                                *)
(*                                                                          *)
(* Data is abstracted to when it was read: a dashboard carries the oldest   *)
(* version of the tables, and the earliest time, that any part of it shows. *)
(* Only the writes that invalidate advance the version; the other writes    *)
(* reach a dashboard when its entries expire, which the times say.          *)
(****************************************************************************)
EXTENDS Integers, Sequences, FiniteSets

CONSTANTS
    Workspaces,
    Dashboards,    \* cache keys: a dashboard of a workspace with a limit
    WorkspaceOf,   \* the workspace of a key
    DependsOn,     \* the dashboards a dashboard is computed from
    Level,         \* how many levels of dashboards a dashboard is made of
    Threads,       \* the server's thread pool
    TTL,           \* _LAUNCH_DASHBOARD_CACHE_TTL_SECONDS
    MaxItems,      \* _LAUNCH_DASHBOARD_CACHE_MAX_ITEMS
    MaxClock,      \* bound of the model: how far the clock runs
    MaxWrites,     \* bound of the model: how many writes a workspace makes
    None           \* no entry

ASSUME KeysAreTyped ==
    /\ WorkspaceOf \in [Dashboards -> Workspaces]
    /\ DependsOn \in [Dashboards -> SUBSET Dashboards]
    /\ \A k \in Dashboards : \A j \in DependsOn[k] : WorkspaceOf[j] = WorkspaceOf[k]
\* The methods do not call each other in a circle.
ASSUME LevelsDescend ==
    /\ Level \in [Dashboards -> Nat \ {0}]
    /\ \A k \in Dashboards : \A j \in DependsOn[k] : Level[j] < Level[k]
ASSUME BoundsArePositive ==
    TTL \in Nat /\ MaxItems \in Nat \ {0} /\ MaxClock \in Nat /\ MaxWrites \in Nat
ASSUME DashboardsAreFinite == IsFiniteSet(Dashboards)

VARIABLES
    clock,      \* monotonic()
    db,         \* per workspace, how many invalidating writes have committed
    returned,   \* per workspace, the newest version whose writer has returned
    cache,      \* the entries
    before,     \* the dictionary's insertion order: <<j, k>> when j comes before k
    stack,      \* per thread, the dashboards it is computing, innermost last
    writing     \* per thread, the write it has committed and not yet invalidated

vars == <<clock, db, returned, cache, before, stack, writing>>

Entry == [at : Nat, version : Nat, since : Nat]
Frame == [key : Dashboards, version : Nat, since : Nat, need : SUBSET Dashboards]
Write == [workspace : Workspaces, version : Nat]

ASSUME NoneIsNoValue == None \notin Entry \cup Write

TypeOK ==
    /\ clock \in 0..MaxClock
    /\ db \in [Workspaces -> 0..MaxWrites]
    /\ returned \in [Workspaces -> 0..MaxWrites]
    /\ cache \in [Dashboards -> Entry \cup {None}]
    /\ before \in SUBSET (Dashboards \X Dashboards)
    /\ stack \in [Threads -> Seq(Frame)]
    /\ writing \in [Threads -> Write \cup {None}]

Init ==
    /\ clock = 0
    /\ db = [w \in Workspaces |-> 0]
    /\ returned = [w \in Workspaces |-> 0]
    /\ cache = [k \in Dashboards |-> None]
    /\ before = {}
    /\ stack = [t \in Threads |-> <<>>]
    /\ writing = [t \in Threads |-> None]

-----------------------------------------------------------------------------

Cached == {k \in Dashboards : cache[k] # None}

\* The first key of the dictionary, and the order without some keys.
Oldest == {k \in Cached : \A j \in Cached : <<j, k>> \notin before}
Without(keys) == {p \in before : p[1] \notin keys /\ p[2] \notin keys}

-----------------------------------------------------------------------------
(* Mistakes the operators below could make.  No specification uses these:   *)
(* put in the place of the one they resemble, each is rejected by one of    *)
(* the properties.                                                          *)

\* The comparison with MaxItems is off by one.
RememberOneMore(k, version, since) ==
    LET dropped == IF Cardinality(Cached) > MaxItems THEN Oldest ELSE {}
    IN  /\ cache' = [j \in Dashboards |->
                       IF j = k THEN [at |-> clock, version |-> version, since |-> since]
                       ELSE IF j \in dropped THEN None
                       ELSE cache[j]]
        /\ before' = Without(dropped) \cup (Cached \ (dropped \cup {k})) \X {k}

\* The age of a dashboard is taken from its expiry instead of its start.
NewFrameFromExpiry(k) == [key |-> k, version |-> db[WorkspaceOf[k]],
                          since |-> clock - TTL, need |-> DependsOn[k]]

\* A hit extends the life of the entry.
UseAndExtend(t, j) ==
    /\ stack[t] # <<>>
    /\ LET n == Len(stack[t]) IN
       /\ j \in stack[t][n].need
       /\ cache[j] # None /\ clock - cache[j].at <= TTL
       /\ stack' = [stack EXCEPT ![t][n].need = @ \ {j}]
    /\ cache' = [cache EXCEPT ![j].at = clock]
    /\ UNCHANGED <<clock, db, returned, before, writing>>

\* The write drops the dashboards that read its tables, not those made of them.
InvalidateFirstLevel(t) ==
    /\ writing[t] # None
    /\ LET w    == writing[t].workspace
           keys == {k \in Dashboards : WorkspaceOf[k] = w /\ Level[k] = 1}
       IN  /\ cache' = [k \in Dashboards |-> IF k \in keys THEN None ELSE cache[k]]
           /\ before' = Without(keys)
           /\ returned' = [returned EXCEPT ![w] = writing[t].version]
    /\ writing' = [writing EXCEPT ![t] = None]
    /\ UNCHANGED <<clock, db, stack>>

-----------------------------------------------------------------------------
(* The dictionary.                                                          *)

\* _cached_launch_dashboard finds an entry that has not outlived the TTL.
Hit(k) == cache[k] # None /\ clock - cache[k].at <= TTL

\* It drops the entry it finds expired.
DropExpired(k) ==
    /\ cache' = [cache EXCEPT ![k] = None]
    /\ before' = Without({k})

\* _remember_launch_dashboard makes room by dropping the first key, also when
\* it is about to overwrite a key that is there.
Remember(k, version, since) ==
    LET dropped == IF Cardinality(Cached) >= MaxItems THEN Oldest ELSE {}
        kept    == Cached \ dropped
    IN  /\ cache' = [j \in Dashboards |->
                       IF j = k THEN [at |-> clock, version |-> version, since |-> since]
                       ELSE IF j \in dropped THEN None
                       ELSE cache[j]]
        /\ before' = Without(dropped) \cup (IF k \in kept THEN {} ELSE kept \X {k})

-----------------------------------------------------------------------------
(* Computing a dashboard.                                                   *)

\* The tables are read right after the miss, by autocommit SELECTs.
NewFrame(k) == [key |-> k, version |-> db[WorkspaceOf[k]], since |-> clock,
                need |-> DependsOn[k]]

Idle(t) == stack[t] = <<>> /\ writing[t] = None
Top(t) == stack[t][Len(stack[t])]
Below(t) == SubSeq(stack[t], 1, Len(stack[t]) - 1)

Min2(m, n) == IF m < n THEN m ELSE n

\* Frame f takes dashboard j, of which this version and time are known, over.
Uses(f, j, version, since) ==
    [f EXCEPT !.version = Min2(@, version), !.since = Min2(@, since), !.need = @ \ {j}]

\* A request for a dashboard that the cache does not have; one that it has
\* changes nothing.
Request(t, k) ==
    /\ Idle(t)
    /\ ~ Hit(k)
    /\ DropExpired(k)
    /\ stack' = [stack EXCEPT ![t] = <<NewFrame(k)>>]
    /\ UNCHANGED <<clock, db, returned, writing>>

\* The computation needs dashboard j and finds it in the cache.
UseCached(t, j) ==
    /\ stack[t] # <<>>
    /\ j \in Top(t).need
    /\ Hit(j)
    /\ stack' = [stack EXCEPT ![t] =
                   Append(Below(t), Uses(Top(t), j, cache[j].version, cache[j].since))]
    /\ UNCHANGED <<clock, db, returned, cache, before, writing>>

\* It does not find it, and computes it first.
Descend(t, j) ==
    /\ stack[t] # <<>>
    /\ j \in Top(t).need
    /\ ~ Hit(j)
    /\ DropExpired(j)
    /\ stack' = [stack EXCEPT ![t] = Append(stack[t], NewFrame(j))]
    /\ UNCHANGED <<clock, db, returned, writing>>

\* The innermost dashboard is complete: it is remembered and handed on.
Finish(t) ==
    /\ stack[t] # <<>>
    /\ Top(t).need = {}
    /\ LET f    == Top(t)
           rest == Below(t)
       IN  /\ Remember(f.key, f.version, f.since)
           /\ stack' = [stack EXCEPT ![t] =
                          IF rest = <<>> THEN <<>>
                          ELSE Append(SubSeq(rest, 1, Len(rest) - 1),
                                      Uses(rest[Len(rest)], f.key, f.version, f.since))]
    /\ UNCHANGED <<clock, db, returned, writing>>

-----------------------------------------------------------------------------
(* Writes, time, failures.                                                  *)

\* The write transaction commits when the with-block ends ...
Commit(t, w) ==
    /\ Idle(t)
    /\ db[w] < MaxWrites
    /\ db' = [db EXCEPT ![w] = @ + 1]
    /\ writing' = [writing EXCEPT ![t] = [workspace |-> w, version |-> db[w] + 1]]
    /\ UNCHANGED <<clock, returned, cache, before, stack>>

\* ... and then the workspace's entries are dropped and the request returns.
Invalidate(t) ==
    /\ writing[t] # None
    /\ LET w    == writing[t].workspace
           keys == {k \in Dashboards : WorkspaceOf[k] = w}
       IN  /\ cache' = [k \in Dashboards |-> IF k \in keys THEN None ELSE cache[k]]
           /\ before' = Without(keys)
           /\ returned' = [returned EXCEPT ![w] =
                             IF @ < writing[t].version THEN writing[t].version ELSE @]
    /\ writing' = [writing EXCEPT ![t] = None]
    /\ UNCHANGED <<clock, db, stack>>

\* A second passes.  A computation is short against the TTL: none is going on.
Tick ==
    /\ clock < MaxClock
    /\ \A t \in Threads : stack[t] = <<>>
    /\ clock' = clock + 1
    /\ UNCHANGED <<db, returned, cache, before, stack, writing>>

\* A statement of a computation fails: nothing is remembered.
Fail(t) ==
    /\ stack[t] # <<>>
    /\ stack' = [stack EXCEPT ![t] = <<>>]
    /\ UNCHANGED <<clock, db, returned, cache, before, writing>>

\* The server restarts: the dictionary and the threads start anew.
Restart ==
    /\ cache' = [k \in Dashboards |-> None]
    /\ before' = {}
    /\ stack' = [t \in Threads |-> <<>>]
    /\ writing' = [t \in Threads |-> None]
    /\ UNCHANGED <<clock, db, returned>>

Next ==
    \/ \E t \in Threads :
          \/ \E k \in Dashboards : Request(t, k) \/ UseCached(t, k) \/ Descend(t, k)
          \/ Finish(t)
          \/ \E w \in Workspaces : Commit(t, w)
          \/ Invalidate(t)
          \/ Fail(t)
    \/ Tick
    \/ Restart

Spec == Init /\ [][Next]_vars

-----------------------------------------------------------------------------
(* Properties.                                                              *)

\* The dictionary never holds more than MaxItems entries, whoever remembers and
\* whatever is overwritten, expired or invalidated.
CacheBounded == Cardinality(Cached) <= MaxItems

\* What a hit shows was read from the tables at most one TTL ago per level: an
\* entry may be computed from an entry that is about to expire.
StaleByLevel ==
    \A k \in Dashboards : Hit(k) => clock - cache[k].since <= TTL * Level[k]

\* One thread at a time: a dashboard served after a write has returned shows it,
\* at every level.
FreshAfterWrite ==
    \A k \in Dashboards : Hit(k) => cache[k].version >= returned[WorkspaceOf[k]]

\* The documents speak of a cache of 15 seconds: a hit shows nothing older than
\* the TTL.
ServedWithinTTL ==
    \A k \in Dashboards : Hit(k) => clock - cache[k].since <= TTL
=============================================================================
