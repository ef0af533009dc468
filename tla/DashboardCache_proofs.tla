------------------------ MODULE DashboardCache_proofs ------------------------
(* Proofs about DashboardCache, for any dashboards, threads, workspaces,    *)
(* time to live and number of entries.                                      *)
EXTENDS DashboardCache, FiniteSetTheorems, SequenceTheorems, TLAPS

-----------------------------------------------------------------------------
(* Stacks.                                                                  *)

LEMMA BelowTop ==
    ASSUME NEW s \in Seq(Frame), s # <<>>,
           NEW r, r = SubSeq(s, 1, Len(s) - 1)
    PROVE  /\ Len(s) \in Nat \ {0}
           /\ r \in Seq(Frame)
           /\ Len(r) = Len(s) - 1
           /\ \A i \in 1..(Len(s) - 1) : r[i] = s[i]
<1>1. Len(s) \in Nat \ {0}
  BY EmptySeq, LenProperties
<1> DEFINE n == Len(s) - 1
<1>2. 1 \in Int /\ n \in Int /\ \A i \in 1..n : s[i] \in Frame
  BY <1>1, ElementOfSeq
<1>3. /\ SubSeq(s, 1, n) \in Seq(Frame)
      /\ Len(SubSeq(s, 1, n)) = IF 1 <= n THEN n - 1 + 1 ELSE 0
      /\ \A i \in 1..(n - 1 + 1) : SubSeq(s, 1, n)[i] = s[1 + i - 1]
  <2> HIDE DEF n
  <2>1. ASSUME NEW m \in Int, NEW S, \A i \in m..n : s[i] \in S
        PROVE  /\ SubSeq(s, m, n) \in Seq(S)
               /\ Len(SubSeq(s, m, n)) = IF m <= n THEN n - m + 1 ELSE 0
               /\ \A i \in 1..(n - m + 1) : SubSeq(s, m, n)[i] = s[m + i - 1]
    BY <1>2, <2>1, SubSeqProperties
  <2> QED
    BY <1>2, <2>1
<1>4. Len(r) = Len(s) - 1
  <2>1. Len(r) = IF 1 <= n THEN n - 1 + 1 ELSE 0
    BY <1>3
  <2>2. n \in Nat
    BY <1>1
  <2> HIDE DEF n
  <2>3. Len(r) = n
    BY <2>1, <2>2
  <2> QED
    BY <2>3 DEF n
<1>5. ASSUME NEW i \in 1..n PROVE r[i] = s[i]
  <2>1. i \in 1..(n - 1 + 1) /\ 1 + i - 1 = i
    BY <1>1
  <2> QED
    BY <1>3, <2>1
<1> QED
  BY <1>1, <1>3, <1>4, <1>5

LEMMA ReplaceTop ==
    ASSUME NEW s \in Seq(Frame), s # <<>>, NEW f \in Frame,
           NEW r, r = Append(SubSeq(s, 1, Len(s) - 1), f)
    PROVE  r \in Seq(Frame)
<1> DEFINE low == SubSeq(s, 1, Len(s) - 1)
<1>1. /\ low \in Seq(Frame)
      /\ Len(s) \in Nat \ {0}
      /\ Len(low) = Len(s) - 1
      /\ \A i \in 1..(Len(s) - 1) : low[i] = s[i]
  BY BelowTop
<1> HIDE DEF low
<1> QED
  BY <1>1, AppendProperties

LEMMA PopStack ==
    ASSUME NEW s \in Seq(Frame), s # <<>>,
           NEW r, r = SubSeq(s, 1, Len(s) - 1)
    PROVE  /\ r \in Seq(Frame)
           /\ Len(r) = Len(s) - 1
           /\ r = <<>> <=> Len(s) = 1
           /\ \A i \in 1..(Len(s) - 1) : r[i] = s[i]
<1>1. /\ r \in Seq(Frame)
      /\ Len(s) \in Nat \ {0}
      /\ Len(r) = Len(s) - 1
      /\ \A i \in 1..(Len(s) - 1) : r[i] = s[i]
  BY BelowTop
<1>2. r = <<>> <=> Len(r) = 0
  BY <1>1, EmptySeq
<1> QED
  BY <1>1, <1>2

\* What a step leaves of a stack: it starts one, replaces its top, pushes a
\* frame, pops one into the frame below, or clears it.
LEMMA TopFrame ==
    ASSUME TypeOK, NEW t \in Threads, stack[t] # <<>>
    PROVE  /\ Len(stack[t]) \in Nat \ {0}
           /\ Top(t) \in Frame
           /\ Top(t) = stack[t][Len(stack[t])]
BY EmptySeq, LenProperties, ElementOfSeq DEF TypeOK, Top

LEMMA UsesFrame ==
    ASSUME NEW f \in Frame, NEW j, NEW version \in Nat, NEW since \in Nat
    PROVE  /\ Uses(f, j, version, since) \in Frame
           /\ Uses(f, j, version, since).key = f.key
           /\ Uses(f, j, version, since).version = Min2(f.version, version)
           /\ Uses(f, j, version, since).since = Min2(f.since, since)
           /\ Uses(f, j, version, since).need = f.need \ {j}
BY DEF Uses, Frame, Min2

LEMMA UsesKeyAndNeed ==
    ASSUME NEW f \in Frame, NEW j, NEW version, NEW since
    PROVE  /\ Uses(f, j, version, since).key = f.key
           /\ Uses(f, j, version, since).need = f.need \ {j}
BY DEF Uses, Frame

LEMMA NewFrameIsFrame ==
    ASSUME TypeOK, NEW k \in Dashboards
    PROVE  NewFrame(k) \in Frame
BY KeysAreTyped, BoundsArePositive DEF TypeOK, NewFrame, Frame

LEMMA HitIsEntry ==
    ASSUME TypeOK, NEW k \in Dashboards, Hit(k)
    PROVE  cache[k] \in Entry /\ clock - cache[k].at <= TTL
BY DEF TypeOK, Hit

-----------------------------------------------------------------------------
(* The dictionary stays within its bound.                                   *)

\* The insertion order is one of the entries, and has a first one in every set
\* of them; so eviction, which drops the first, drops something.
WellOrdered ==
    /\ before \subseteq Cached \X Cached
    /\ \A keys \in SUBSET Cached :
          keys # {} => \E k \in keys : \A j \in keys : <<j, k>> \notin before

\* A write that is still to invalidate is in the tables.
WriteCommitted ==
    \A t \in Threads :
        writing[t] # None => writing[t].version <= db[writing[t].workspace]

BoundInv == TypeOK /\ WriteCommitted /\ WellOrdered /\ CacheBounded

LEMMA CachedIsFinite == IsFiniteSet(Cached) /\ Cardinality(Cached) \in Nat
BY DashboardsAreFinite, FS_Subset, FS_CardinalityType DEF Cached

LEMMA CardinalityMonotonic ==
    ASSUME NEW keys \in SUBSET Cached
    PROVE  Cardinality(keys) \in Nat /\ Cardinality(keys) <= Cardinality(Cached)
BY CachedIsFinite, FS_Subset, FS_CardinalityType

\* Dropping keys: expiry, invalidation and restart.
LEMMA ForgetKeepsBound ==
    ASSUME WellOrdered, CacheBounded, Cached' \subseteq Cached,
           before' \subseteq before, before' \subseteq Cached' \X Cached'
    PROVE  WellOrdered' /\ CacheBounded'
<1>1. Cardinality(Cached') \in Nat /\ Cardinality(Cached') <= Cardinality(Cached)
  BY CardinalityMonotonic
<1>2. CacheBounded'
  BY <1>1, CachedIsFinite, BoundsArePositive DEF CacheBounded
<1>3. WellOrdered'
  BY DEF WellOrdered
<1> QED
  BY <1>2, <1>3

LEMMA DropExpiredKeepsBound ==
    ASSUME TypeOK, WellOrdered, CacheBounded, NEW k \in Dashboards, DropExpired(k)
    PROVE  /\ cache' \in [Dashboards -> Entry \cup {None}]
           /\ before' \in SUBSET (Dashboards \X Dashboards)
           /\ WellOrdered' /\ CacheBounded'
<1>1. cache' \in [Dashboards -> Entry \cup {None}]
  BY DEF DropExpired, TypeOK
<1>2. before' \subseteq before
  BY DEF DropExpired, Without
<1>3. Cached' \subseteq Cached
  BY DEF DropExpired, Cached, TypeOK
<1>4. before' \subseteq Cached' \X Cached'
  BY DEF DropExpired, Without, Cached, TypeOK, WellOrdered
<1> QED
  BY <1>1, <1>2, <1>3, <1>4, ForgetKeepsBound DEF TypeOK

\* Remembering: one entry comes, and when the dictionary is full one goes.
LEMMA RememberKeepsBound ==
    ASSUME TypeOK, WellOrdered, CacheBounded,
           NEW k \in Dashboards, NEW version \in Nat, NEW since \in Nat,
           Remember(k, version, since)
    PROVE  /\ cache' \in [Dashboards -> Entry \cup {None}]
           /\ before' \in SUBSET (Dashboards \X Dashboards)
           /\ WellOrdered' /\ CacheBounded'
<1> DEFINE dropped == IF Cardinality(Cached) >= MaxItems THEN Oldest ELSE {}
           kept    == Cached \ dropped
           entry   == [at |-> clock, version |-> version, since |-> since]
<1>1. /\ cache' = [j \in Dashboards |-> IF j = k THEN entry
                                       ELSE IF j \in dropped THEN None ELSE cache[j]]
      /\ before' = Without(dropped) \cup (IF k \in kept THEN {} ELSE kept \X {k})
  BY DEF Remember
<1>2. entry \in Entry /\ entry # None
  BY NoneIsNoValue, BoundsArePositive DEF TypeOK, Entry
<1>3. dropped \subseteq Cached /\ Cached \subseteq Dashboards
  BY DEF Oldest, Cached
<1> HIDE DEF dropped, entry
<1>4. cache' \in [Dashboards -> Entry \cup {None}]
  BY <1>1, <1>2 DEF TypeOK
<1>5. before' \in SUBSET (Dashboards \X Dashboards)
  BY <1>1, <1>3 DEF TypeOK, Without
<1>6. Cached' = kept \cup {k}
  BY <1>1, <1>2, <1>3 DEF Cached, TypeOK
<1>7. WellOrdered'
  <2>1. before' \subseteq Cached' \X Cached'
    BY <1>1, <1>6 DEF Without, WellOrdered
  <2> SUFFICES ASSUME NEW keys \in SUBSET (kept \cup {k}), keys # {}
               PROVE  \E i \in keys : \A j \in keys : <<j, i>> \notin before'
    BY <1>6, <2>1 DEF WellOrdered
  <2>2. CASE k \in kept
    BY <2>2, <1>1, <1>3 DEF WellOrdered, Without
  <2>3. CASE k \notin kept /\ keys = {k}
    BY <2>3, <1>1 DEF WellOrdered, Without
  <2>4. CASE k \notin kept /\ keys # {k}
    <3>1. keys \ {k} # {} /\ keys \ {k} \in SUBSET Cached
      BY <2>4
    <3>2. PICK i \in keys \ {k} : \A j \in keys \ {k} : <<j, i>> \notin before
      BY <3>1 DEF WellOrdered
    <3>3. <<k, i>> \notin Without(dropped)
      BY <2>4 DEF WellOrdered, Without
    <3>4. \A j \in keys : <<j, i>> \notin before'
      BY <3>2, <3>3, <2>4, <1>1 DEF Without
    <3> QED
      BY <3>2, <3>4
  <2> QED
    BY <2>2, <2>3, <2>4
<1>8. CacheBounded'
  <2>1. /\ IsFiniteSet(kept) /\ Cardinality(kept) \in Nat
        /\ Cardinality(kept) <= Cardinality(Cached)
    BY CardinalityMonotonic, CachedIsFinite, FS_Subset
  <2>2. Cardinality(kept) < MaxItems
    <3>1. CASE Cardinality(Cached) < MaxItems
      BY <3>1, <2>1, CachedIsFinite, BoundsArePositive
    <3>2. CASE Cardinality(Cached) >= MaxItems
      <4>1. Cached # {}
        BY <3>2, FS_EmptySet, BoundsArePositive
      <4>2. PICK i \in Cached : \A j \in Cached : <<j, i>> \notin before
        BY <4>1 DEF WellOrdered
      <4>3. i \in dropped
        BY <4>2, <3>2 DEF dropped, Oldest
      <4>4. Cardinality(Cached \ {i}) = Cardinality(Cached) - 1 /\ IsFiniteSet(Cached \ {i})
        BY CachedIsFinite, FS_RemoveElement
      <4>5. Cardinality(kept) <= Cardinality(Cached \ {i})
        BY <4>3, <4>4, FS_Subset
      <4> QED
        BY <4>4, <4>5, <2>1, CachedIsFinite, BoundsArePositive DEF CacheBounded
    <3> QED
      BY <3>1, <3>2, CachedIsFinite, BoundsArePositive
  <2> HIDE DEF kept
  <2>3. Cardinality(kept \cup {k}) <= Cardinality(kept) + 1
    BY <2>1, FS_AddElement
  <2>4. Cardinality(kept \cup {k}) \in Nat
    BY <2>1, FS_AddElement, FS_CardinalityType
  <2> QED
    BY <1>6, <2>1, <2>2, <2>3, <2>4, BoundsArePositive DEF CacheBounded
<1> QED
  BY <1>4, <1>5, <1>7, <1>8

LEMMA InitBound == Init => BoundInv
<1> SUFFICES ASSUME Init PROVE BoundInv
  OBVIOUS
<1>1. Cached = {}
  BY DEF Init, Cached
<1>2. CacheBounded
  BY <1>1, FS_EmptySet, BoundsArePositive DEF CacheBounded
<1>3. TypeOK
  BY BoundsArePositive, EmptySeq DEF Init, TypeOK
<1> QED
  BY <1>1, <1>2, <1>3 DEF BoundInv, WriteCommitted, WellOrdered, Init

LEMMA NextBound == BoundInv /\ [Next]_vars => BoundInv'
<1> SUFFICES ASSUME BoundInv, [Next]_vars PROVE BoundInv'
  OBVIOUS
<1> USE DEF BoundInv
<1>1. ASSUME NEW t \in Threads, NEW k \in Dashboards, Request(t, k) PROVE BoundInv'
  <2>1. NewFrame(k) \in Frame
    BY NewFrameIsFrame
  <2>2. <<NewFrame(k)>> \in Seq(Frame)
    BY <2>1
  <2>3. stack' \in [Threads -> Seq(Frame)]
    BY <1>1, <2>2 DEF Request, TypeOK
  <2> QED
    BY <1>1, <2>3, DropExpiredKeepsBound DEF Request, TypeOK, WriteCommitted
<1>2. ASSUME NEW t \in Threads, NEW j \in Dashboards, UseCached(t, j) PROVE BoundInv'
  <2>1. Uses(Top(t), j, cache[j].version, cache[j].since) \in Frame
    <3>1. Top(t) \in Frame
      BY <1>2, TopFrame DEF UseCached
    <3>2. cache[j].version \in Nat /\ cache[j].since \in Nat
      BY <1>2, HitIsEntry DEF UseCached, Entry
    <3> QED
      BY <3>1, <3>2, UsesFrame
  <2>2. stack' \in [Threads -> Seq(Frame)]
    BY <1>2, <2>1, ReplaceTop DEF UseCached, Below, TypeOK
  <2>3. UNCHANGED <<clock, db, returned, cache, before, writing>>
    BY <1>2 DEF UseCached
  <2> QED
    BY <2>2, <2>3 DEF TypeOK, WriteCommitted, WellOrdered, CacheBounded, Cached
<1>3. ASSUME NEW t \in Threads, NEW j \in Dashboards, Descend(t, j) PROVE BoundInv'
  <2>1. NewFrame(j) \in Frame
    BY NewFrameIsFrame
  <2>2. stack' \in [Threads -> Seq(Frame)]
    BY <1>3, <2>1, AppendProperties DEF Descend, TypeOK
  <2> QED
    BY <1>3, <2>2, DropExpiredKeepsBound DEF Descend, TypeOK, WriteCommitted
<1>4. ASSUME NEW t \in Threads, Finish(t) PROVE BoundInv'
  <2> DEFINE f == Top(t)
             rest == Below(t)
  <2>1. f \in Frame /\ f.key \in Dashboards /\ f.version \in Nat /\ f.since \in Nat
    BY <1>4, TopFrame DEF Finish, Frame
  <2>2. rest \in Seq(Frame)
    BY <1>4, PopStack DEF Finish, Below, TypeOK
  <2>3. rest # <<>> => Uses(rest[Len(rest)], f.key, f.version, f.since) \in Frame
    <3> HIDE DEF rest, f
    <3>1. rest # <<>> => rest[Len(rest)] \in Frame
      BY <2>2, EmptySeq, LenProperties, ElementOfSeq
    <3> QED
      BY <2>1, <3>1, UsesFrame
  <2>4. rest # <<>> =>
          Append(SubSeq(rest, 1, Len(rest) - 1),
                 Uses(rest[Len(rest)], f.key, f.version, f.since)) \in Seq(Frame)
    <3> HIDE DEF rest, f
    <3> QED
      BY <2>2, <2>3, ReplaceTop
  <2>5. stack' \in [Threads -> Seq(Frame)]
    BY <1>4, <2>4, EmptySeq DEF Finish, TypeOK
  <2>6. Remember(f.key, f.version, f.since) /\ UNCHANGED <<clock, db, returned, writing>>
    BY <1>4 DEF Finish
  <2> HIDE DEF f, rest
  <2>7. /\ cache' \in [Dashboards -> Entry \cup {None}]
        /\ before' \in SUBSET (Dashboards \X Dashboards)
        /\ WellOrdered' /\ CacheBounded'
    BY <2>1, <2>6, RememberKeepsBound
  <2> QED
    BY <2>5, <2>6, <2>7 DEF TypeOK, WriteCommitted
<1>5. ASSUME NEW t \in Threads, NEW w \in Workspaces, Commit(t, w) PROVE BoundInv'
  <2>1. TypeOK'
    BY <1>5, BoundsArePositive DEF Commit, TypeOK, Write
  <2>2. WriteCommitted'
    <3> SUFFICES ASSUME NEW u \in Threads, writing'[u] # None
                 PROVE  writing'[u].version <= db'[writing'[u].workspace]
      BY DEF WriteCommitted
    <3>1. CASE u = t
      BY <1>5, <3>1 DEF Commit, TypeOK
    <3>2. CASE u # t
      <4>1. writing'[u] = writing[u] /\ writing[u] \in Write
        BY <1>5, <3>2 DEF Commit, TypeOK
      <4>2. \A v \in Workspaces : db[v] <= db'[v] /\ db[v] \in Nat /\ db'[v] \in Nat
        BY <1>5, BoundsArePositive DEF Commit, TypeOK
      <4>3. writing[u].version <= db[writing[u].workspace]
        BY <4>1 DEF WriteCommitted
      <4> QED
        BY <4>1, <4>2, <4>3 DEF Write
    <3> QED
      BY <3>1, <3>2
  <2> QED
    BY <1>5, <2>1, <2>2 DEF Commit, WellOrdered, CacheBounded, Cached
<1>6. ASSUME NEW t \in Threads, Invalidate(t) PROVE BoundInv'
  <2> DEFINE w    == writing[t].workspace
             keys == {k \in Dashboards : WorkspaceOf[k] = w}
  <2>1. /\ cache' = [k \in Dashboards |-> IF k \in keys THEN None ELSE cache[k]]
        /\ before' = Without(keys)
        /\ returned' = [returned EXCEPT ![w] =
                          IF @ < writing[t].version THEN writing[t].version ELSE @]
        /\ writing' = [writing EXCEPT ![t] = None]
        /\ UNCHANGED <<clock, db, stack>>
    BY <1>6 DEF Invalidate
  <2>2. /\ writing[t] \in Write
        /\ writing[t].version \in 0..MaxWrites
    BY <1>6, BoundsArePositive DEF Invalidate, TypeOK, WriteCommitted, Write
  <2> HIDE DEF w, keys
  <2>3. TypeOK'
    BY <2>1, <2>2 DEF TypeOK, Without
  <2>4. WriteCommitted'
    BY <2>1 DEF WriteCommitted, TypeOK
  <2>5. Cached' \subseteq Cached /\ before' \subseteq before
    BY <2>1 DEF Cached, TypeOK, Without
  <2>6. before' \subseteq Cached' \X Cached'
    BY <2>1 DEF Cached, TypeOK, Without, WellOrdered
  <2> QED
    BY <2>3, <2>4, <2>5, <2>6, ForgetKeepsBound
<1>7. ASSUME NEW t \in Threads, Fail(t) PROVE BoundInv'
  BY <1>7, EmptySeq DEF Fail, TypeOK, WriteCommitted, WellOrdered, CacheBounded, Cached
<1>8. CASE Tick
  BY <1>8, BoundsArePositive DEF Tick, TypeOK, WriteCommitted, WellOrdered, CacheBounded, Cached
<1>9. CASE Restart
  <2>1. Cached' = {} /\ before' = {}
    BY <1>9 DEF Restart, Cached
  <2>2. TypeOK' /\ WriteCommitted'
    BY <1>9, EmptySeq DEF Restart, TypeOK, WriteCommitted
  <2> QED
    BY <2>1, <2>2, ForgetKeepsBound
<1>10. CASE UNCHANGED vars
  BY <1>10 DEF vars, TypeOK, WriteCommitted, WellOrdered, CacheBounded, Cached
<1> QED
  BY <1>1, <1>2, <1>3, <1>4, <1>5, <1>6, <1>7, <1>8, <1>9, <1>10 DEF Next

\* Whatever the requests, writes, failures and restarts, every variable keeps
\* its type: in particular a remembered dashboard is one that was computed.
THEOREM TypeCorrect == Spec => []TypeOK
<1>1. BoundInv => TypeOK
  BY DEF BoundInv
<1> QED
  BY <1>1, InitBound, NextBound, PTL DEF Spec

\* The dictionary never holds more than MaxItems entries, with any number of
\* threads that remember at the same time.
THEOREM CacheStaysBounded == Spec => []CacheBounded
<1>1. BoundInv => CacheBounded
  BY DEF BoundInv
<1> QED
  BY <1>1, InitBound, NextBound, PTL DEF Spec

-----------------------------------------------------------------------------
(* Age.                                                                     *)

\* A dashboard completed now is at most one TTL old per level below its own.
Recent(k, since, now) == since <= now /\ now - since <= TTL * (Level[k] - 1)

EntriesRecent ==
    \A k \in Cached : cache[k].at <= clock /\ Recent(k, cache[k].since, cache[k].at)

\* A computation uses only what its dashboard depends on, and the frame above it
\* computes one of the dashboards it still needs.
StackRecent(s, now) ==
    /\ \A i \in 1..Len(s) :
          /\ Recent(s[i].key, s[i].since, now)
          /\ s[i].need \subseteq DependsOn[s[i].key]
    /\ \A i \in 1..(Len(s) - 1) : s[i + 1].key \in s[i].need

AgeInv == TypeOK /\ EntriesRecent /\ \A t \in Threads : StackRecent(stack[t], clock)

LEMMA ScaledOrder ==
    ASSUME NEW n \in Nat, NEW a \in Int, NEW b \in Int, a <= b
    PROVE  n * a \in Int /\ n * b \in Int /\ n * a <= n * b /\ n * (a + 1) = n * a + n
OBVIOUS

\* One level up, one TTL more.
LEMMA RecentAbove ==
    ASSUME NEW k \in Dashboards, NEW j \in DependsOn[k],
           NEW since \in Nat, NEW at \in Nat, NEW now \in Nat,
           at <= now, now - at <= TTL, Recent(j, since, at)
    PROVE  Recent(k, since, now)
<1>1. /\ j \in Dashboards /\ Level[j] \in Nat \ {0} /\ Level[k] \in Nat \ {0}
      /\ Level[j] < Level[k] /\ TTL \in Nat
  BY KeysAreTyped, LevelsDescend, BoundsArePositive
<1>2. /\ TTL * Level[j] <= TTL * (Level[k] - 1)
      /\ TTL * (Level[j] - 1 + 1) = TTL * (Level[j] - 1) + TTL
      /\ TTL * (Level[j] - 1) \in Int /\ TTL * (Level[k] - 1) \in Int
      /\ TTL * Level[j] \in Int
  BY <1>1, ScaledOrder
<1>3. Level[j] - 1 + 1 = Level[j]
  BY <1>1
<1> QED
  BY <1>1, <1>2, <1>3 DEF Recent

LEMMA RecentAtOnce ==
    ASSUME NEW k \in Dashboards, NEW now \in Nat
    PROVE  Recent(k, now, now)
<1>1. Level[k] - 1 \in Nat /\ TTL \in Nat
  BY LevelsDescend, BoundsArePositive
<1>2. 0 <= TTL * (Level[k] - 1) /\ TTL * (Level[k] - 1) \in Int
  BY <1>1
<1> QED
  BY <1>2 DEF Recent

\* A frame that takes over something recent stays recent.
LEMMA UsesRecent ==
    ASSUME NEW f \in Frame, NEW j, NEW version \in Nat, NEW since \in Nat, NEW now \in Nat,
           Recent(f.key, f.since, now), Recent(f.key, since, now)
    PROVE  Recent(Uses(f, j, version, since).key, Uses(f, j, version, since).since, now)
<1>1. /\ Uses(f, j, version, since).key = f.key
      /\ Uses(f, j, version, since).since = Min2(f.since, since)
  BY DEF Uses, Frame
<1>2. Min2(f.since, since) \in {f.since, since}
  BY DEF Min2, Frame
<1> QED
  BY <1>1, <1>2

LEMMA ReplaceTopRecent ==
    ASSUME NEW s \in Seq(Frame), s # <<>>, NEW now, NEW f \in Frame,
           NEW r, r = Append(SubSeq(s, 1, Len(s) - 1), f)
    PROVE  /\ StackRecent(s, now)
           /\ f.key = s[Len(s)].key
           /\ f.need \subseteq s[Len(s)].need
           /\ Recent(f.key, f.since, now)
           => StackRecent(r, now)
<1>1. /\ Len(r) = Len(s) /\ Len(s) \in Nat \ {0}
      /\ r[Len(s)] = f
      /\ \A i \in 1..(Len(s) - 1) : r[i] = s[i]
  <2> DEFINE low == SubSeq(s, 1, Len(s) - 1)
  <2>1. /\ low \in Seq(Frame)
        /\ Len(s) \in Nat \ {0}
        /\ Len(low) = Len(s) - 1
        /\ \A i \in 1..(Len(s) - 1) : low[i] = s[i]
    BY BelowTop
  <2> HIDE DEF low
  <2> QED
    BY <2>1, AppendProperties DEF low
<1> HAVE /\ StackRecent(s, now)
         /\ f.key = s[Len(s)].key
         /\ f.need \subseteq s[Len(s)].need
         /\ Recent(f.key, f.since, now)
<1> DEFINE n == Len(s)
<1> HIDE DEF n
<1>2. /\ n \in Nat \ {0} /\ Len(r) = n
      /\ r[n] = f /\ \A i \in 1..(n - 1) : r[i] = s[i]
      /\ f.key = s[n].key /\ f.need \subseteq s[n].need
      /\ \A i \in 1..n : Recent(s[i].key, s[i].since, now) /\ s[i].need \subseteq DependsOn[s[i].key]
      /\ \A i \in 1..(n - 1) : s[i + 1].key \in s[i].need
  BY <1>1 DEF n, StackRecent
<1>3. ASSUME NEW i \in 1..n
      PROVE  Recent(r[i].key, r[i].since, now) /\ r[i].need \subseteq DependsOn[r[i].key]
  <2>1. CASE i = n
    BY <1>2, <2>1
  <2>2. CASE i # n
    BY <1>2, <2>2
  <2> QED
    BY <2>1, <2>2
<1>4. ASSUME NEW i \in 1..(n - 1) PROVE r[i + 1].key \in r[i].need
  <2>1. CASE i + 1 = n
    BY <1>2, <2>1
  <2>2. CASE i + 1 # n
    <3>1. i \in 1..(n - 1) /\ i + 1 \in 1..(n - 1)
      BY <1>2, <2>2
    <3> QED
      BY <1>2, <3>1
  <2> QED
    BY <2>1, <2>2
<1> QED
  BY <1>2, <1>3, <1>4 DEF StackRecent

LEMMA PopRecent ==
    ASSUME NEW s \in Seq(Frame), s # <<>>, NEW now, StackRecent(s, now),
           NEW r, r = SubSeq(s, 1, Len(s) - 1)
    PROVE  StackRecent(r, now)
<1>1. /\ Len(r) = Len(s) - 1 /\ Len(s) \in Nat \ {0}
      /\ \A i \in 1..(Len(s) - 1) : r[i] = s[i]
  BY BelowTop
<1> QED
  BY <1>1 DEF StackRecent

LEMMA PushRecent ==
    ASSUME NEW s \in Seq(Frame), s # <<>>, NEW now, StackRecent(s, now),
           NEW f \in Frame, f.key \in s[Len(s)].need, f.need \subseteq DependsOn[f.key],
           Recent(f.key, f.since, now)
    PROVE  StackRecent(Append(s, f), now)
<1> DEFINE r == Append(s, f)
           n == Len(s)
<1>1. /\ n \in Nat \ {0} /\ Len(r) = n + 1 /\ r[n + 1] = f /\ \A i \in 1..n : r[i] = s[i]
  BY BelowTop, AppendProperties
<1>2. /\ f.key \in s[n].need
      /\ \A i \in 1..n : Recent(s[i].key, s[i].since, now) /\ s[i].need \subseteq DependsOn[s[i].key]
      /\ \A i \in 1..(n - 1) : s[i + 1].key \in s[i].need
  BY DEF StackRecent
<1> HIDE DEF r, n
<1>3. ASSUME NEW i \in 1..(n + 1)
      PROVE  Recent(r[i].key, r[i].since, now) /\ r[i].need \subseteq DependsOn[r[i].key]
  <2>1. CASE i = n + 1
    BY <1>1, <2>1
  <2>2. CASE i # n + 1
    BY <1>1, <1>2, <2>2
  <2> QED
    BY <2>1, <2>2
<1>4. ASSUME NEW i \in 1..n PROVE r[i + 1].key \in r[i].need
  <2>1. CASE i = n
    BY <1>1, <1>2, <2>1
  <2>2. CASE i # n
    <3>1. i \in 1..(n - 1) /\ i + 1 \in 1..n
      BY <1>1, <2>2
    <3> QED
      BY <1>1, <1>2, <3>1
  <2> QED
    BY <2>1, <2>2
<1>5. StackRecent(r, now)
  BY <1>1, <1>3, <1>4 DEF StackRecent
<1> QED
  BY <1>5 DEF r

LEMMA InitAge == Init => AgeInv
<1> SUFFICES ASSUME Init PROVE AgeInv
  OBVIOUS
<1>1. TypeOK
  BY InitBound DEF BoundInv
<1>2. Cached = {}
  BY DEF Init, Cached
<1>3. \A t \in Threads : Len(stack[t]) = 0
  BY EmptySeq DEF Init
<1> QED
  BY <1>1, <1>2, <1>3 DEF AgeInv, EntriesRecent, StackRecent

LEMMA NextAge == AgeInv /\ BoundInv /\ [Next]_vars => AgeInv'
<1> SUFFICES ASSUME AgeInv, BoundInv, [Next]_vars PROVE AgeInv'
  OBVIOUS
<1>t. TypeOK /\ TypeOK'
  BY NextBound DEF BoundInv
<1>c. clock \in Nat /\ clock' \in Nat
  BY <1>t, BoundsArePositive DEF TypeOK
<1> USE DEF AgeInv
\* An empty stack, a stack that starts, and the stacks of the other threads.
<1>e. ASSUME NEW now PROVE StackRecent(<<>>, now)
  BY EmptySeq DEF StackRecent
<1>n. ASSUME NEW k \in Dashboards
      PROVE  /\ Recent(NewFrame(k).key, NewFrame(k).since, clock)
             /\ NewFrame(k).need \subseteq DependsOn[NewFrame(k).key]
             /\ NewFrame(k).key = k
  BY <1>c, RecentAtOnce DEF NewFrame
<1>o. ASSUME NEW t \in Threads, clock' = clock, stack' = [stack EXCEPT ![t] = stack'[t]],
             StackRecent(stack'[t], clock)
      PROVE  \A u \in Threads : StackRecent(stack'[u], clock)
  <2> SUFFICES ASSUME NEW u \in Threads PROVE StackRecent(stack'[u], clock)
    OBVIOUS
  <2>1. CASE u = t
    BY <2>1, <1>o
  <2>2. CASE u # t
    BY <1>o, <2>2, <1>t DEF TypeOK
  <2> QED
    BY <2>1, <2>2
\* Dropping entries, with the clock standing still, leaves recent ones.
<1>d. ASSUME clock' = clock,
             \A k \in Dashboards : cache'[k] = cache[k] \/ cache'[k] = None
      PROVE  EntriesRecent'
  BY <1>d DEF EntriesRecent, Cached
<1>1. ASSUME NEW t \in Threads, NEW k \in Dashboards, Request(t, k) PROVE AgeInv'
  <2>1. /\ clock' = clock /\ stack' = [stack EXCEPT ![t] = <<NewFrame(k)>>]
        /\ cache' = [cache EXCEPT ![k] = None]
    BY <1>1 DEF Request, DropExpired
  <2>2. EntriesRecent'
    BY <2>1, <1>d, <1>t DEF TypeOK
  <2>3. stack'[t] = <<NewFrame(k)>>
    BY <2>1, <1>t DEF TypeOK
  <2>4. StackRecent(stack'[t], clock)
    BY <2>1, <2>3, <1>n DEF StackRecent
  <2> QED
    BY <1>t, <2>1, <2>2, <2>3, <2>4, <1>o
<1>2. ASSUME NEW t \in Threads, NEW j \in Dashboards, UseCached(t, j) PROVE AgeInv'
  <2> DEFINE s == stack[t]
             f == Uses(Top(t), j, cache[j].version, cache[j].since)
  <2>1. /\ UNCHANGED <<clock, cache>> /\ Hit(j) /\ s # <<>> /\ j \in Top(t).need
        /\ stack' = [stack EXCEPT ![t] = Append(Below(t), f)]
    BY <1>2 DEF UseCached
  <2>2. s \in Seq(Frame) /\ s # <<>> /\ StackRecent(s, clock)
    BY <1>t, <2>1 DEF TypeOK
  <2>3. /\ Top(t) \in Frame /\ Top(t) = s[Len(s)]
        /\ Recent(Top(t).key, Top(t).since, clock)
        /\ Top(t).need \subseteq DependsOn[Top(t).key]
    BY <1>t, <2>1, <2>2, TopFrame DEF StackRecent
  <2>4. /\ cache[j] \in Entry /\ clock - cache[j].at <= TTL /\ j \in Cached
    BY <1>t, <2>1, HitIsEntry DEF Hit, Cached
  <2>5. cache[j].at <= clock /\ Recent(j, cache[j].since, cache[j].at)
    BY <2>4 DEF EntriesRecent
  <2>6. Top(t).key \in Dashboards /\ j \in DependsOn[Top(t).key]
    BY <2>1, <2>3 DEF Frame
  <2>7. /\ cache[j].version \in Nat /\ cache[j].since \in Nat /\ cache[j].at \in Nat
    BY <2>4 DEF Entry
  <2>8. Recent(Top(t).key, cache[j].since, clock)
    BY <1>c, <2>4, <2>5, <2>6, <2>7, RecentAbove
  <2>9. Recent(f.key, f.since, clock)
    BY <1>c, <2>3, <2>7, <2>8, UsesRecent
  <2>10. f \in Frame /\ f.key = s[Len(s)].key /\ f.need \subseteq s[Len(s)].need
    <3>1. f \in Frame
      BY <2>3, <2>7, UsesFrame
    <3>2. f.key = Top(t).key /\ f.need = Top(t).need \ {j}
      BY <2>3, UsesKeyAndNeed
    <3> HIDE DEF f
    <3> QED
      BY <2>3, <3>1, <3>2
  <2>11. stack'[t] = Append(SubSeq(s, 1, Len(s) - 1), f)
    BY <2>1, <1>t DEF TypeOK, Below
  <2> HIDE DEF s, f
  <2>12. StackRecent(stack'[t], clock)
    BY <2>2, <2>9, <2>10, <2>11, ReplaceTopRecent
  <2>13. EntriesRecent'
    BY <2>1, <1>d
  <2> QED
    BY <1>t, <2>1, <2>11, <2>12, <2>13, <1>o
<1>3. ASSUME NEW t \in Threads, NEW j \in Dashboards, Descend(t, j) PROVE AgeInv'
  <2>1. /\ clock' = clock /\ stack[t] # <<>> /\ j \in Top(t).need
        /\ stack' = [stack EXCEPT ![t] = Append(stack[t], NewFrame(j))]
        /\ cache' = [cache EXCEPT ![j] = None]
    BY <1>3 DEF Descend, DropExpired
  <2>2. EntriesRecent'
    BY <2>1, <1>d, <1>t DEF TypeOK
  <2>3. stack[t] \in Seq(Frame) /\ StackRecent(stack[t], clock) /\ NewFrame(j) \in Frame
    BY <1>t, NewFrameIsFrame DEF TypeOK
  <2>4. NewFrame(j).key \in stack[t][Len(stack[t])].need
    BY <1>n, <2>1 DEF Top
  <2>5. StackRecent(Append(stack[t], NewFrame(j)), clock)
    BY <1>n, <2>1, <2>3, <2>4, PushRecent
  <2>6. stack'[t] = Append(stack[t], NewFrame(j))
    BY <2>1, <1>t DEF TypeOK
  <2> QED
    BY <1>t, <2>1, <2>2, <2>5, <2>6, <1>o
<1>4. ASSUME NEW t \in Threads, Finish(t) PROVE AgeInv'
  <2> DEFINE s == stack[t]
             f == Top(t)
             rest == Below(t)
             g == Uses(rest[Len(rest)], f.key, f.version, f.since)
  <2>1. /\ clock' = clock /\ s # <<>> /\ Remember(f.key, f.version, f.since)
        /\ stack' = [stack EXCEPT ![t] =
                       IF rest = <<>> THEN <<>> ELSE Append(SubSeq(rest, 1, Len(rest) - 1), g)]
    BY <1>4 DEF Finish
  <2>2. s \in Seq(Frame) /\ s # <<>> /\ StackRecent(s, clock)
    BY <1>t, <2>1 DEF TypeOK
  <2>3. /\ f \in Frame /\ f = s[Len(s)] /\ Recent(f.key, f.since, clock)
    BY <1>t, <2>1, <2>2, TopFrame DEF StackRecent
  <2>4. f.key \in Dashboards /\ f.version \in Nat /\ f.since \in Nat
    BY <2>3 DEF Frame
  <2>5. EntriesRecent'
    <3> SUFFICES ASSUME NEW k \in Cached'
                 PROVE  cache'[k].at <= clock /\ Recent(k, cache'[k].since, cache'[k].at)
      BY <2>1 DEF EntriesRecent
    <3> HIDE DEF f
    <3>1. CASE k = f.key
      <4>1. cache'[k] = [at |-> clock, version |-> f.version, since |-> f.since]
        BY <2>1, <2>4, <3>1 DEF Remember
      <4> QED
        BY <4>1, <3>1, <2>3, <1>c
    <3>2. CASE k # f.key
      <4>1. cache'[k] = cache[k] /\ k \in Cached
        BY <2>1, <3>2 DEF Remember, Cached
      <4> QED
        BY <4>1 DEF EntriesRecent
    <3> QED
      BY <3>1, <3>2
  <2>6. stack'[t] = IF rest = <<>> THEN <<>> ELSE Append(SubSeq(rest, 1, Len(rest) - 1), g)
    BY <2>1, <1>t DEF TypeOK
  <2>7. StackRecent(stack'[t], clock)
    <3>1. CASE rest = <<>>
      BY <2>6, <3>1, <1>e
    <3>2. CASE rest # <<>>
      <4>1. /\ rest \in Seq(Frame) /\ Len(rest) = Len(s) - 1 /\ Len(s) \in Nat \ {0}
            /\ \A i \in 1..(Len(s) - 1) : rest[i] = s[i]
        BY <2>2, BelowTop DEF Below
      <4>2. StackRecent(rest, clock)
        BY <2>2, PopRecent DEF Below
      <4>3. Len(rest) \in Nat \ {0}
        BY <3>2, <4>1, EmptySeq
      <4> DEFINE p == rest[Len(rest)]
      <4>4. p \in Frame /\ Recent(p.key, p.since, clock) /\ p.need \subseteq DependsOn[p.key]
        <5> HIDE DEF rest
        <5>1. Len(rest) \in 1..Len(rest)
          BY <4>3
        <5>2. p \in Frame
          BY <4>1, <5>1, ElementOfSeq
        <5> QED
          BY <4>2, <5>1, <5>2 DEF StackRecent
      <4>5. f.key \in p.need
        <5> DEFINE n == Len(s)
        <5> HIDE DEF rest, s, f, n
        <5>1. /\ n \in Nat \ {0} /\ Len(rest) = n - 1 /\ n - 1 \in Nat \ {0}
              /\ \A i \in 1..(n - 1) : rest[i] = s[i]
          BY <4>1, <4>3 DEF n
        <5>2. n - 1 \in 1..(n - 1) /\ n - 1 + 1 = n
          BY <5>1
        <5>3. p = s[n - 1]
          BY <5>1, <5>2
        <5>4. s[n - 1 + 1].key \in s[n - 1].need
          BY <2>2, <5>2 DEF StackRecent, n
        <5> QED
          BY <2>3, <5>2, <5>3, <5>4 DEF n
      <4>6. p.key \in Dashboards /\ f.key \in DependsOn[p.key]
        BY <4>4, <4>5 DEF Frame
      <4> HIDE DEF p, f, rest, s
      <4>7. Recent(p.key, f.since, clock)
        <5>1. clock <= clock /\ clock - clock <= TTL
          BY <1>c, BoundsArePositive
        <5> QED
          BY <1>c, <5>1, <2>3, <2>4, <4>6, RecentAbove
      <4>8. Recent(g.key, g.since, clock)
        BY <1>c, <2>4, <4>4, <4>7, UsesRecent DEF p
      <4>9. g \in Frame /\ g.key = p.key /\ g.need \subseteq p.need
        <5>1. g \in Frame
          BY <2>4, <4>4, UsesFrame DEF p
        <5>2. g.key = p.key /\ g.need = p.need \ {f.key}
          BY <4>4, UsesKeyAndNeed DEF p
        <5> HIDE DEF g
        <5> QED
          BY <5>1, <5>2
      <4> HIDE DEF g
      <4> QED
        BY <2>6, <3>2, <4>1, <4>2, <4>8, <4>9, ReplaceTopRecent DEF p
    <3> QED
      BY <3>1, <3>2
  <2> HIDE DEF f, rest, s, g
  <2> QED
    BY <1>t, <2>1, <2>5, <2>7, <1>o
<1>5. ASSUME NEW t \in Threads, NEW w \in Workspaces, Commit(t, w) PROVE AgeInv'
  <2>1. UNCHANGED <<clock, cache, stack>>
    BY <1>5 DEF Commit
  <2> QED
    BY <1>t, <2>1 DEF EntriesRecent, Cached, StackRecent
<1>6. ASSUME NEW t \in Threads, Invalidate(t) PROVE AgeInv'
  <2>1. UNCHANGED <<clock, stack>>
    BY <1>6 DEF Invalidate
  <2>2. EntriesRecent'
    BY <1>6, <2>1, <1>d DEF Invalidate
  <2> QED
    BY <1>t, <2>1, <2>2 DEF StackRecent
<1>7. ASSUME NEW t \in Threads, Fail(t) PROVE AgeInv'
  <2>1. UNCHANGED <<clock, cache>> /\ stack' = [stack EXCEPT ![t] = <<>>]
    BY <1>7 DEF Fail
  <2>2. stack'[t] = <<>>
    BY <2>1, <1>t DEF TypeOK
  <2> QED
    BY <1>t, <2>1, <2>2, <1>d, <1>e, <1>o
<1>8. CASE Tick
  <2>1. clock' = clock + 1 /\ UNCHANGED <<cache, stack>> /\ \A t \in Threads : stack[t] = <<>>
    BY <1>8 DEF Tick
  <2>2. EntriesRecent'
    <3> SUFFICES ASSUME NEW k \in Cached
                 PROVE  cache[k].at <= clock'
      BY <2>1 DEF EntriesRecent, Cached, Recent
    <3>1. cache[k] \in Entry /\ cache[k].at <= clock
      BY <1>t DEF EntriesRecent, Cached, TypeOK
    <3> QED
      BY <3>1, <2>1, <1>c DEF Entry
  <2> QED
    BY <1>t, <2>1, <2>2, <1>e
<1>9. CASE Restart
  <2>1. Cached' = {} /\ stack' = [t \in Threads |-> <<>>]
    BY <1>9 DEF Restart, Cached
  <2> QED
    BY <1>t, <2>1, <1>e DEF EntriesRecent
<1>10. CASE UNCHANGED vars
  BY <1>t, <1>10 DEF vars, EntriesRecent, Cached, StackRecent
<1> QED
  BY <1>1, <1>2, <1>3, <1>4, <1>5, <1>6, <1>7, <1>8, <1>9, <1>10 DEF Next

\* A hit shows nothing older than one TTL per level of dashboards it is made
\* of: the bound on staleness that the expiry of entries gives, whatever the
\* graph of dashboards and however many threads compute.
THEOREM StaleByLevelHolds == Spec => []StaleByLevel
<1>1. AgeInv => StaleByLevel
  <2> SUFFICES ASSUME AgeInv, NEW k \in Dashboards, Hit(k)
               PROVE  clock - cache[k].since <= TTL * Level[k]
    BY DEF StaleByLevel
  <2>1. /\ cache[k] \in Entry /\ clock - cache[k].at <= TTL /\ k \in Cached
    BY HitIsEntry DEF AgeInv, Hit, Cached
  <2>2. /\ cache[k].at <= clock /\ cache[k].since <= cache[k].at
        /\ cache[k].at - cache[k].since <= TTL * (Level[k] - 1)
    BY <2>1 DEF AgeInv, EntriesRecent, Recent
  <2>3. /\ TTL \in Nat /\ Level[k] - 1 \in Nat /\ Level[k] - 1 + 1 = Level[k]
    BY BoundsArePositive, LevelsDescend
  <2>4. /\ TTL * (Level[k] - 1 + 1) = TTL * (Level[k] - 1) + TTL
        /\ TTL * (Level[k] - 1) \in Int
    BY <2>3, ScaledOrder
  <2>5. clock \in Int /\ cache[k].at \in Nat /\ cache[k].since \in Nat
    BY <2>1, BoundsArePositive DEF AgeInv, TypeOK, Entry
  <2> QED
    BY <2>1, <2>2, <2>3, <2>4, <2>5
<1> QED
  BY <1>1, InitAge, NextAge, InitBound, NextBound, PTL DEF Spec

-----------------------------------------------------------------------------
(* Freshness, when requests do not overlap.                                 *)

OneThread == \A t, u \in Threads : t = u

Fresh(k, version, shown) == version >= shown[WorkspaceOf[k]]

StackFresh(s, shown) == \A i \in 1..Len(s) : Fresh(s[i].key, s[i].version, shown)

\* No computation is in progress while a write is still to invalidate.
WriterIsAlone == \A t \in Threads : writing[t] # None => stack[t] = <<>>

FreshInv ==
    /\ \A k \in Cached : Fresh(k, cache[k].version, returned)
    /\ \A t \in Threads : StackFresh(stack[t], returned)
    /\ \A w \in Workspaces : returned[w] <= db[w]
    /\ WriterIsAlone

LEMMA UsesFresh ==
    ASSUME NEW f \in Frame, NEW j, NEW version \in Nat, NEW since \in Nat,
           NEW shown \in [Workspaces -> Nat],
           Fresh(f.key, f.version, shown), Fresh(f.key, version, shown)
    PROVE  Fresh(Uses(f, j, version, since).key, Uses(f, j, version, since).version, shown)
<1>1. /\ Uses(f, j, version, since).key = f.key
      /\ Uses(f, j, version, since).version = Min2(f.version, version)
  BY DEF Uses, Frame
<1>2. Min2(f.version, version) \in {f.version, version}
  BY DEF Min2, Frame
<1> QED
  BY <1>1, <1>2

LEMMA ReplaceTopFresh ==
    ASSUME NEW s \in Seq(Frame), s # <<>>, NEW shown, NEW f \in Frame,
           NEW r, r = Append(SubSeq(s, 1, Len(s) - 1), f)
    PROVE  StackFresh(s, shown) /\ Fresh(f.key, f.version, shown) => StackFresh(r, shown)
<1>1. /\ Len(r) = Len(s) /\ Len(s) \in Nat \ {0}
      /\ r[Len(s)] = f
      /\ \A i \in 1..(Len(s) - 1) : r[i] = s[i]
  <2> DEFINE low == SubSeq(s, 1, Len(s) - 1)
  <2>1. /\ low \in Seq(Frame)
        /\ Len(s) \in Nat \ {0}
        /\ Len(low) = Len(s) - 1
        /\ \A i \in 1..(Len(s) - 1) : low[i] = s[i]
    BY BelowTop
  <2> HIDE DEF low
  <2> QED
    BY <2>1, AppendProperties DEF low
<1> HAVE StackFresh(s, shown) /\ Fresh(f.key, f.version, shown)
<1>2. ASSUME NEW i \in 1..Len(s) PROVE Fresh(r[i].key, r[i].version, shown)
  <2>1. CASE i = Len(s)
    BY <1>1, <2>1
  <2>2. CASE i # Len(s)
    BY <1>1, <2>2 DEF StackFresh
  <2> QED
    BY <2>1, <2>2
<1> QED
  BY <1>1, <1>2 DEF StackFresh

LEMMA InitFresh == Init => FreshInv
<1> SUFFICES ASSUME Init PROVE FreshInv
  OBVIOUS
<1>1. Cached = {}
  BY DEF Init, Cached
<1>2. \A t \in Threads : Len(stack[t]) = 0
  BY EmptySeq DEF Init
<1> QED
  BY <1>1, <1>2 DEF Init, FreshInv, StackFresh, WriterIsAlone

LEMMA NextFresh == OneThread /\ FreshInv /\ AgeInv /\ BoundInv /\ [Next]_vars => FreshInv'
<1> SUFFICES ASSUME OneThread, FreshInv, AgeInv, BoundInv, [Next]_vars PROVE FreshInv'
  OBVIOUS
<1>t. TypeOK /\ TypeOK' /\ BoundInv'
  BY NextBound DEF BoundInv
<1>r. returned \in [Workspaces -> Nat] /\ db \in [Workspaces -> Nat]
  BY <1>t, BoundsArePositive DEF TypeOK
<1>e. ASSUME NEW shown PROVE StackFresh(<<>>, shown)
  BY EmptySeq DEF StackFresh
<1>n. ASSUME NEW k \in Dashboards
      PROVE  Fresh(NewFrame(k).key, NewFrame(k).version, returned)
  BY <1>r, KeysAreTyped DEF NewFrame, Fresh, FreshInv
\* The tables stay, the dictionary loses entries at most, the stack is fresh.
<1>o. ASSUME NEW t \in Threads, UNCHANGED <<db, returned, writing>>, writing[t] = None,
             \A k \in Dashboards : cache'[k] = cache[k] \/ cache'[k] = None,
             StackFresh(stack'[t], returned)
      PROVE  FreshInv'
  <2>1. \A u \in Threads : u = t
    BY DEF OneThread
  <2>2. \A k \in Cached' : Fresh(k, cache'[k].version, returned)
    BY <1>o DEF FreshInv, Cached
  <2>3. \A u \in Threads : StackFresh(stack'[u], returned)
    BY <1>o, <2>1
  <2>4. WriterIsAlone'
    BY <1>o, <2>1 DEF WriterIsAlone
  <2> QED
    BY <1>o, <2>2, <2>3, <2>4 DEF FreshInv
<1>1. ASSUME NEW t \in Threads, NEW k \in Dashboards, Request(t, k) PROVE FreshInv'
  <2>1. /\ stack' = [stack EXCEPT ![t] = <<NewFrame(k)>>]
        /\ cache' = [cache EXCEPT ![k] = None]
        /\ UNCHANGED <<db, returned, writing>> /\ writing[t] = None
    BY <1>1 DEF Request, DropExpired, Idle
  <2>2. StackFresh(<<NewFrame(k)>>, returned)
    BY <1>n DEF StackFresh
  <2>3. stack'[t] = <<NewFrame(k)>> /\ \A j \in Dashboards : cache'[j] = cache[j] \/ cache'[j] = None
    BY <2>1, <1>t DEF TypeOK
  <2> QED
    BY <2>1, <2>2, <2>3, <1>o
<1>2. ASSUME NEW t \in Threads, NEW j \in Dashboards, UseCached(t, j) PROVE FreshInv'
  <2> DEFINE s == stack[t]
             f == Uses(Top(t), j, cache[j].version, cache[j].since)
  <2>1. /\ UNCHANGED <<db, returned, writing, cache>> /\ Hit(j) /\ s # <<>> /\ j \in Top(t).need
        /\ stack' = [stack EXCEPT ![t] = Append(Below(t), f)]
    BY <1>2 DEF UseCached
  <2>2. /\ Top(t) \in Frame /\ s \in Seq(Frame) /\ Len(s) \in 1..Len(s)
        /\ Top(t) = s[Len(s)]
    BY <1>t, <2>1, TopFrame DEF TypeOK
  <2>3. /\ Fresh(Top(t).key, Top(t).version, returned)
        /\ Top(t).need \subseteq DependsOn[Top(t).key]
    BY <2>2 DEF FreshInv, AgeInv, StackFresh, StackRecent
  <2>4. WorkspaceOf[j] = WorkspaceOf[Top(t).key]
    BY <2>1, <2>2, <2>3, KeysAreTyped DEF Frame
  <2>5. cache[j].version \in Nat /\ cache[j].since \in Nat /\ j \in Cached
    BY <1>t, <2>1, HitIsEntry DEF Hit, Cached, Entry
  <2>6. Fresh(Top(t).key, cache[j].version, returned)
    BY <2>4, <2>5 DEF Fresh, FreshInv
  <2>7. Fresh(f.key, f.version, returned)
    BY <1>r, <2>2, <2>3, <2>5, <2>6, UsesFresh
  <2>8. f \in Frame
    BY <2>2, <2>5, UsesFrame
  <2>9. stack'[t] = Append(SubSeq(s, 1, Len(s) - 1), f) /\ StackFresh(s, returned)
    BY <2>1, <1>t DEF TypeOK, Below, FreshInv
  <2>10. writing[t] = None
    BY <2>1 DEF FreshInv, WriterIsAlone
  <2> HIDE DEF f, s
  <2>11. StackFresh(stack'[t], returned)
    BY <2>1, <2>2, <2>7, <2>8, <2>9, ReplaceTopFresh
  <2> QED
    BY <2>1, <2>10, <2>11, <1>o
<1>3. ASSUME NEW t \in Threads, NEW j \in Dashboards, Descend(t, j) PROVE FreshInv'
  <2> DEFINE s == stack[t]
             f == NewFrame(j)
  <2>1. /\ UNCHANGED <<db, returned, writing>> /\ s # <<>>
        /\ stack' = [stack EXCEPT ![t] = Append(s, f)]
        /\ cache' = [cache EXCEPT ![j] = None]
    BY <1>3 DEF Descend, DropExpired
  <2>2. /\ stack'[t] = Append(s, f) /\ s \in Seq(Frame) /\ f \in Frame
        /\ \A k \in Dashboards : cache'[k] = cache[k] \/ cache'[k] = None
    BY <2>1, <1>t, NewFrameIsFrame DEF TypeOK
  <2>3. StackFresh(s, returned) /\ Fresh(f.key, f.version, returned)
    BY <1>n DEF FreshInv
  <2>4. writing[t] = None
    BY <2>1 DEF FreshInv, WriterIsAlone
  <2> HIDE DEF f, s
  <2>5. /\ Len(s) \in Nat /\ Len(Append(s, f)) = Len(s) + 1
        /\ Append(s, f)[Len(s) + 1] = f /\ \A i \in 1..Len(s) : Append(s, f)[i] = s[i]
    BY <2>2, AppendProperties, LenProperties
  <2>6. StackFresh(Append(s, f), returned)
    <3> SUFFICES ASSUME NEW i \in 1..(Len(s) + 1)
                 PROVE  Fresh(Append(s, f)[i].key, Append(s, f)[i].version, returned)
      BY <2>5 DEF StackFresh
    <3>1. CASE i = Len(s) + 1
      BY <2>3, <2>5, <3>1
    <3>2. CASE i \in 1..Len(s)
      BY <2>3, <2>5, <3>2 DEF StackFresh
    <3> QED
      BY <2>5, <3>1, <3>2
  <2> QED
    BY <2>1, <2>2, <2>4, <2>6, <1>o
<1>4. ASSUME NEW t \in Threads, Finish(t) PROVE FreshInv'
  <2> DEFINE s == stack[t]
             f == Top(t)
             rest == Below(t)
             g == Uses(rest[Len(rest)], f.key, f.version, f.since)
  <2>1. /\ UNCHANGED <<db, returned, writing>> /\ s # <<>> /\ Remember(f.key, f.version, f.since)
        /\ stack' = [stack EXCEPT ![t] =
                       IF rest = <<>> THEN <<>> ELSE Append(SubSeq(rest, 1, Len(rest) - 1), g)]
    BY <1>4 DEF Finish
  <2>2. /\ s \in Seq(Frame) /\ f \in Frame /\ f = s[Len(s)] /\ Len(s) \in 1..Len(s)
        /\ Len(s) \in Nat
    BY <1>t, <2>1, TopFrame DEF TypeOK
  <2>3. /\ Fresh(f.key, f.version, returned) /\ StackFresh(s, returned)
        /\ StackRecent(s, clock)
    BY <2>2 DEF FreshInv, AgeInv, StackFresh
  <2>4. f.key \in Dashboards /\ f.version \in Nat /\ f.since \in Nat
    BY <2>2 DEF Frame
  <2>5. stack'[t] = IF rest = <<>> THEN <<>> ELSE Append(SubSeq(rest, 1, Len(rest) - 1), g)
    BY <2>1, <1>t DEF TypeOK
  <2>6. ASSUME NEW k \in Cached' PROVE Fresh(k, cache'[k].version, returned)
    <3> HIDE DEF f
    <3>1. CASE k = f.key
      <4>1. cache'[k] = [at |-> clock, version |-> f.version, since |-> f.since]
        BY <2>1, <2>4, <3>1 DEF Remember
      <4> QED
        BY <4>1, <3>1, <2>3
    <3>2. CASE k # f.key
      <4>1. cache'[k] = cache[k] /\ k \in Cached
        BY <2>1, <3>2 DEF Remember, Cached
      <4> QED
        BY <4>1 DEF FreshInv
    <3> QED
      BY <3>1, <3>2
  <2>7. StackFresh(stack'[t], returned)
    <3>1. CASE rest = <<>>
      BY <2>5, <3>1, <1>e
    <3>2. CASE rest # <<>>
      <4> DEFINE n == Len(s)
                 p == rest[Len(rest)]
      <4>1. /\ rest \in Seq(Frame) /\ Len(rest) = n - 1 /\ n \in Nat
            /\ \A i \in 1..(n - 1) : rest[i] = s[i]
        BY <2>1, <2>2, BelowTop DEF Below
      <4>2. Len(rest) \in Nat \ {0}
        BY <3>2, <4>1, EmptySeq, LenProperties
      <4> HIDE DEF rest, s, f, n
      <4>3. p = s[n - 1] /\ n - 1 \in 1..(n - 1) /\ n - 1 \in 1..n /\ n - 1 + 1 = n
        BY <4>1, <4>2
      <4>4. /\ Fresh(p.key, p.version, returned) /\ p.need \subseteq DependsOn[p.key]
            /\ s[n - 1 + 1].key \in s[n - 1].need
        BY <2>3, <4>3 DEF StackFresh, StackRecent, n
      <4>5. f.key \in p.need
        BY <2>2, <4>3, <4>4 DEF n
      <4>6. p \in Frame
        BY <4>1, <4>2, ElementOfSeq
      <4>7. WorkspaceOf[f.key] = WorkspaceOf[p.key]
        BY <4>4, <4>5, <4>6, KeysAreTyped DEF Frame
      <4>8. Fresh(p.key, f.version, returned)
        BY <2>3, <4>7 DEF Fresh
      <4> HIDE DEF p
      <4>9. Fresh(g.key, g.version, returned)
        BY <1>r, <2>4, <4>4, <4>6, <4>8, UsesFresh DEF p
      <4>10. g \in Frame
        BY <2>4, <4>6, UsesFrame DEF p
      <4>11. StackFresh(rest, returned)
        BY <2>3, <4>1 DEF StackFresh, n
      <4> HIDE DEF g
      <4> QED
        BY <2>5, <3>2, <4>1, <4>9, <4>10, <4>11, ReplaceTopFresh
    <3> QED
      BY <3>1, <3>2
  <2>8. writing[t] = None
    BY <2>1 DEF FreshInv, WriterIsAlone
  <2>9. \A u \in Threads : u = t
    BY DEF OneThread
  <2> HIDE DEF f, rest, s, g
  <2> QED
    BY <2>1, <2>6, <2>7, <2>8, <2>9 DEF FreshInv, WriterIsAlone
<1>5. ASSUME NEW t \in Threads, NEW w \in Workspaces, Commit(t, w) PROVE FreshInv'
  <2>1. /\ UNCHANGED <<returned, cache, stack>> /\ db' = [db EXCEPT ![w] = @ + 1]
        /\ stack[t] = <<>>
    BY <1>5 DEF Commit, Idle
  <2>2. \A v \in Workspaces : returned'[v] <= db'[v]
    BY <2>1, <1>r DEF FreshInv
  <2>3. WriterIsAlone'
    BY <2>1 DEF WriterIsAlone, OneThread
  <2> QED
    BY <2>1, <2>2, <2>3 DEF FreshInv, Cached
<1>6. ASSUME NEW t \in Threads, Invalidate(t) PROVE FreshInv'
  <2> DEFINE w    == writing[t].workspace
             keys == {k \in Dashboards : WorkspaceOf[k] = w}
             new  == IF returned[w] < writing[t].version THEN writing[t].version ELSE returned[w]
  <2>1. /\ writing[t] # None
        /\ cache' = [k \in Dashboards |-> IF k \in keys THEN None ELSE cache[k]]
        /\ returned' = [returned EXCEPT ![w] = new]
        /\ writing' = [writing EXCEPT ![t] = None]
        /\ UNCHANGED <<db, stack>>
    BY <1>6 DEF Invalidate
  <2>2. \A u \in Threads : u = t /\ stack[u] = <<>>
    BY <2>1 DEF OneThread, FreshInv, WriterIsAlone
  <2>3. /\ w \in Workspaces /\ new <= db[w]
    BY <1>t, <2>1 DEF TypeOK, Write, BoundInv, WriteCommitted, FreshInv
  <2> HIDE DEF w, new
  <2>4. /\ returned'[w] = new
        /\ \A v \in Workspaces \ {w} : returned'[v] = returned[v]
    BY <2>1, <2>3, <1>r
  <2>5. \A v \in Workspaces : returned'[v] <= db'[v]
    BY <2>1, <2>3, <2>4 DEF FreshInv
  <2>6. ASSUME NEW k \in Cached' PROVE Fresh(k, cache'[k].version, returned')
    <3>1. k \in Cached /\ cache'[k] = cache[k] /\ WorkspaceOf[k] # w /\ WorkspaceOf[k] \in Workspaces
      BY <2>1, KeysAreTyped DEF Cached
    <3> QED
      BY <3>1, <2>4 DEF Fresh, FreshInv
  <2>7. \A u \in Threads : StackFresh(stack'[u], returned')
    BY <2>1, <2>2, <1>e
  <2>8. WriterIsAlone'
    BY <2>1, <2>2 DEF WriterIsAlone
  <2> QED
    BY <2>5, <2>6, <2>7, <2>8 DEF FreshInv
<1>7. ASSUME NEW t \in Threads, Fail(t) PROVE FreshInv'
  <2>1. UNCHANGED <<db, returned, writing, cache>> /\ stack[t] # <<>>
        /\ stack' = [stack EXCEPT ![t] = <<>>]
    BY <1>7 DEF Fail
  <2>2. stack'[t] = <<>> /\ writing[t] = None
    BY <2>1, <1>t DEF TypeOK, FreshInv, WriterIsAlone
  <2> QED
    BY <2>1, <2>2, <1>e, <1>o
<1>8. CASE Tick
  BY <1>8 DEF Tick, FreshInv, Cached, StackFresh, WriterIsAlone
<1>9. CASE Restart
  <2>1. /\ Cached' = {} /\ UNCHANGED <<db, returned>>
        /\ stack' = [t \in Threads |-> <<>>] /\ writing' = [t \in Threads |-> None]
    BY <1>9 DEF Restart, Cached
  <2> QED
    BY <2>1, <1>e DEF FreshInv, WriterIsAlone
<1>10. CASE UNCHANGED vars
  BY <1>10 DEF vars, FreshInv, Cached, StackFresh, WriterIsAlone
<1> QED
  BY <1>1, <1>2, <1>3, <1>4, <1>5, <1>6, <1>7, <1>8, <1>9, <1>10 DEF Next

\* With requests one at a time, a dashboard served after a write has returned
\* shows that write, at every level of dashboards: invalidation alone keeps the
\* cache coherent, and what breaks it is a computation that a write overlaps.
THEOREM FreshWithoutOverlap ==
    ASSUME OneThread
    PROVE  Spec => []FreshAfterWrite
<1>1. FreshInv => FreshAfterWrite
  BY DEF FreshInv, FreshAfterWrite, Hit, Cached, Fresh
<1>2. FreshInv /\ AgeInv /\ BoundInv /\ [Next]_vars => FreshInv'
  BY NextFresh
<1> QED
  BY <1>1, <1>2, InitFresh, InitAge, NextAge, InitBound, NextBound, PTL DEF Spec
=============================================================================
