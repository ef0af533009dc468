--------------------- MODULE ObservabilityOutbox_proofs ---------------------
(****************************************************************************)
(* For any exports, limits and number of dispatchers: types, that what can  *)
(* be delivered never fails, and that nothing is given up early.  For one   *)
(* dispatcher: the outbox implements AlertDelivery.                         *)
(****************************************************************************)
EXTENDS ObservabilityOutbox, TLAPS

LEMMA CapIsAboveLimit == Cap \in Nat /\ RetryLimit \in Nat /\ RetryLimit >= 1 /\ Cap > RetryLimit + 1
BY LimitsArePositive DEF Cap

LEMMA BumpStaysBelowCap ==
    ASSUME NEW n \in 0..Cap
    PROVE  /\ Bump(n) \in 0..Cap
           /\ n < Cap => Bump(n) = n + 1
           /\ Bump(n) >= n
BY CapIsAboveLimit DEF Bump

\* What one dispatch decides of a row is a row with the same form.
LEMMA DecidedIsRow ==
    ASSUME NEW row \in Row
    PROVE  /\ Decided(row) \in Row
           /\ Decided(row).form = row.form
           /\ Decided(row).last = Outcome(row.form, row.retries + 1)
           /\ Decided(row).retries = Bump(row.retries)
<1>1. Outcome(row.form, row.retries + 1) \in Outcomes
  BY CapIsAboveLimit DEF Outcome, Outcomes, Row, Forms
<1>2. Bump(row.retries) \in 0..Cap
  BY BumpStaysBelowCap DEF Row
<1> QED
  BY <1>1, <1>2 DEF Decided, Row

\* A retry is counted for no more dispatches than have committed, in the table and in what
\* a dispatch has read; what can be delivered is untouched whenever it is open.
Behind(row, e) == row.retries <= attempts[e] /\ (row.last = "over" => attempts[e] > RetryLimit)
Untouched(row) == Deliverable(row.form) => (row.last \in {"queued", "sent"} /\ (row.last = "queued" => row.retries = 0))

Inv ==
    /\ TypeOK
    /\ \A e \in Exports : rows[e] # None => Behind(rows[e], e) /\ Untouched(rows[e])
    /\ \A d \in Dispatchers, e \in Exports : picked[d][e] # None =>
         /\ Behind(picked[d][e], e)
         /\ Untouched(picked[d][e])
         /\ picked[d][e].last # "sent"

\* The invariant holds of an empty outbox.
THEOREM InitInv == Init => Inv
BY CapIsAboveLimit DEF Init, Inv, TypeOK, Nothing

\* A decided row is as behind and as untouched as the row it was decided from.
LEMMA DecidedKeeps ==
    ASSUME TypeOK, NEW e \in Exports, NEW row \in Row,
           Behind(row, e), Untouched(row), row.last # "sent"
    PROVE  /\ Bump(row.retries) <= Bump(attempts[e])
           /\ Decided(row).last = "over" => Bump(attempts[e]) > RetryLimit
           /\ Untouched(Decided(row))
<1>1. row.retries \in 0..Cap /\ attempts[e] \in 0..Cap /\ row.retries <= attempts[e] /\ row.form \in Forms
  BY DEF TypeOK, Row, Behind
<1>2. Bump(row.retries) <= Bump(attempts[e])
  BY <1>1, CapIsAboveLimit DEF Bump
<1>3. ASSUME Decided(row).last = "over" PROVE Bump(attempts[e]) > RetryLimit
  <2>1. Outcome(row.form, row.retries + 1) = "over"
    BY <1>3, DecidedIsRow
  <2>2. row.retries + 1 > RetryLimit
    BY <2>1, <1>1, CapIsAboveLimit DEF Outcome
  <2> QED BY <2>2, <1>1, CapIsAboveLimit DEF Bump
<1>4. ASSUME Deliverable(row.form) PROVE Decided(row).last = "sent"
  <2>1. row.last = "queued" /\ row.retries = 0
    BY <1>4 DEF Untouched
  <2>2. Outcome(row.form, 1) = "sent"
    BY <1>4, CapIsAboveLimit DEF Outcome, Deliverable
  <2> QED BY <2>1, <2>2, DecidedIsRow
<1> QED
  BY <1>2, <1>3, <1>4, DecidedIsRow DEF Untouched

\* Requests, dispatches that overlap, failures and restarts keep the invariant.
THEOREM NextInv == Inv /\ [Next]_vars => Inv'
<1> SUFFICES ASSUME Inv, [Next]_vars PROVE Inv'
  OBVIOUS
<1> USE NoneIsNoRow, CapIsAboveLimit
<1>1. ASSUME NEW e \in Exports, NEW form \in Forms, Create(e, form) PROVE Inv'
  BY <1>1 DEF Create, Inv, TypeOK, Behind, Untouched
<1>2. ASSUME NEW e \in Exports, Insert(e) PROVE Inv'
  <2> DEFINE new == [form |-> asked[e], last |-> "queued", retries |-> 0]
  <2>1. new \in Row
    BY <1>2 DEF Insert, Inv, TypeOK, Row
  <2>2. Behind(new, e) /\ Untouched(new)
    BY DEF Inv, TypeOK, Behind, Untouched
  <2>3. TypeOK'
    BY <1>2, <2>1 DEF Insert, Inv, TypeOK
  <2>4. \A f \in Exports : (rows[f] # None => Behind(rows[f], f) /\ Untouched(rows[f]))'
    BY <1>2, <2>2 DEF Insert, Inv, TypeOK, Behind, Untouched
  <2> QED
    BY <1>2, <2>3, <2>4 DEF Insert, Inv, Behind, Untouched
<1>3. ASSUME NEW d \in Dispatchers, NEW ids \in SUBSET Exports, Select(d, ids) PROVE Inv'
  <2>1. \A e \in Exports : picked'[d][e] # None => picked'[d][e] = rows[e] /\ Open(e)
    BY <1>3 DEF Select, Oldest, Inv, TypeOK
  <2>2. \A c \in Dispatchers \ {d} : picked'[c] = picked[c]
    BY <1>3 DEF Select, Inv, TypeOK
  <2>3. picked' \in [Dispatchers -> [Exports -> Row \cup {None}]]
    BY <1>3 DEF Select, Inv, TypeOK
  <2>4. \A e \in Exports : Open(e) => rows[e].last # "sent"
    BY DEF Open, Status
  <2> QED
    BY <1>3, <2>1, <2>2, <2>3, <2>4 DEF Select, Inv, TypeOK, Behind, Untouched
<1>4. ASSUME NEW d \in Dispatchers, Commit(d) PROVE Inv'
  <2>1. \A e \in Exports : attempts[e] \in 0..Cap /\ attempts'[e] \in 0..Cap
                           /\ attempts'[e] >= attempts[e]
    BY <1>4, BumpStaysBelowCap DEF Commit, Inv, TypeOK
  <2>2. \A e \in Exports : picked[d][e] # None =>
          /\ picked[d][e] \in Row
          /\ Decided(picked[d][e]) \in Row
          /\ Decided(picked[d][e]).retries <= attempts'[e]
          /\ Decided(picked[d][e]).last = "over" => attempts'[e] > RetryLimit
          /\ Untouched(Decided(picked[d][e]))
    <3> SUFFICES ASSUME NEW e \in Exports, picked[d][e] # None
                 PROVE  /\ picked[d][e] \in Row
                        /\ Decided(picked[d][e]) \in Row
                        /\ Decided(picked[d][e]).retries <= attempts'[e]
                        /\ Decided(picked[d][e]).last = "over" => attempts'[e] > RetryLimit
                        /\ Untouched(Decided(picked[d][e]))
      OBVIOUS
    <3>1. picked[d][e] \in Row
      BY DEF Inv, TypeOK
    <3>2. attempts'[e] = Bump(attempts[e])
      BY <1>4 DEF Commit
    <3> QED
      BY <3>1, <3>2, DecidedIsRow, DecidedKeeps DEF Inv
  <2>3. rows' \in [Exports -> Row \cup {None}]
    BY <1>4, <2>2 DEF Commit, Inv, TypeOK
  <2>4. sends' \in [Exports -> 0..Cap] /\ attempts' \in [Exports -> 0..Cap]
    BY <1>4, BumpStaysBelowCap DEF Commit, Inv, TypeOK
  <2>5. picked' \in [Dispatchers -> [Exports -> Row \cup {None}]]
    BY <1>4 DEF Commit, Inv, TypeOK, Nothing
  <2>6. TypeOK'
    BY <1>4, <2>3, <2>4, <2>5 DEF Commit, Inv, TypeOK
  <2>7. \A e \in Exports : (rows[e] # None => Behind(rows[e], e) /\ Untouched(rows[e]))'
    <3> SUFFICES ASSUME NEW e \in Exports, rows'[e] # None
                 PROVE  (Behind(rows[e], e) /\ Untouched(rows[e]))'
      OBVIOUS
    <3>1. CASE picked[d][e] # None
      BY <3>1, <2>2, <1>4 DEF Commit, Behind, Untouched, Inv, TypeOK
    <3>2. CASE picked[d][e] = None
      <4>1. rows'[e] = rows[e] /\ rows[e] \in Row
        BY <3>2, <1>4 DEF Commit, Inv, TypeOK
      <4>2. rows[e].retries \in 0..Cap
        BY <4>1 DEF Row
      <4> QED
        BY <4>1, <4>2, <2>1 DEF Inv, Behind, Untouched
    <3> QED
      BY <3>1, <3>2
  <2>8. \A c \in Dispatchers, e \in Exports : (picked[c][e] # None =>
          /\ Behind(picked[c][e], e)
          /\ Untouched(picked[c][e])
          /\ picked[c][e].last # "sent")'
    <3> SUFFICES ASSUME NEW c \in Dispatchers, NEW e \in Exports, picked'[c][e] # None
                 PROVE  (/\ Behind(picked[c][e], e)
                         /\ Untouched(picked[c][e])
                         /\ picked[c][e].last # "sent")'
      OBVIOUS
    <3>1. picked'[c][e] = picked[c][e] /\ picked[c][e] # None
      BY <1>4 DEF Commit, Inv, TypeOK, Nothing
    <3>2. picked[c][e] \in Row /\ picked[c][e].retries \in 0..Cap
      BY <3>1 DEF Inv, TypeOK, Row
    <3> QED
      BY <3>1, <3>2, <2>1 DEF Inv, Behind, Untouched
  <2> QED
    BY <2>6, <2>7, <2>8 DEF Inv
<1>5. ASSUME NEW d \in Dispatchers, Lose(d) PROVE Inv'
  <2>1. picked' \in [Dispatchers -> [Exports -> Row \cup {None}]]
    BY <1>5 DEF Lose, Inv, TypeOK, Nothing
  <2>2. \A c \in Dispatchers, e \in Exports : picked'[c][e] # None => picked'[c][e] = picked[c][e]
    BY <1>5 DEF Lose, Inv, TypeOK, Nothing
  <2> QED
    BY <1>5, <2>1, <2>2 DEF Lose, Inv, TypeOK, Behind, Untouched
<1>6. CASE UNCHANGED vars
  BY <1>6 DEF vars, Inv, TypeOK, Behind, Untouched
<1> QED
  BY <1>1, <1>2, <1>3, <1>4, <1>5, <1>6 DEF Next

\* Every reachable state is well typed.
THEOREM TypeCorrect == Spec => []TypeOK
<1>1. Inv => TypeOK
  BY DEF Inv
<1> QED
  BY <1>1, InitInv, NextInv, PTL DEF Spec

\* However many dispatches overlap, an export that can be delivered is never shown as failed.
THEOREM WhatCanBeDeliveredNeverFails == Spec => []DeliverableNeverFails
<1>1. Inv => DeliverableNeverFails
  BY DEF Inv, Untouched, DeliverableNeverFails, Status
<1> QED
  BY <1>1, InitInv, NextInv, PTL DEF Spec

\* No export is reported over the limit before more dispatches than the limit worked it.
THEOREM NothingIsGivenUpEarly == Spec => []GivenUpLate
<1>1. Inv => GivenUpLate
  BY DEF Inv, Behind, GivenUpLate
<1> QED
  BY <1>1, InitInv, NextInv, PTL DEF Spec

-----------------------------------------------------------------------------
(* One dispatcher.                                                          *)

OneDispatcher == \A c, d \in Dispatchers : c = d

\* What the dispatcher has selected is still what the table holds, and open; what is open
\* or not stored yet has been sent to nobody.
SerialInv ==
    /\ Inv
    /\ \A e \in Exports : (rows[e] = None \/ rows[e].last # "sent") => sends[e] = 0
    /\ \A d \in Dispatchers, e \in Exports :
         picked[d][e] # None => picked[d][e] = rows[e]

LEMMA SerialInit == Init => SerialInv /\ Delivery!Init
<1> SUFFICES ASSUME Init PROVE SerialInv /\ Delivery!Init
  OBVIOUS
<1>1. SerialInv
  BY InitInv DEF Init, SerialInv, Nothing
<1>2. Delivery!Init
  <2>1. \A e \in Exports : Shown(e) = None
    BY DEF Init, Nothing, Shown
  <2>2. \A x \in Destinations : sends[x[1]] = 0
    BY DEF Init, Destinations
  <2> QED
    BY <2>1, <2>2 DEF Delivery!Init
<1> QED
  BY <1>1, <1>2

\* Storing an export queues it.
LEMMA InsertQueues ==
    ASSUME SerialInv, NEW e \in Exports, Insert(e)
    PROVE  Delivery!Queue({e})
<1>1. \A f \in Exports : Shown(f)' = IF f = e THEN "queued" ELSE Shown(f)
  <2>1. rows'[e] = [form |-> asked[e], last |-> "queued", retries |-> 0]
    BY DEF Insert, SerialInv, Inv, TypeOK
  <2>2. rows'[e] \in Row
    BY <2>1, CapIsAboveLimit DEF Insert, SerialInv, Inv, TypeOK, Row
  <2>3. rows'[e] # None /\ rows'[e].last = "queued"
    BY <2>1, <2>2, NoneIsNoRow
  <2>4. \A f \in Exports : f # e => rows'[f] = rows[f]
    BY DEF Insert, SerialInv, Inv, TypeOK
  <2>5. Shown(e)' = "queued"
    BY <2>3 DEF Shown, Status
  <2>6. \A f \in Exports : f # e => Shown(f)' = Shown(f)
    BY <2>4 DEF Shown
  <2> QED
    BY <2>5, <2>6
<1>2. Shown(e) = None
  BY DEF Insert, Shown
<1> QED
  BY <1>1, <1>2 DEF Delivery!Queue, Shown, Insert

\* What a commit works, and the destinations it reaches.
Chosen(d) == {e \in Exports : picked[d][e] # None}
Reached(d) == {x \in Destinations : x[1] \in Chosen(d) /\ Decided(picked[d][x[1]]).last = "sent"}

LEMMA CommitWorks ==
    ASSUME SerialInv, NEW d \in Dispatchers, Commit(d)
    PROVE  Delivery!Work(Chosen(d), Reached(d))
<1> DEFINE batch == Chosen(d)
           accepted == Reached(d)
<1> USE DEF Chosen, Reached
<1>1. \A e \in batch : /\ picked[d][e] = rows[e] /\ rows[e] \in Row /\ rows[e] # None
                       /\ rows[e].last # "sent" /\ sends[e] = 0
                       /\ Decided(rows[e]) \in Row
  BY DecidedIsRow DEF SerialInv, Inv, TypeOK
<1>2. \A e \in batch : Shown(e) \in {"queued", "failed"}
  BY <1>1 DEF Shown, Status, Row, Outcomes
<1>3. \A x \in accepted : x[1] \in batch /\ sends[x[1]] = 0
  BY <1>1
<1>4. \A x \in Destinations : sends'[x[1]] = IF x \in accepted THEN 1 ELSE sends[x[1]]
  <2> SUFFICES ASSUME NEW x \in Destinations
               PROVE  sends'[x[1]] = IF x \in accepted THEN 1 ELSE sends[x[1]]
    OBVIOUS
  <2>1. x[1] \in Exports
    BY DEF Destinations
  <2>2. sends'[x[1]] = IF picked[d][x[1]] # None /\ Decided(picked[d][x[1]]).last = "sent"
                       THEN Bump(sends[x[1]]) ELSE sends[x[1]]
    BY <2>1 DEF Commit
  <2>3. Bump(0) = 1
    BY CapIsAboveLimit DEF Bump
  <2> QED BY <2>1, <2>2, <2>3, <1>1
<1>5. \A e \in Exports : e \in batch => Shown(e)' = IF Decided(rows[e]).last = "sent" THEN "sent" ELSE "failed"
  <2> SUFFICES ASSUME NEW e \in batch
               PROVE  Shown(e)' = IF Decided(rows[e]).last = "sent" THEN "sent" ELSE "failed"
    OBVIOUS
  <2>1. rows'[e] = Decided(rows[e]) /\ Decided(rows[e]) # None
    BY <1>1, NoneIsNoRow DEF Commit
  <2>2. Decided(rows[e]).last \in Outcomes
    <3>1. Outcome(rows[e].form, rows[e].retries + 1) \in Outcomes
      BY DEF Outcome, Outcomes
    <3> QED BY <3>1, <1>1, DecidedIsRow
  <2> QED BY <2>1, <2>2 DEF Shown, Status, Outcomes
<1>6. \A e \in Exports : e \notin batch => Shown(e)' = Shown(e)
  BY DEF Commit, Shown
<1>7. \A e \in batch : (\E x \in accepted : x[1] = e) <=> Decided(rows[e]).last = "sent"
  <2> SUFFICES ASSUME NEW e \in batch
               PROVE  (\E x \in accepted : x[1] = e) <=> Decided(rows[e]).last = "sent"
    OBVIOUS
  <2>1. <<e, "destination">> \in Destinations
    BY DEF Destinations
  <2> QED BY <2>1, <1>1
<1>8. \A e \in Exports : Shown(e)' =
        IF e \notin batch THEN Shown(e)
        ELSE IF \E x \in accepted : x[1] = e THEN "sent" ELSE "failed"
  BY <1>5, <1>6, <1>7
<1> QED
  BY <1>2, <1>3, <1>4, <1>8 DEF Delivery!Work, Shown, Destinations

\* With one dispatcher at a time every step is one of the abstract delivery or leaves it alone.
THEOREM SerialStep ==
    ASSUME OneDispatcher
    PROVE  SerialInv /\ [Next]_vars => SerialInv' /\ [Delivery!Next]_(Delivery!vars)
<1> SUFFICES ASSUME SerialInv, [Next]_vars
             PROVE  SerialInv' /\ [Delivery!Next]_(Delivery!vars)
  OBVIOUS
<1>0. Inv'
  BY NextInv DEF SerialInv
<1> USE NoneIsNoRow
<1>1. ASSUME NEW e \in Exports, NEW form \in Forms, Create(e, form)
      PROVE  SerialInv' /\ UNCHANGED Delivery!vars
  BY <1>0, <1>1 DEF Create, SerialInv, Delivery!vars, Shown
<1>2. ASSUME NEW e \in Exports, Insert(e) PROVE SerialInv' /\ Delivery!Next
  <2>1. Delivery!Queue({e})
    BY <1>2, InsertQueues
  <2>2. SerialInv'
    BY <1>0, <1>2 DEF Insert, SerialInv, Inv, TypeOK
  <2> QED
    BY <2>1, <2>2 DEF Delivery!Next
<1>3. ASSUME NEW d \in Dispatchers, NEW ids \in SUBSET Exports, Select(d, ids)
      PROVE  SerialInv' /\ UNCHANGED Delivery!vars
  <2>1. picked' \in [Dispatchers -> [Exports -> Row \cup {None}]]
    BY <1>0 DEF Inv, TypeOK
  <2>2. \A c \in Dispatchers, e \in Exports : picked'[c][e] # None => picked'[c][e] = rows'[e]
    BY <1>3 DEF Select, SerialInv, Inv, TypeOK
  <2> QED
    BY <1>0, <1>3, <2>2 DEF Select, SerialInv, Delivery!vars, Shown
<1>4. ASSUME NEW d \in Dispatchers, Commit(d) PROVE SerialInv' /\ Delivery!Next
  <2>1. Delivery!Next
    <3>1. Delivery!Work(Chosen(d), Reached(d))
      BY <1>4, CommitWorks
    <3>2. Chosen(d) \in SUBSET Exports /\ Reached(d) \in SUBSET Destinations
      BY DEF Chosen, Reached
    <3> QED
      BY <3>1, <3>2 DEF Delivery!Next, Delivery!Work
  <2>2. \A e \in Exports : (rows'[e] = None \/ rows'[e].last # "sent") => sends'[e] = 0
    <3> SUFFICES ASSUME NEW e \in Exports, rows'[e] = None \/ rows'[e].last # "sent"
                 PROVE  sends'[e] = 0
      OBVIOUS
    <3>1. CASE picked[d][e] = None
      BY <1>4, <3>1 DEF Commit, SerialInv
    <3>2. CASE picked[d][e] # None
      <4>1. picked[d][e] = rows[e] /\ rows[e] \in Row /\ sends[e] = 0
        BY <3>2 DEF SerialInv, Inv, TypeOK
      <4>2. rows'[e] = Decided(rows[e]) /\ rows'[e] # None
        BY <1>4, <3>2, <4>1, DecidedIsRow DEF Commit
      <4> QED BY <1>4, <3>2, <4>1, <4>2 DEF Commit
    <3> QED BY <3>1, <3>2
  <2>3. \A c \in Dispatchers, e \in Exports : picked'[c][e] = None
    BY <1>4 DEF OneDispatcher, Commit, SerialInv, Inv, TypeOK, Nothing
  <2> QED
    BY <1>0, <2>1, <2>2, <2>3 DEF SerialInv
<1>5. ASSUME NEW d \in Dispatchers, Lose(d) PROVE SerialInv' /\ UNCHANGED Delivery!vars
  <2>1. \A c \in Dispatchers, e \in Exports : picked'[c][e] # None => picked'[c][e] = rows'[e]
    BY <1>5 DEF Lose, SerialInv, Inv, TypeOK, Nothing
  <2> QED
    BY <1>0, <1>5, <2>1 DEF Lose, SerialInv, Delivery!vars, Shown
<1>6. ASSUME UNCHANGED vars PROVE SerialInv' /\ UNCHANGED Delivery!vars
  BY <1>0, <1>6 DEF vars, SerialInv, Delivery!vars, Shown
<1> QED
  BY <1>1, <1>2, <1>3, <1>4, <1>5, <1>6 DEF Next

\* With one dispatcher at a time every export is handed over at most once, and the outbox
\* keeps the promise of AlertDelivery.
THEOREM SerialExportsDeliver ==
    ASSUME OneDispatcher
    PROVE  Spec => ExportsAsPromised
<1>1. Init => SerialInv /\ Delivery!Init
  BY SerialInit
<1>2. SerialInv /\ [Next]_vars => SerialInv' /\ [Delivery!Next]_(Delivery!vars)
  BY SerialStep
<1> QED
  BY <1>1, <1>2, PTL DEF Spec, ExportsAsPromised, Delivery!Spec
=============================================================================
