------------------------ MODULE PurchaseCase_proofs ------------------------
(* Theorems about PurchaseCase, for every set of posted requests, every     *)
(* way in which facts can get worse and every number of changes: a request  *)
(* that is carried from kit to kit is one that the model of its kit         *)
(* accepts, the kit that is handed a held purchase holds it too, no kit     *)
(* that weighs the price spends more than the budget, and an ordinary       *)
(* request is answered.                                                     *)
(*                                                                          *)
(* The kits cut, filter and merge lists of texts.  The first part says what *)
(* is left of a list; the second follows what made a kit hold the purchase  *)
(* to the request it fills in, one pair of kits at a time.                  *)
EXTENDS PurchaseCase, FiniteSetTheorems, TLAPS

-----------------------------------------------------------------------------
(* Lists.                                                                   *)

\* The elements of a list are its items, and there are none only in the empty list.
LEMMA ElementsOf ==
    ASSUME NEW S, NEW items \in Seq(S)
    PROVE  /\ Elements(items) = {items[i] : i \in 1..Len(items)}
           /\ Elements(items) \subseteq S
           /\ (Elements(items) = {}) <=> (items = <<>>)
           /\ List(items)
<1>1. DOMAIN items = 1..Len(items) /\ Len(items) \in Nat /\ \A i \in 1..Len(items) : items[i] \in S
  OBVIOUS
<1>2. Elements(items) = {items[i] : i \in 1..Len(items)}
  BY <1>1 DEF Elements
<1>3. items # <<>> => 1 \in 1..Len(items)
  BY <1>1
<1>4. items = <<>> => 1..Len(items) = {}
  BY <1>1
<1>5. List(items)
  <2>1. \A i \in 1..Len(items) : items[i] \in Elements(items)
    BY <1>2
  <2> QED
    BY <1>1, <2>1 DEF List
<1> QED
  BY <1>1, <1>2, <1>3, <1>4, <1>5, Zenon

\* A list has a length, which is 0 only for the empty list.
LEMMA LengthOf ==
    ASSUME NEW items, List(items)
    PROVE  Len(items) \in Nat /\ (items = <<>> <=> Len(items) = 0)
  BY DEF List

\* What two lists have together.
LEMMA ElementsOfBoth ==
    ASSUME NEW s, NEW t, List(s), List(t)
    PROVE  /\ List(s \o t)
           /\ Elements(s \o t) = Elements(s) \cup Elements(t)
           /\ Len(s \o t) = Len(s) + Len(t)
           /\ \A i \in 1..Len(s) : (s \o t)[i] = s[i]
           /\ \A i \in 1..Len(t) : (s \o t)[Len(s) + i] = t[i]
<1> DEFINE S == Elements(s) \cup Elements(t)
<1>0. s \in Seq(S) /\ t \in Seq(S)
  BY DEF List
<1> HIDE DEF S
<1> USE <1>0
<1>1. s \o t \in Seq(S) /\ Len(s \o t) = Len(s) + Len(t)
  OBVIOUS
<1>2. \A i \in 1..Len(s) : (s \o t)[i] = s[i]
  OBVIOUS
<1>3. \A i \in 1..Len(t) : (s \o t)[Len(s) + i] = t[i]
  OBVIOUS
<1>4. \A i \in 1..(Len(s) + Len(t)) : i \in 1..Len(s) \/ \E k \in 1..Len(t) : i = Len(s) + k
  <2>1. TAKE i \in 1..(Len(s) + Len(t))
  <2>2. CASE i <= Len(s)
    BY <2>2
  <2>3. CASE i > Len(s)
    <3>1. i - Len(s) \in 1..Len(t) /\ i = Len(s) + (i - Len(s))
      BY <2>3
    <3> QED
      BY <3>1
  <2> QED
    BY <2>2, <2>3
<1>5. ASSUME NEW e \in Elements(s \o t) PROVE e \in Elements(s) \cup Elements(t)
  <2>1. PICK i \in 1..Len(s \o t) : e = (s \o t)[i]
    BY <1>1 DEF Elements
  <2>2. CASE i \in 1..Len(s)
    BY <1>2, <2>1, <2>2 DEF Elements
  <2>3. CASE \E k \in 1..Len(t) : i = Len(s) + k
    <3>1. PICK k \in 1..Len(t) : i = Len(s) + k
      BY <2>3
    <3> QED
      BY <1>3, <2>1, <3>1 DEF Elements
  <2> QED
    BY <1>1, <1>4, <2>2, <2>3
<1>6. Elements(s) \subseteq Elements(s \o t)
  <2>1. 1..Len(s) \subseteq DOMAIN (s \o t)
    BY <1>1
  <2> QED
    BY <1>2, <2>1 DEF Elements
<1>7. Elements(t) \subseteq Elements(s \o t)
  <2>1. \A i \in 1..Len(t) : Len(s) + i \in DOMAIN (s \o t)
    BY <1>1
  <2>2. Elements(t) = {t[i] : i \in 1..Len(t)}
    BY DEF Elements
  <2>3. \A i \in 1..Len(t) : (s \o t)[Len(s) + i] \in Elements(s \o t)
    BY <2>1, Zenon DEF Elements
  <2> QED
    BY <1>3, <2>2, <2>3
<1>8. List(s \o t)
  BY <1>1, ElementsOf
<1> QED
  BY <1>1, <1>2, <1>3, <1>5, <1>6, <1>7, <1>8

\* items[:n] keeps the first n items.
LEMMA FirstOf ==
    ASSUME NEW items, List(items), NEW n \in Nat
    PROVE  /\ List(First(items, n))
           /\ Len(First(items, n)) = AtMost(Len(items), n)
           /\ \A i \in 1..AtMost(Len(items), n) : First(items, n)[i] = items[i]
           /\ Elements(First(items, n)) \subseteq Elements(items)
           /\ n > 0 => (First(items, n) = <<>> <=> items = <<>>)
<1> DEFINE S == Elements(items)
<1>0. items \in Seq(S)
  BY DEF List
<1> HIDE DEF S
<1> USE <1>0
<1>1. AtMost(Len(items), n) \in 0..Len(items)
  BY DEF AtMost
<1>2. /\ First(items, n) \in Seq(S)
      /\ Len(First(items, n)) = AtMost(Len(items), n)
      /\ \A i \in 1..AtMost(Len(items), n) : First(items, n)[i] = items[i]
  BY <1>1 DEF First
<1>3. n > 0 => (AtMost(Len(items), n) = 0 <=> Len(items) = 0)
  BY DEF AtMost
<1>4. Elements(First(items, n)) \subseteq Elements(items)
  BY <1>1, <1>2 DEF Elements
<1>5. List(First(items, n))
  BY <1>2, ElementsOf
<1> QED
  BY <1>2, <1>3, <1>4, <1>5

\* A list of at most n items is kept, and any other has n items and a rest.
LEMMA FirstOrRest ==
    ASSUME NEW items, List(items)
    PROVE  Elements(items) = Elements(First(items, 10)) \cup Elements(Rest(items))
<1> DEFINE S == Elements(items)
<1>0. items \in Seq(S)
  BY DEF List
<1> HIDE DEF S
<1> USE <1>0
<1>1. /\ Rest(items) \in Seq(S)
      /\ Len(Rest(items)) = IF Len(items) > 10 THEN Len(items) - 10 ELSE 0
      /\ \A i \in 1..Len(Rest(items)) : Rest(items)[i] = items[i + 10]
  BY DEF Rest
<1>2. /\ Len(First(items, 10)) = IF Len(items) > 10 THEN 10 ELSE Len(items)
      /\ \A i \in 1..Len(First(items, 10)) : First(items, 10)[i] = items[i]
      /\ List(First(items, 10)) /\ Elements(First(items, 10)) \subseteq Elements(items)
  BY FirstOf DEF AtMost
<1>3. \A i \in 1..Len(items) : items[i] \in Elements(First(items, 10)) \cup Elements(Rest(items))
  <2>1. TAKE i \in 1..Len(items)
  <2>2. CASE i <= 10
    <3>1. i \in 1..Len(First(items, 10))
      <4>1. i \in Nat /\ i >= 1 /\ i <= Len(items) /\ Len(items) \in Nat
        OBVIOUS
      <4>2. i <= IF Len(items) > 10 THEN 10 ELSE Len(items)
        BY <2>2, <4>1
      <4>3. PICK k \in Nat : k = Len(First(items, 10)) /\ i <= k
        BY <1>2, <4>1, <4>2
      <4> QED
        BY <4>1, <4>3
    <3>2. First(items, 10)[i] \in Elements(First(items, 10))
      BY <1>2, <3>1 DEF Elements, List
    <3> QED
      BY <1>2, <3>1, <3>2
  <2>3. CASE i > 10
    <3>1. i - 10 \in 1..Len(Rest(items)) /\ (i - 10) + 10 = i
      BY <1>1, <2>3
    <3>2. Rest(items)[i - 10] = items[i]
      BY <1>1, <3>1
    <3> QED
      BY <1>1, <3>1, <3>2 DEF Elements
  <2> QED
    BY <2>2, <2>3
<1>4. Elements(Rest(items)) \subseteq Elements(items)
  <2>1. \A i \in 1..Len(Rest(items)) : i + 10 \in 1..Len(items)
    BY <1>1
  <2> QED
    BY <1>1, <2>1 DEF Elements
<1> QED
  BY <1>2, <1>3, <1>4, ElementsOf

\* The words of a part of a list are words of the list.
LEMMA AllOfPart ==
    ASSUME NEW s, NEW t, Elements(s) \subseteq Elements(t)
    PROVE  AllOf(s) \subseteq AllOf(t)
  BY DEF AllOf

\* One item.
LEMMA OneOf ==
    ASSUME NEW item
    PROVE  List(<<item>>) /\ Elements(<<item>>) = {item} /\ Len(<<item>>) = 1 /\ <<item>>[1] = item
<1>1. <<item>> \in Seq({item}) /\ Elements(<<item>>) = {item}
  BY DEF Elements
<1> QED
  BY <1>1, ElementsOf

\* Two items.
LEMMA TwoOf ==
    ASSUME NEW x, NEW y
    PROVE  List(<<x, y>>) /\ Elements(<<x, y>>) = {x, y} /\ Len(<<x, y>>) = 2 /\ <<x, y>>[1] = x
<1>1. <<x, y>> \in Seq({x, y}) /\ Elements(<<x, y>>) = {x, y}
  BY DEF Elements
<1> QED
  BY <1>1, ElementsOf

\* No item.
LEMMA NoneOf == List(<<>>) /\ Elements(<<>>) = {} /\ Len(<<>>) = 0
<1>1. <<>> \in Seq({}) /\ Elements(<<>>) = {}
  BY DEF Elements
<1> QED
  BY <1>1, ElementsOf

\* The place that the item of a given place has in At is one more than how many come before it.
Earlier(places, i) == {j \in places : j < i}

\* Those that come before: fewer than all of them, and than the places there are.
LEMMA EarlierOf ==
    ASSUME NEW n \in Nat, NEW places \in SUBSET (1..n)
    PROVE  /\ IsFiniteSet(places) /\ Cardinality(places) \in Nat
           /\ \A i \in places : /\ Cardinality(Earlier(places, i)) \in 0..(Cardinality(places) - 1)
                                /\ Cardinality(Earlier(places, i)) < i
           /\ \A i, k \in places :
                  Cardinality(Earlier(places, i)) = Cardinality(Earlier(places, k)) => i = k
<1>1. IsFiniteSet(places)
  <2>1. IsFiniteSet(1..n)
    BY FS_Interval
  <2> QED
    BY <2>1, FS_Subset
<1>2. Cardinality(places) \in Nat
  BY <1>1, FS_CardinalityType
<1>3. \A i \in places : /\ IsFiniteSet(Earlier(places, i))
                        /\ Cardinality(Earlier(places, i)) \in Nat
                        /\ Cardinality(Earlier(places, i)) <= Cardinality(places)
  <2>1. TAKE i \in places
  <2>2. Earlier(places, i) \in SUBSET places
    BY DEF Earlier
  <2> QED
    BY <1>1, <2>2, FS_Subset, FS_CardinalityType
<1>4. \A i \in places : Cardinality(Earlier(places, i)) # Cardinality(places)
  <2>1. TAKE i \in places
  <2>2. Earlier(places, i) \in SUBSET places /\ i \notin Earlier(places, i)
    BY DEF Earlier
  <2> QED
    BY <1>1, <2>2, FS_Subset
<1>5. \A i \in places : Cardinality(Earlier(places, i)) < i
  <2>1. TAKE i \in places
  <2>2. i \in Nat /\ i > 0 /\ i - 1 \in Nat
    OBVIOUS
  <2>3. Earlier(places, i) \in SUBSET (1..(i - 1))
    <3>1. \A j \in places : j < i => j \in 1..(i - 1)
      BY <2>2
    <3> QED
      BY <3>1 DEF Earlier
  <2>4. IsFiniteSet(1..(i - 1)) /\ Cardinality(1..(i - 1)) = i - 1
    BY <2>2, FS_Interval
  <2>5. Cardinality(Earlier(places, i)) <= i - 1
    BY <2>3, <2>4, FS_Subset
  <2> QED
    BY <1>3, <2>2, <2>5
<1>6. ASSUME NEW i \in places, NEW k \in places, i < k
      PROVE  Cardinality(Earlier(places, i)) # Cardinality(Earlier(places, k))
  <2>1. Earlier(places, i) \in SUBSET Earlier(places, k)
    <3>1. \A j \in places : j < i => j < k
      BY <1>6
    <3> QED
      BY <3>1 DEF Earlier
  <2>2. i \in Earlier(places, k) /\ i \notin Earlier(places, i)
    BY <1>6 DEF Earlier
  <2> QED
    BY <1>3, <2>1, <2>2, FS_Subset
<1>7. \A i, k \in places : i < k \/ k < i \/ i = k
  OBVIOUS
<1>8. \A i \in places : Cardinality(Earlier(places, i)) \in 0..(Cardinality(places) - 1)
  BY <1>2, <1>3, <1>4
<1>9. \A i, k \in places :
          Cardinality(Earlier(places, i)) = Cardinality(Earlier(places, k)) => i = k
  BY <1>6, <1>7
<1> QED
  BY <1>1, <1>2, <1>5, <1>8, <1>9

\* Every count up to the number of places is the count of one.
LEMMA EarlierReached ==
    ASSUME NEW n \in Nat, NEW places \in SUBSET (1..n), NEW m \in 1..Cardinality(places)
    PROVE  \E i \in places : Cardinality(Earlier(places, i)) = m - 1
<1> DEFINE c == Cardinality(places)
           f == [i \in places |-> Cardinality(Earlier(places, i))]
<1>1. IsFiniteSet(places) /\ c \in Nat
  BY EarlierOf
<1>2. f \in [places -> 0..(c - 1)]
  BY EarlierOf
<1>3. f \in Injection(places, 0..(c - 1))
  <2>1. \A i, k \in places : f[i] = f[k] => i = k
    BY EarlierOf
  <2> QED
    BY <1>2, <2>1 DEF Injection, IsInjective
<1>4. m - 1 \in 0..(c - 1)
  BY <1>1
<1>5. f \in Surjection(places, 0..(c - 1))
  <2> HIDE DEF c, f
  <2>1. c - 1 \in Int
    BY <1>1
  <2>2. IsFiniteSet(0..(c - 1)) /\ Cardinality(0..(c - 1)) = IF 0 > c - 1 THEN 0 ELSE (c - 1) - 0 + 1
    BY <2>1, FS_Interval
  <2>3. Cardinality(0..(c - 1)) = c
    BY <1>1, <2>2
  <2>4. Cardinality(places) = c
    BY DEF c
  <2> QED
    BY <1>3, <2>2, <2>3, <2>4, FS_Injection
<1>6. \E i \in places : f[i] = m - 1
  BY <1>4, <1>5 DEF Surjection
<1> QED
  BY <1>6

\* What is at some places of a list: each item once for each place, in their order.
LEMMA AtOf ==
    ASSUME NEW items, List(items), NEW places \in SUBSET (1..Len(items))
    PROVE  /\ List(At(items, places))
           /\ Elements(At(items, places)) = {items[i] : i \in places}
           /\ \A i \in places : \E m \in 1..i : m <= Len(At(items, places)) /\ At(items, places)[m] = items[i]
           /\ places # {} => At(items, places) # <<>>
<1> DEFINE S == Elements(items)
<1>0. items \in Seq(S)
  BY DEF List
<1> HIDE DEF S
<1> USE <1>0
<1> DEFINE c == Cardinality(places)
           a == At(items, places)
<1>1. Len(items) \in Nat /\ c \in Nat /\ IsFiniteSet(places)
  <2>1. Len(items) \in Nat
    OBVIOUS
  <2> QED
    BY <2>1, EarlierOf
<1>2. a = [m \in 1..c |-> items[CHOOSE i \in places : Cardinality(Earlier(places, i)) = m - 1]]
  BY Zenon DEF At, Earlier
<1>3. \A m \in 1..c : \E i \in places : Cardinality(Earlier(places, i)) = m - 1 /\ a[m] = items[i]
  <2>1. TAKE m \in 1..c
  <2>2. \E i \in places : Cardinality(Earlier(places, i)) = m - 1
    BY <1>1, EarlierReached
  <2> QED
    BY <1>2, <2>2
<1>4. a \in [1..c -> S]
  BY <1>2, <1>3
<1>5. a \in Seq(S) /\ Len(a) = c
  BY <1>1, <1>4
<1>6. \A i \in places : \E m \in 1..i : m <= c /\ a[m] = items[i]
  <2>1. TAKE i \in places
  <2>2. PICK e \in 0..(c - 1) : e = Cardinality(Earlier(places, i)) /\ e < i
    BY <1>1, EarlierOf
  <2>3. e + 1 \in 1..c /\ e + 1 \in 1..i /\ (e + 1) - 1 = e
    BY <1>1, <2>2
  <2>4. PICK k \in places : Cardinality(Earlier(places, k)) = (e + 1) - 1 /\ a[e + 1] = items[k]
    BY <1>3, <2>3
  <2>5. k = i
    BY <1>1, <2>2, <2>3, <2>4, EarlierOf
  <2> QED
    BY <1>1, <2>3, <2>4, <2>5
<1>7. Elements(a) \subseteq {items[i] : i \in places}
  <2>1. Elements(a) = {a[m] : m \in 1..c}
    BY <1>4 DEF Elements
  <2> QED
    BY <1>3, <2>1
<1>8. ASSUME NEW i \in places PROVE items[i] \in Elements(a)
  <2>1. PICK m \in 1..i : m <= c /\ a[m] = items[i]
    BY <1>6
  <2>2. m \in 1..Len(a)
    BY <1>1, <1>5, <2>1
  <2> QED
    BY <1>5, <2>1, <2>2 DEF Elements
<1>9. places # {} => a # <<>>
  BY <1>1, <1>5, FS_EmptySet
<1>10. List(a)
  BY <1>5, ElementsOf
<1> QED
  BY <1>5, <1>6, <1>7, <1>8, <1>9, <1>10

\* Some places have a first.
LEMMA FirstPlace ==
    ASSUME NEW n \in Nat, NEW places \in SUBSET (1..n), places # {}
    PROVE  \E i \in places : \A j \in places : i <= j
<1>1. IsFiniteSet(places) /\ Cardinality(places) \in Nat
  BY EarlierOf
<1>2. 1 \in 1..Cardinality(places)
  BY <1>1, FS_EmptySet
<1>3. PICK i \in places : Cardinality(Earlier(places, i)) = 1 - 1
  BY <1>2, EarlierReached
<1>4. Earlier(places, i) \in SUBSET places
  BY DEF Earlier
<1>5. Earlier(places, i) = {}
  BY <1>1, <1>3, <1>4, FS_Subset, FS_EmptySet
<1> QED
  BY <1>5 DEF Earlier

\* list(dict.fromkeys(items)) has the same items, none later than it was.
LEMMA DistinctOf ==
    ASSUME NEW items, List(items)
    PROVE  /\ List(Distinct(items))
           /\ Elements(Distinct(items)) \subseteq Elements(items)
           /\ \A i \in 1..Len(items) :
                  \E m \in 1..i : m <= Len(Distinct(items)) /\ Distinct(items)[m] = items[i]
           /\ items # <<>> => Distinct(items) # <<>>
<1> DEFINE S == Elements(items)
<1>0. items \in Seq(S)
  BY DEF List
<1> HIDE DEF S
<1> USE <1>0
<1> DEFINE places == {i \in DOMAIN items : \A j \in 1..(i - 1) : items[j] # items[i]}
<1>1. places \in SUBSET (1..Len(items)) /\ Distinct(items) = At(items, places)
  BY DEF Distinct
<1>2. \A i \in 1..Len(items) : \E k \in 1..i : k \in places /\ items[k] = items[i]
  <2>1. TAKE i \in 1..Len(items)
  <2> DEFINE same == {k \in 1..Len(items) : items[k] = items[i]}
  <2>2. i \in same
    OBVIOUS
  <2>3. PICK k \in same : \A j \in same : k <= j
    <3>1. same \in SUBSET (1..Len(items)) /\ same # {} /\ Len(items) \in Nat
      BY <2>2
    <3> HIDE DEF same
    <3> QED
      BY <3>1, FirstPlace
  <2>4. \A j \in 1..(k - 1) : items[j] # items[k]
    BY <2>3
  <2> QED
    BY <2>2, <2>3, <2>4
<1>3. \A i \in 1..Len(items) :
          \E m \in 1..i : m <= Len(Distinct(items)) /\ Distinct(items)[m] = items[i]
  <2>1. TAKE i \in 1..Len(items)
  <2>2. PICK k \in 1..i : k \in places /\ items[k] = items[i]
    BY <1>2
  <2>3. PICK m \in 1..k : m <= Len(At(items, places)) /\ At(items, places)[m] = items[k]
    BY <1>1, <2>2, AtOf
  <2>4. m \in 1..i
    BY <2>2, <2>3
  <2> QED
    BY <1>1, <2>2, <2>3, <2>4
<1>4. List(Distinct(items))
  BY <1>1, AtOf
<1>5. Elements(Distinct(items)) = {items[i] : i \in places}
  <2> HIDE DEF places
  <2> QED
    BY <1>1, AtOf
<1>6. Elements(Distinct(items)) \subseteq Elements(items)
  BY <1>5 DEF Elements
<1>7. items # <<>> => Distinct(items) # <<>>
  <2>1. items # <<>> => 1 \in 1..Len(items)
    OBVIOUS
  <2>2. 1 \in 1..Len(items) => places # {}
    BY <1>2
  <2> HIDE DEF places
  <2> QED
    BY <1>1, <2>1, <2>2, AtOf
<1> QED
  BY <1>3, <1>4, <1>6, <1>7

\* [item for item in items if ...]: one that passes is kept.
LEMMA OnlyRefused ==
    ASSUME NEW items, List(items)
    PROVE  /\ List(Only(items, Refused))
           /\ (\E item \in Elements(items) : Refused(item)) => Only(items, Refused) # <<>>
<1> DEFINE places == {i \in DOMAIN items : Refused(items[i])}
<1>1. places \in SUBSET (1..Len(items)) /\ Only(items, Refused) = At(items, places)
  BY DEF Only, List
<1>2. (\E item \in Elements(items) : Refused(item)) => places # {}
  BY DEF Elements
<1> HIDE DEF places
<1> QED
  BY <1>1, <1>2, AtOf

-----------------------------------------------------------------------------
(* What the kits look for.                                                  *)

\* A kit's requests are rejected all together, or all are accepted.
LEMMA Handed ==
    ASSUME NEW r, NEW n \in AnswerTo(r).handoffs
    PROVE  /\ AnswerTo(r) = KitAnswer(r)
           /\ n \in KitAnswer(r).handoffs
           /\ \A handoff \in KitAnswer(r).handoffs : Accepted(handoff)
  BY DEF AnswerTo, Checked, Failed, Answer

\* The verdict of a kit whose requests are accepted.
LEMMA AnswersItself ==
    ASSUME NEW r, \A handoff \in KitAnswer(r).handoffs : Accepted(handoff)
    PROVE  AnswerTo(r) = KitAnswer(r)
  BY DEF AnswerTo, Checked

\* The routes of the kits that pass a decision on.
LEMMA Routes ==
    ASSUME NEW r
    PROVE  /\ r.kit = "reply" => KitAnswer(r) = ReplyKit(r)
           /\ r.kit = "journey" => KitAnswer(r) = JourneyKit(r)
           /\ r.kit = "final" => KitAnswer(r) = FinalKit(r)
           /\ r.kit = "lock" => KitAnswer(r) = LockKit(r)
           /\ r.kit = "cart" => KitAnswer(r) = CartKit(r)
           /\ r.kit = "page" => KitAnswer(r) = PageKit(r)
           /\ r.kit = "seller" => KitAnswer(r) = SellerKit(r)
  BY DEF KitAnswer

\* And of those they pass it to.
LEMMA RoutesOn ==
    ASSUME NEW r
    PROVE  /\ r.kit = "execution" => KitAnswer(r) = ExecutionKit(r)
           /\ r.kit = "reviewer" => KitAnswer(r) = ReviewerKit(r)
           /\ r.kit = "scanner" => KitAnswer(r) = ScannerKit(r)
           /\ r.kit = "approval" => KitAnswer(r) = ApprovalKit(r)
  BY DEF KitAnswer

\* What is a refusal.
LEMMA Refusals ==
    /\ \A text : Refused(text) <=> "noReturn" \in text \/ "noSupport" \in text
    /\ ~Refused({"used"}) /\ ~Refused({"noReturnJoined"}) /\ ~Refused({"nosupport"})
    /\ Refused({"noReturn"}) /\ Refused({"noSupport"})
    /\ \A word \in {"used", "noReturn", "noReturnJoined", "noSupport", "nosupport"} :
           "far over budget" \notin {word}
  BY DEF Refused

\* A refusal in a text is among the first three risks that a kit finds in it, and no other risk is
\* a refusal.
LEMMA RiskTermsOf ==
    ASSUME NEW text
    PROVE  /\ List(RiskTerms(text))
           /\ \A flag \in Elements(RiskTerms(text)) :
                  "far over budget" \notin flag /\ (Refused(flag) => Refused(text))
           /\ Refused(text) => \E k \in 1..3 : k <= Len(RiskTerms(text)) /\ Refused(RiskTerms(text)[k])
<1> DEFINE a == IF "used" \in text THEN <<{"used"}>> ELSE <<>>
           b == IF "noReturn" \in text THEN <<{"noReturn"}>> ELSE <<>>
           c == IF "noReturnJoined" \in text THEN <<{"noReturnJoined"}>> ELSE <<>>
           d == IF "noSupport" \in text THEN <<{"noSupport"}, {"nosupport"}>> ELSE <<>>
           good(flag) == "far over budget" \notin flag /\ (Refused(flag) => Refused(text))
<1>1. RiskTerms(text) = a \o b \o c \o d
  BY DEF RiskTerms, When
<1>2. List(a) /\ Len(a) \in 0..1 /\ \A flag \in Elements(a) : good(flag)
  <2>1. CASE "used" \in text
    <3>1. a = <<{"used"}>>
      BY <2>1
    <3>2. good({"used"})
      BY Refusals
    <3> HIDE DEF a, good
    <3>3. List(a) /\ Elements(a) = {{"used"}} /\ Len(a) = 1 /\ a[1] = {"used"}
      BY <3>1, OneOf
    <3> QED
      BY <2>1, <3>2, <3>3
  <2>2. CASE "used" \notin text
    <3>1. a = <<>>
      BY <2>2
    <3> HIDE DEF a, good
    <3>2. List(a) /\ Elements(a) = {} /\ Len(a) = 0
      BY <3>1, NoneOf
    <3> QED
      BY <2>2, <3>2
  <2> QED
    BY <2>1, <2>2
<1>3. /\ List(b) /\ Len(b) = (IF "noReturn" \in text THEN 1 ELSE 0) /\ \A flag \in Elements(b) : good(flag)
      /\ "noReturn" \in text => b[1] = {"noReturn"}
  <2>1. CASE "noReturn" \in text
    <3>1. b = <<{"noReturn"}>>
      BY <2>1
    <3>2. good({"noReturn"})
      BY <2>1, Refusals
    <3> HIDE DEF b, good
    <3>3. List(b) /\ Elements(b) = {{"noReturn"}} /\ Len(b) = 1 /\ b[1] = {"noReturn"}
      BY <3>1, OneOf
    <3> QED
      BY <2>1, <3>2, <3>3
  <2>2. CASE "noReturn" \notin text
    <3>1. b = <<>>
      BY <2>2
    <3> HIDE DEF b, good
    <3>2. List(b) /\ Elements(b) = {} /\ Len(b) = 0
      BY <3>1, NoneOf
    <3> QED
      BY <2>2, <3>2
  <2> QED
    BY <2>1, <2>2
<1>4. List(c) /\ Len(c) \in 0..1 /\ \A flag \in Elements(c) : good(flag)
  <2>1. CASE "noReturnJoined" \in text
    <3>1. c = <<{"noReturnJoined"}>>
      BY <2>1
    <3>2. good({"noReturnJoined"})
      BY Refusals
    <3> HIDE DEF c, good
    <3>3. List(c) /\ Elements(c) = {{"noReturnJoined"}} /\ Len(c) = 1 /\ c[1] = {"noReturnJoined"}
      BY <3>1, OneOf
    <3> QED
      BY <2>1, <3>2, <3>3
  <2>2. CASE "noReturnJoined" \notin text
    <3>1. c = <<>>
      BY <2>2
    <3> HIDE DEF c, good
    <3>2. List(c) /\ Elements(c) = {} /\ Len(c) = 0
      BY <3>1, NoneOf
    <3> QED
      BY <2>2, <3>2
  <2> QED
    BY <2>1, <2>2
<1>5. /\ List(d) /\ \A flag \in Elements(d) : good(flag)
      /\ "noSupport" \in text => Len(d) = 2 /\ d[1] = {"noSupport"}
  <2>1. CASE "noSupport" \in text
    <3>1. d = <<{"noSupport"}, {"nosupport"}>>
      BY <2>1
    <3>2. good({"noSupport"}) /\ good({"nosupport"})
      BY <2>1, Refusals
    <3> HIDE DEF d, good
    <3>3. /\ List(d) /\ Elements(d) = {{"noSupport"}, {"nosupport"}}
          /\ Len(d) = 2 /\ d[1] = {"noSupport"}
      BY <3>1, TwoOf
    <3> QED
      BY <2>1, <3>2, <3>3
  <2>2. CASE "noSupport" \notin text
    <3>1. d = <<>>
      BY <2>2
    <3> HIDE DEF d, good
    <3>2. List(d) /\ Elements(d) = {} /\ Len(d) = 0
      BY <3>1, NoneOf
    <3> QED
      BY <2>2, <3>2
  <2> QED
    BY <2>1, <2>2
<1> HIDE DEF a, b, c, d, good
<1>6. /\ List(a \o b) /\ Len(a \o b) = Len(a) + Len(b)
      /\ Elements(a \o b) = Elements(a) \cup Elements(b)
  BY <1>2, <1>3, ElementsOfBoth
<1>7. /\ List(a \o b \o c) /\ Len(a \o b \o c) = Len(a \o b) + Len(c)
      /\ Elements(a \o b \o c) = Elements(a \o b) \cup Elements(c)
  BY <1>4, <1>6, ElementsOfBoth
<1>8. /\ List(a \o b \o c \o d) /\ Len(a \o b \o c \o d) = Len(a \o b \o c) + Len(d)
      /\ Elements(a \o b \o c \o d) = Elements(a \o b \o c) \cup Elements(d)
  BY <1>5, <1>7, ElementsOfBoth
<1>9. \A flag \in Elements(a \o b \o c \o d) : good(flag)
  BY <1>2, <1>3, <1>4, <1>5, <1>6, <1>7, <1>8
<1>10. Len(d) \in Nat
  BY <1>5 DEF List
<1>11. ASSUME "noReturn" \in text
       PROVE  \E k \in 1..3 : k <= Len(a \o b \o c \o d) /\ Refused((a \o b \o c \o d)[k])
  <2>1. Len(b) = 1 /\ Refused(b[1])
    BY <1>3, <1>11, Refusals
  <2>2. Len(a) + 1 \in 1..Len(a \o b) /\ Len(a) + 1 \in 1..Len(a \o b \o c) /\ Len(a) + 1 \in 1..3
    BY <1>2, <1>4, <1>6, <1>7, <2>1
  <2>3. (a \o b)[Len(a) + 1] = b[1]
    BY <1>2, <1>3, <2>1, ElementsOfBoth
  <2>4. (a \o b \o c)[Len(a) + 1] = b[1]
    BY <1>4, <1>6, <2>2, <2>3, ElementsOfBoth
  <2>5. (a \o b \o c \o d)[Len(a) + 1] = b[1]
    BY <1>5, <1>7, <2>2, <2>4, ElementsOfBoth
  <2>6. Len(a) + 1 <= Len(a \o b \o c \o d)
    BY <1>2, <1>4, <1>6, <1>7, <1>8, <1>10, <2>1
  <2> QED
    BY <2>1, <2>2, <2>5, <2>6
<1>12. ASSUME "noReturn" \notin text, "noSupport" \in text
       PROVE  \E k \in 1..3 : k <= Len(a \o b \o c \o d) /\ Refused((a \o b \o c \o d)[k])
  <2>1. Len(d) = 2 /\ Refused(d[1]) /\ Len(b) = 0
    BY <1>3, <1>5, <1>12, Refusals
  <2>2. Len(a \o b \o c) + 1 \in 1..3 /\ Len(a \o b \o c) + 1 <= Len(a \o b \o c \o d)
    <3>1. Len(a) \in 0..1 /\ Len(c) \in 0..1 /\ Len(a \o b \o c) = Len(a) + Len(c)
      BY <1>2, <1>4, <1>6, <1>7, <2>1
    <3>2. Len(a \o b \o c \o d) = Len(a \o b \o c) + 2
      BY <1>8, <2>1
    <3>3. PICK x, y \in 0..1 : x = Len(a) /\ y = Len(c)
      BY <3>1, Zenon
    <3>4. Len(a \o b \o c) = x + y /\ Len(a \o b \o c \o d) = x + y + 2
      BY <3>1, <3>2, <3>3, Zenon
    <3>5. x + y + 1 \in 1..3 /\ x + y + 1 <= x + y + 2
      OBVIOUS
    <3> QED
      BY <3>4, <3>5, Zenon
  <2>3. (a \o b \o c \o d)[Len(a \o b \o c) + 1] = d[1]
    BY <1>5, <1>7, <2>1, ElementsOfBoth
  <2> QED
    BY <2>1, <2>2, <2>3
<1> QED
  BY <1>1, <1>8, <1>9, <1>11, <1>12, Refusals DEF good

\* What a kit says of the reviews is no refusal.
LEMMA ReviewFlagOf ==
    ASSUME NEW text
    PROVE  /\ List(ReviewFlag(text))
           /\ \A flag \in Elements(ReviewFlag(text)) : "far over budget" \notin flag /\ ~Refused(flag)
<1> DEFINE item == {"review risk"} \cup (text \cap {"defect"})
                                   \cup {w \in {"support"} : text \cap {"support", "noSupport"} # {}}
<1>1. "far over budget" \notin item /\ ~Refused(item)
  BY DEF Refused
<1>2. ReviewFlag(text) = IF text \cap ReviewRisks # {} THEN <<item>> ELSE <<>>
  BY DEF ReviewFlag, When
<1> HIDE DEF item
<1>3. CASE ReviewFlag(text) = <<item>>
  <2>1. List(<<item>>) /\ Elements(<<item>>) = {item}
    BY OneOf
  <2> QED
    BY <1>1, <1>3, <2>1
<1>4. CASE ReviewFlag(text) = <<>>
  BY <1>4, NoneOf
<1> QED
  BY <1>2, <1>3, <1>4

-----------------------------------------------------------------------------
(* From kit to kit.                                                         *)

\* What makes the journey block: a refusal in what is missing or in what it reads, and a price far
\* over the budget.
LEMMA JourneyBlocks ==
    ASSUME NEW n, List(n.missing),
           \/ \E item \in Elements(First(n.missing, 10)) : Refused(item)
           \/ Refused(JourneyText(n))
           \/ FarOver(n.price, n.budget)
    PROVE  JourneyBlockers(n) # <<>>
<1> DEFINE a == Only(First(n.missing, 10), Refused)
           b == RiskTerms(JourneyText(n))
           c == IF FarOver(n.price, n.budget) THEN <<{"far over budget"}>> ELSE <<>>
<1>1. JourneyBlockers(n) = First(Distinct(a \o b \o c), 8)
  BY DEF JourneyBlockers, When
<1>2. List(First(n.missing, 10))
  BY FirstOf
<1>3. List(a) /\ ((\E item \in Elements(First(n.missing, 10)) : Refused(item)) => a # <<>>)
  BY <1>2, OnlyRefused
<1>4. List(b) /\ (Refused(JourneyText(n)) => Len(b) > 0)
  <2>1. List(b)
    BY RiskTermsOf
  <2>2. Refused(JourneyText(n)) => \E k \in 1..3 : k <= Len(b)
    BY RiskTermsOf
  <2> HIDE DEF b
  <2>3. Len(b) \in Nat
    BY <2>1, LengthOf
  <2> QED
    BY <2>1, <2>2, <2>3
<1>5. List(c) /\ (FarOver(n.price, n.budget) => Len(c) > 0)
  <2>1. CASE FarOver(n.price, n.budget)
    <3>1. c = <<{"far over budget"}>>
      BY <2>1
    <3> HIDE DEF c
    <3>2. List(c) /\ Len(c) = 1
      BY <3>1, OneOf
    <3> QED
      BY <3>2
  <2>2. CASE ~FarOver(n.price, n.budget)
    <3>1. c = <<>>
      BY <2>2
    <3> HIDE DEF c
    <3> QED
      BY <2>2, <3>1, NoneOf
  <2> QED
    BY <2>1, <2>2
<1> HIDE DEF a, b, c
<1>6. Len(a) > 0 \/ Len(b) > 0 \/ Len(c) > 0
  <2>1. a # <<>> => Len(a) > 0
    BY <1>3, LengthOf
  <2> QED
    BY <1>3, <1>4, <1>5, <2>1
<1>7. Len(a) \in Nat /\ Len(b) \in Nat /\ Len(c) \in Nat
  BY <1>3, <1>4, <1>5, LengthOf
<1>8. List(a \o b) /\ Len(a \o b) = Len(a) + Len(b)
  BY <1>3, <1>4, ElementsOfBoth
<1>9. List(a \o b \o c) /\ Len(a \o b \o c) = Len(a \o b) + Len(c)
  BY <1>5, <1>8, ElementsOfBoth
<1>10. a \o b \o c # <<>>
  BY <1>6, <1>7, <1>8, <1>9, NoneOf
<1>11. List(Distinct(a \o b \o c)) /\ Distinct(a \o b \o c) # <<>>
  BY <1>9, <1>10, DistinctOf
<1> QED
  BY <1>1, <1>11, FirstOf

\* Why the reply holds: a refusal or a price far over the budget, in one of its first ten remarks, or
\* in what it says itself of the text and the price.
LEMMA ReplyHolds ==
    ASSUME NEW r, List(r.notes), ReplyVerdict(r) = "blocker"
    PROVE  \/ \E note \in Elements(First(r.notes, 10)) : Refused(note) \/ "far over budget" \in note
           \/ Refused(ReplyText(r))
           \/ FarOver(r.price, r.budget)
<1> DEFINE a == First(r.notes, 10)
           b == RiskTerms(ReplyText(r))
           c == IF FarOver(r.price, r.budget) THEN <<{"far over budget"}>> ELSE <<>>
           d == IF Over(r.price, r.budget) /\ ~FarOver(r.price, r.budget) THEN <<{"over budget"}>> ELSE <<>>
           e == ReviewFlag(ReplyText(r))
           says(flag) == Refused(flag) \/ "far over budget" \in flag
<1>1. ReplyFlags(r) = First(Distinct(a \o b \o c \o d \o e), 8)
  BY DEF ReplyFlags, When
<1>2. PICK flag \in Elements(ReplyFlags(r)) : says(flag)
  BY DEF ReplyVerdict
<1>3. List(a)
  BY FirstOf
<1>4. List(b) /\ \A f \in Elements(b) : says(f) => Refused(ReplyText(r))
  BY RiskTermsOf
<1>5. List(c) /\ \A f \in Elements(c) : FarOver(r.price, r.budget)
  <2>1. CASE FarOver(r.price, r.budget)
    <3>1. c = <<{"far over budget"}>>
      BY <2>1
    <3> HIDE DEF c
    <3> QED
      BY <2>1, <3>1, OneOf
  <2>2. CASE ~FarOver(r.price, r.budget)
    <3>1. c = <<>>
      BY <2>2
    <3> HIDE DEF c
    <3> QED
      BY <3>1, NoneOf
  <2> QED
    BY <2>1, <2>2
<1>6. List(d) /\ \A f \in Elements(d) : ~says(f)
  <2>1. CASE Over(r.price, r.budget) /\ ~FarOver(r.price, r.budget)
    <3>1. d = <<{"over budget"}>>
      BY <2>1
    <3>2. ~says({"over budget"})
      BY DEF Refused
    <3> HIDE DEF d, says
    <3>3. List(d) /\ Elements(d) = {{"over budget"}}
      BY <3>1, OneOf
    <3> QED
      BY <3>2, <3>3
  <2>2. CASE ~(Over(r.price, r.budget) /\ ~FarOver(r.price, r.budget))
    <3>1. d = <<>>
      BY <2>2
    <3> HIDE DEF d
    <3> QED
      BY <3>1, NoneOf
  <2> QED
    BY <2>1, <2>2
<1>7. List(e) /\ \A f \in Elements(e) : ~says(f)
  BY ReviewFlagOf
<1> HIDE DEF a, b, c, d, e, says
<1>8. List(a \o b) /\ Elements(a \o b) = Elements(a) \cup Elements(b)
  BY <1>3, <1>4, ElementsOfBoth
<1>9. List(a \o b \o c) /\ Elements(a \o b \o c) = Elements(a \o b) \cup Elements(c)
  BY <1>5, <1>8, ElementsOfBoth
<1>10. List(a \o b \o c \o d) /\ Elements(a \o b \o c \o d) = Elements(a \o b \o c) \cup Elements(d)
  BY <1>6, <1>9, ElementsOfBoth
<1>11. /\ List(a \o b \o c \o d \o e)
       /\ Elements(a \o b \o c \o d \o e) = Elements(a \o b \o c \o d) \cup Elements(e)
  BY <1>7, <1>10, ElementsOfBoth
<1>12. /\ List(Distinct(a \o b \o c \o d \o e))
       /\ Elements(Distinct(a \o b \o c \o d \o e)) \subseteq Elements(a \o b \o c \o d \o e)
  BY <1>11, DistinctOf
<1>13. Elements(ReplyFlags(r)) \subseteq Elements(a \o b \o c \o d \o e)
  BY <1>1, <1>12, FirstOf
<1>14. flag \in Elements(a) \cup Elements(b) \cup Elements(c)
  BY <1>2, <1>6, <1>7, <1>8, <1>9, <1>10, <1>11, <1>13
<1> QED
  BY <1>2, <1>4, <1>5, <1>14 DEF a, says

\* A reply without a remark hands over its first flags, a refusal in what it reads among them.
LEMMA ReplyTells ==
    ASSUME NEW r, r.notes = <<>>, Refused(ReplyText(r))
    PROVE  /\ List(First(ReplyFlags(r), 3))
           /\ \E item \in Elements(First(First(ReplyFlags(r), 3), 10)) : Refused(item)
<1> DEFINE b == RiskTerms(ReplyText(r))
           c == When(FarOver(r.price, r.budget), {"far over budget"})
           d == When(Over(r.price, r.budget) /\ ~FarOver(r.price, r.budget), {"over budget"})
           e == ReviewFlag(ReplyText(r))
           flags == Distinct(<<>> \o b \o c \o d \o e)
<1>1. First(r.notes, 10) = <<>>
  BY NoneOf, FirstOf
<1>2. ReplyFlags(r) = First(flags, 8)
  BY <1>1 DEF ReplyFlags
<1>3. List(b) /\ \E k \in 1..3 : k <= Len(b) /\ Refused(b[k])
  BY RiskTermsOf
<1>4. List(c) /\ List(d)
  BY OneOf, NoneOf DEF When
<1>5. List(e)
  BY ReviewFlagOf
<1> HIDE DEF b, c, d, e
<1>6. PICK k \in 1..3 : k <= Len(b) /\ Refused(b[k])
  BY <1>3
<1>7. Len(b) \in Nat /\ Len(c) \in Nat /\ Len(d) \in Nat /\ Len(e) \in Nat
  BY <1>3, <1>4, <1>5, LengthOf
<1>8. List(<<>> \o b) /\ Len(<<>> \o b) = Len(b) /\ (<<>> \o b)[k] = b[k]
  <2>1. <<>> \o b = b
    BY <1>3 DEF List
  <2> QED
    BY <1>3, <2>1
<1>9. /\ List(<<>> \o b \o c) /\ Len(<<>> \o b \o c) = Len(b) + Len(c)
      /\ (<<>> \o b \o c)[k] = b[k]
  BY <1>4, <1>6, <1>7, <1>8, ElementsOfBoth
<1>10. /\ List(<<>> \o b \o c \o d) /\ Len(<<>> \o b \o c \o d) = Len(b) + Len(c) + Len(d)
       /\ (<<>> \o b \o c \o d)[k] = b[k]
  BY <1>4, <1>6, <1>7, <1>9, ElementsOfBoth
<1>11. /\ List(<<>> \o b \o c \o d \o e)
       /\ Len(<<>> \o b \o c \o d \o e) = Len(b) + Len(c) + Len(d) + Len(e)
       /\ (<<>> \o b \o c \o d \o e)[k] = b[k]
  BY <1>5, <1>6, <1>7, <1>10, ElementsOfBoth
<1>12. k \in 1..Len(<<>> \o b \o c \o d \o e)
  BY <1>6, <1>7, <1>11
<1>13. PICK m \in 1..k : m <= Len(flags) /\ flags[m] = b[k]
  BY <1>11, <1>12, DistinctOf
<1>14. List(flags)
  BY <1>11, DistinctOf
<1> HIDE DEF flags
<1>15. m \in 1..3 /\ Len(flags) \in Nat
  BY <1>6, <1>13, <1>14, LengthOf
<1>16. List(First(flags, 8)) /\ m <= Len(First(flags, 8)) /\ First(flags, 8)[m] = b[k]
  BY <1>13, <1>14, <1>15, FirstOf DEF AtMost
<1>17. /\ List(First(ReplyFlags(r), 3)) /\ m <= Len(First(ReplyFlags(r), 3))
       /\ First(ReplyFlags(r), 3)[m] = b[k]
  BY <1>2, <1>15, <1>16, LengthOf, FirstOf DEF AtMost
<1> DEFINE told == First(ReplyFlags(r), 3)
<1> HIDE DEF told
<1>18. Len(First(told, 10)) \in Nat /\ m <= Len(First(told, 10)) /\ First(told, 10)[m] = b[k]
  <2>1. List(told) /\ m <= Len(told) /\ told[m] = b[k]
    BY <1>17 DEF told
  <2>2. Len(told) \in Nat
    BY <2>1, LengthOf
  <2>3. List(First(told, 10)) /\ Len(First(told, 10)) = AtMost(Len(told), 10)
    <3>1. PICK n \in Nat : n = 10
      OBVIOUS
    <3>2. List(First(told, n)) /\ Len(First(told, n)) = AtMost(Len(told), n)
      BY <2>1, FirstOf, Zenon
    <3> QED
      BY <3>1, <3>2
  <2>4. m \in 1..AtMost(Len(told), 10)
    BY <1>15, <2>1, <2>2 DEF AtMost
  <2> QED
    BY <1>15, <2>1, <2>3, <2>4, LengthOf, FirstOf
<1>19. b[k] \in Elements(First(told, 10))
  <2>1. List(First(told, 10)) /\ m \in 1..Len(First(told, 10))
    BY <1>15, <1>17, <1>18, FirstOf DEF told
  <2> QED
    BY <1>18, <2>1 DEF Elements, List
<1> QED
  BY <1>6, <1>17, <1>19 DEF told

\* The reply to the journey.
LEMMA ReplyKept ==
    ASSUME NEW r, List(r.notes), List(r.missing), NEW n, n = ReplyToJourney(r), List(n.missing),
           ReplyVerdict(r) = "blocker", r.kit = "reply", ~Unsaid(r, "journey")
    PROVE  JourneyBlockers(n) # <<>>
<1> DEFINE notes == AllOf(First(r.notes, 10))
           missing == AllOf(First(r.missing, 10))
           rest == r.usage \cup AllOf(Rest(r.notes)) \cup AllOf(Rest(r.missing))
<1>1. /\ n.question = r.question /\ n.title = r.title /\ n.listing = r.summary
      /\ n.reviews = First(r.notes, 10) /\ n.budget = r.budget /\ n.price = r.price
      /\ n.missing = IF r.missing = <<>> THEN First(ReplyFlags(r), 3) ELSE r.missing
  BY DEF ReplyToJourney, Or
<1>2. JourneyText(n) = r.question \cup r.title \cup r.summary \cup notes
  BY <1>1 DEF JourneyText
<1>3. ReplyText(r) \subseteq JourneyText(n) \cup missing \cup rest
  <2>1. AllOf(r.notes) \subseteq notes \cup AllOf(Rest(r.notes))
    BY FirstOrRest DEF AllOf
  <2>2. AllOf(r.missing) \subseteq missing \cup AllOf(Rest(r.missing))
    BY FirstOrRest DEF AllOf
  <2> HIDE DEF notes, missing
  <2> QED
    BY <1>2, <2>1, <2>2 DEF ReplyText
<1>4. r.notes \o r.missing = <<>> => r.notes = <<>> /\ r.missing = <<>>
  <2>1. /\ Len(r.notes) \in Nat /\ Len(r.missing) \in Nat
        /\ Len(r.notes \o r.missing) = Len(r.notes) + Len(r.missing)
    BY LengthOf, ElementsOfBoth
  <2>2. r.notes \o r.missing = <<>> => Len(r.notes) = 0 /\ Len(r.missing) = 0
    BY <2>1, NoneOf
  <2> QED
    BY <2>2, LengthOf
<1>5. r.notes \o r.missing # <<>> => ~Refused(rest) /\ "far over budget" \notin AllOf(r.notes)
  BY DEF Unsaid
<1>6. CASE FarOver(r.price, r.budget)
  BY <1>1, <1>6, JourneyBlocks
<1>7. CASE Refused(JourneyText(n))
  BY <1>7, JourneyBlocks
<1>8. ASSUME NEW note \in Elements(First(r.notes, 10)), Refused(note) \/ "far over budget" \in note
      PROVE  Refused(JourneyText(n))
  <2>1. note \in Elements(r.notes)
    BY FirstOf
  <2>2. note \subseteq notes /\ note \subseteq AllOf(r.notes)
    BY <2>1 DEF AllOf
  <2>3. r.notes # <<>>
    BY <2>1, NoneOf
  <2>4. "far over budget" \notin note
    BY <1>4, <1>5, <2>2, <2>3
  <2>5. Refused(note)
    BY <1>8, <2>4
  <2> HIDE DEF notes
  <2> QED
    BY <1>2, <2>2, <2>5 DEF Refused
<1>9. CASE Refused(ReplyText(r)) /\ r.notes = <<>> /\ r.missing = <<>>
  <2>1. n.missing = First(ReplyFlags(r), 3)
    BY <1>1, <1>9
  <2> QED
    BY <1>9, <2>1, ReplyTells, JourneyBlocks
<1>10. CASE Refused(ReplyText(r)) /\ ~(r.notes = <<>> /\ r.missing = <<>>)
  <2> HIDE DEF notes, missing, rest
  <2>1. ~Refused(rest)
    BY <1>4, <1>5, <1>10
  <2>2. Refused(JourneyText(n)) \/ Refused(missing)
    BY <1>3, <1>10, <2>1 DEF Refused
  <2>3. CASE Refused(missing)
    <3>1. PICK item \in Elements(First(r.missing, 10)) : Refused(item)
      BY <2>3 DEF missing, AllOf, Refused
    <3>2. r.missing # <<>>
      <4>1. item \in Elements(r.missing)
        BY <3>1, FirstOf
      <4> QED
        BY <4>1, NoneOf
    <3>3. n.missing = r.missing
      BY <1>1, <3>2
    <3> QED
      BY <3>1, <3>3, JourneyBlocks
  <2> QED
    BY <1>7, <2>2, <2>3
<1> QED
  BY <1>6, <1>7, <1>8, <1>9, <1>10, ReplyHolds

-----------------------------------------------------------------------------
(* The lists and scores that are handed over are lists and scores.          *)

\* items[:n] of list(dict.fromkeys(items)).
LEMMA CutOf ==
    ASSUME NEW items, List(items), NEW n \in Nat \ {0}
    PROVE  /\ List(First(Distinct(items), n)) /\ Len(First(Distinct(items), n)) \in 0..n
           /\ items # <<>> => First(Distinct(items), n) # <<>>
<1>1. List(Distinct(items)) /\ (items # <<>> => Distinct(items) # <<>>)
  BY DistinctOf
<1>2. Len(Distinct(items)) \in Nat
  BY <1>1, LengthOf
<1>3. AtMost(Len(Distinct(items)), n) \in 0..n
  BY <1>2 DEF AtMost
<1> QED
  BY <1>1, <1>3, FirstOf

\* [... for item in items].
LEMMA MappedOf ==
    ASSUME NEW items, List(items), NEW f, f = [i \in DOMAIN items |-> f[i]]
    PROVE  List(f)
<1>1. DOMAIN items = 1..Len(items) /\ Len(items) \in Nat
  BY DEF List
<1> DEFINE T == {f[i] : i \in 1..Len(items)}
<1>2. f \in Seq(T)
  BY <1>1
<1> HIDE DEF T
<1> QED
  BY <1>2, ElementsOf

\* The signals of a status.
LEMMA SignalsOf == ASSUME NEW n, NEW status PROVE List(SignalsWith(n, status))
<1> DEFINE places == {i \in DOMAIN SignalOrder : n.status[SignalOrder[i]] = status}
<1>1. SignalOrder \in Seq({"price", "checkout", "compatibility", "review", "warranty", "evidence"})
  BY DEF SignalOrder
<1>2. List(SignalOrder)
  BY <1>1, ElementsOf
<1>3. places \in SUBSET (1..Len(SignalOrder)) /\ SignalsWith(n, status) = At(SignalOrder, places)
  BY <1>1 DEF SignalsWith, Only
<1> HIDE DEF places
<1> QED
  BY <1>2, <1>3, AtOf

\* [item] if p else [].
LEMMA WhenOf == ASSUME NEW p, NEW item PROVE List(When(p, item))
<1>1. List(<<item>>) /\ List(<<>>)
  BY OneOf, NoneOf
<1> QED
  BY <1>1 DEF When

\* What the journey needs.
LEMMA NeededOf == ASSUME NEW n PROVE List(Needed(n))
<1> DEFINE text == JourneyText(n)
           a == When("asks" \notin n.question, {"need question"})
           b == When("long40" \notin n.listing, {"need listing", "option", "returns"})
           c == When(n.price = None, {"need price", "price"})
           d == When(n.reviews = <<>>, {"need reviews"})
           e == When(~HasSpec(text), {"need specs", "spec"})
           f == When(~HasPolicy(text), {"need policy", "returns", "support"})
<1>1. Needed(n) = a \o b \o c \o d \o e \o f
  BY DEF Needed
<1>2. List(a) /\ List(b) /\ List(c) /\ List(d) /\ List(e) /\ List(f)
  BY WhenOf
<1> HIDE DEF a, b, c, d, e, f
<1>3. List(a \o b)
  BY <1>2, ElementsOfBoth
<1>4. List(a \o b \o c)
  BY <1>2, <1>3, ElementsOfBoth
<1>5. List(a \o b \o c \o d)
  BY <1>2, <1>4, ElementsOfBoth
<1>6. List(a \o b \o c \o d \o e)
  BY <1>2, <1>5, ElementsOfBoth
<1>7. List(a \o b \o c \o d \o e \o f)
  BY <1>2, <1>6, ElementsOfBoth
<1> QED
  BY <1>1, <1>7

\* What it says of what is missing.
LEMMA MissingOf ==
    ASSUME NEW items, List(items), NEW n \in Nat
    PROVE  List(Each(First(items, n), Missing))
<1> DEFINE f == Each(First(items, n), Missing)
<1>1. List(First(items, n))
  BY FirstOf
<1>2. f = [i \in DOMAIN First(items, n) |-> f[i]]
  BY DEF Each
<1>3. List(f)
  <2> HIDE DEF f
  <2> QED
    BY <1>1, <1>2, MappedOf
<1> QED
  BY <1>3

\* What the journey blocks on and warns of.
LEMMA JourneyListsOf ==
    ASSUME NEW n, List(n.missing)
    PROVE  List(JourneyBlockers(n)) /\ List(JourneyWarnings(n))
<1> DEFINE text == JourneyText(n)
<1>1. List(First(n.missing, 10))
  BY FirstOf
<1>2. List(JourneyBlockers(n))
  <2> DEFINE a == Only(First(n.missing, 10), Refused)
             b == RiskTerms(text)
             c == When(FarOver(n.price, n.budget), {"far over budget"})
  <2>1. JourneyBlockers(n) = First(Distinct(a \o b \o c), 8)
    BY DEF JourneyBlockers
  <2>2. List(a) /\ List(b) /\ List(c)
    BY <1>1, OnlyRefused, RiskTermsOf, WhenOf
  <2> HIDE DEF a, b, c
  <2>3. List(a \o b)
    BY <2>2, ElementsOfBoth
  <2>4. List(a \o b \o c)
    BY <2>2, <2>3, ElementsOfBoth
  <2> QED
    BY <2>1, <2>4, CutOf
<1>3. List(JourneyWarnings(n))
  <2> DEFINE a == Needed(n)
             b == Each(First(n.missing, 10), Missing)
             c == When(Over(n.price, n.budget), {"over budget"})
             d == ReviewFlag(text)
             e == When(Len(n.ready) < 3, {"few captures"})
  <2>1. JourneyWarnings(n) = First(Distinct(a \o b \o c \o d \o e), 10)
    BY DEF JourneyWarnings
  <2>2. List(a) /\ List(b) /\ List(c) /\ List(d) /\ List(e)
    BY NeededOf, MissingOf, ReviewFlagOf, WhenOf
  <2> HIDE DEF a, b, c, d, e
  <2>3. List(a \o b)
    BY <2>2, ElementsOfBoth
  <2>4. List(a \o b \o c)
    BY <2>2, <2>3, ElementsOfBoth
  <2>5. List(a \o b \o c \o d)
    BY <2>2, <2>4, ElementsOfBoth
  <2>6. List(a \o b \o c \o d \o e)
    BY <2>2, <2>5, ElementsOfBoth
  <2> QED
    BY <2>1, <2>6, CutOf
<1> QED
  BY <1>2, <1>3

\* What the final decision blocks on and warns of; it blocks on whatever blocks the journey.
LEMMA FinalListsOf ==
    ASSUME NEW n, List(n.missing), List(n.blocking), List(n.doubts)
    PROVE  /\ List(FinalBlockers(n)) /\ Len(FinalBlockers(n)) \in 0..8
           /\ n.blocking # <<>> => FinalBlockers(n) # <<>>
           /\ List(FinalWarnings(n)) /\ Len(FinalWarnings(n)) \in 0..10
<1>1. /\ List(FinalBlockers(n)) /\ Len(FinalBlockers(n)) \in 0..8
      /\ n.blocking # <<>> => FinalBlockers(n) # <<>>
  <2> DEFINE a == n.blocking
             signals == SignalsWith(n, "blocker")
             b == [i \in DOMAIN signals |-> {"blocker", signals[i]}]
             c == When(FarOver(n.price, n.budget), {"far over budget"})
  <2>1. FinalBlockers(n) = First(Distinct(a \o b \o c), 8)
    BY DEF FinalBlockers, Each
  <2>2. List(b)
    <3>1. b = [i \in DOMAIN signals |-> b[i]] /\ List(signals)
      BY SignalsOf
    <3> HIDE DEF b, signals
    <3> QED
      BY <3>1, MappedOf
  <2>3. List(c)
    BY WhenOf
  <2> HIDE DEF b, c
  <2>4. List(a \o b) /\ Len(a \o b) = Len(a) + Len(b)
    BY <2>2, ElementsOfBoth
  <2>5. List(a \o b \o c) /\ Len(a \o b \o c) = Len(a \o b) + Len(c)
    BY <2>3, <2>4, ElementsOfBoth
  <2>6. Len(a) \in Nat /\ Len(b) \in Nat /\ Len(c) \in Nat /\ (a # <<>> => Len(a) # 0)
    BY <2>2, <2>3, LengthOf
  <2>7. a # <<>> => a \o b \o c # <<>>
    BY <2>4, <2>5, <2>6, NoneOf
  <2> DEFINE all == a \o b \o c
  <2>8. 8 \in Nat \ {0} /\ List(all)
    BY <2>5
  <2>9. /\ List(First(Distinct(all), 8)) /\ Len(First(Distinct(all), 8)) \in 0..8
        /\ all # <<>> => First(Distinct(all), 8) # <<>>
    <3> HIDE DEF all
    <3> QED
      BY <2>8, CutOf
  <2> QED
    BY <2>1, <2>7, <2>9
<1>2. List(FinalWarnings(n)) /\ Len(FinalWarnings(n)) \in 0..10
  <2> DEFINE a == n.doubts
             signals == SignalsWith(n, "warning")
             missing == First(n.missing, 10)
             b == [i \in DOMAIN signals |-> {"warning", signals[i]}]
             c == [i \in DOMAIN missing |-> Missing(missing[i])]
             d == When(Over(n.price, n.budget), {"over budget"})
  <2>1. FinalWarnings(n) = First(Distinct(a \o b \o c \o d), 10)
    BY DEF FinalWarnings, Each
  <2>2. List(b)
    <3>1. b = [i \in DOMAIN signals |-> b[i]] /\ List(signals)
      BY SignalsOf
    <3> HIDE DEF b, signals
    <3> QED
      BY <3>1, MappedOf
  <2>3. List(c)
    <3>1. c = [i \in DOMAIN missing |-> c[i]] /\ List(missing)
      BY FirstOf
    <3> HIDE DEF c, missing
    <3> QED
      BY <3>1, MappedOf
  <2>4. List(d)
    BY WhenOf
  <2> HIDE DEF b, c, d
  <2>5. List(a \o b)
    BY <2>2, ElementsOfBoth
  <2>6. List(a \o b \o c)
    BY <2>3, <2>5, ElementsOfBoth
  <2>7. List(a \o b \o c \o d)
    BY <2>4, <2>6, ElementsOfBoth
  <2> DEFINE all == a \o b \o c \o d
  <2>8. 10 \in Nat \ {0} /\ List(all)
    BY <2>7
  <2>9. List(First(Distinct(all), 10)) /\ Len(First(Distinct(all), 10)) \in 0..10
    <3> HIDE DEF all
    <3> QED
      BY <2>8, CutOf
  <2> QED
    BY <2>1, <2>9
<1> QED
  BY <1>1, <1>2

\* A score lies between 0 and 100.
LEMMA ScoreOf == ASSUME NEW x \in Int PROVE Score(x) \in 0..100
  BY DEF Score, Clamp, AtMost, NotBelow

\* The weighted sum of scores is a number, and so is a hundredth of it.
LEMMA RoundOf == ASSUME NEW x \in Int PROVE Round(x, 100) \in Int
  BY DEF Round

\* The score of a final decision.
LEMMA FinalScoreOf ==
    ASSUME NEW n, List(n.ready), List(n.missing), List(n.blocking), List(n.doubts),
           n.score \in [Signals \ {"evidence"} -> 0..100]
    PROVE  FinalScore(n) \in 0..100
<1>1. /\ n.score.price \in 0..100 /\ n.score.checkout \in 0..100 /\ n.score.compatibility \in 0..100
      /\ n.score.review \in 0..100 /\ n.score.warranty \in 0..100
  BY DEF Signals
<1>2. EvidenceScore(n) \in 0..100
  <2>1. AtMost(Len(n.ready), 10) \in Nat /\ AtMost(Len(n.missing), 10) \in Nat
    BY LengthOf DEF AtMost
  <2>2. PICK x \in Int : x = IF n.score.checkout = 0 THEN 70 ELSE n.score.checkout
    BY <1>1
  <2>3. PICK y \in Int : y = x + 4 * AtMost(Len(n.ready), 10) - 12 * AtMost(Len(n.missing), 10)
    BY <2>1
  <2>4. EvidenceScore(n) = Score(y)
    BY <2>2, <2>3 DEF EvidenceScore
  <2> QED
    BY <2>4, ScoreOf
<1> DEFINE weighted ==   20 * n.score.price + 20 * n.score.checkout + 18 * n.score.compatibility
                       + 16 * n.score.review + 14 * n.score.warranty + 12 * EvidenceScore(n)
<1>3. weighted \in Int
  <2>1. PICK a, b, c, d, e, f \in 0..100 :
             /\ a = n.score.price /\ b = n.score.checkout /\ c = n.score.compatibility
             /\ d = n.score.review /\ e = n.score.warranty /\ f = EvidenceScore(n)
    BY <1>1, <1>2, Zenon
  <2>2. weighted = 20 * a + 20 * b + 18 * c + 16 * d + 14 * e + 12 * f
    BY <2>1, Zenon
  <2> HIDE DEF weighted
  <2> QED
    BY <2>2
<1>4. FinalScore(n) = Score(Round(weighted, 100) - 13 * Len(FinalBlockers(n)) - 4 * Len(FinalWarnings(n)))
  BY DEF FinalScore
<1> HIDE DEF weighted
<1>5. PICK x \in Int : x = Round(weighted, 100)
  BY <1>3, RoundOf
<1>6. PICK b \in 0..8 : b = Len(FinalBlockers(n))
  BY FinalListsOf
<1>7. PICK w \in 0..10 : w = Len(FinalWarnings(n))
  BY FinalListsOf
<1>8. x - 13 * b - 4 * w \in Int
  OBVIOUS
<1> QED
  BY <1>4, <1>5, <1>6, <1>7, <1>8, ScoreOf

-----------------------------------------------------------------------------
(* What the models accept.                                                  *)

\* What may be left out.
LEMMA OptionalOf ==
    /\ \A kit : {"price", "total", "rating", "count"} \subseteq Optional(kit)
    /\ "budget" \in Optional("execution") /\ "budget" \in Optional("reviewer")
    /\ "budget" \notin Optional("triage") /\ "budget" \notin Optional("journey")
    /\ "budget" \notin Optional("final") /\ "budget" \notin Optional("seller")
  BY DEF Optional

\* The models of the requests that carry a decision.
LEMMA AcceptedOf ==
    ASSUME NEW r, Accepted(r)
    PROVE  /\ r.kit = "reply" =>
                  /\ Fits(r, ReplyModel, Optional("reply"))
                  /\ List(r.notes) /\ List(r.ready) /\ List(r.missing)
           /\ r.kit = "journey" =>
                  /\ Fits(r, JourneyModel, Optional("journey"))
                  /\ List(r.reviews) /\ List(r.ready) /\ List(r.missing)
           /\ r.kit = "final" =>
                  /\ Fits(r, FinalModel, Optional("final"))
                  /\ List(r.ready) /\ List(r.missing) /\ List(r.blocking) /\ List(r.doubts)
                  /\ r.status \in [Signals -> Verdict] /\ r.score \in [Signals \ {"evidence"} -> 0..100]
           /\ r.kit = "triage" => Fits(r, TriageModel, Optional("triage"))
           /\ r.kit = "seller" => Fits(r, SellerModel, Optional("seller"))
<1>1. r.kit = "reply" => Model(r.kit) = ReplyModel /\ ListsOf(r.kit) = {"notes", "ready", "missing"}
  BY DEF Model, ListsOf
<1>2. r.kit = "journey" => Model(r.kit) = JourneyModel /\ ListsOf(r.kit) = {"reviews", "ready", "missing"}
  BY DEF Model, ListsOf
<1>3. r.kit = "final" =>
          Model(r.kit) = FinalModel /\ ListsOf(r.kit) = {"ready", "missing", "blocking", "doubts"}
  BY DEF Model, ListsOf
<1>4. (r.kit = "triage" => Model(r.kit) = TriageModel) /\ (r.kit = "seller" => Model(r.kit) = SellerModel)
  BY DEF Model
<1>5. Fits(r, Model(r.kit), Optional(r.kit)) /\ \A list \in ListsOf(r.kit) : List(r[list])
  BY DEF Accepted
<1>6. r.kit = "final" =>
          r.status \in [Signals -> Verdict] /\ r.score \in [Signals \ {"evidence"} -> 0..100]
  BY DEF Accepted
<1> QED
  BY <1>1, <1>2, <1>3, <1>4, <1>5, <1>6

\* A request to one of these kits is accepted when its amounts and counts fit.
LEMMA Accepts ==
    ASSUME NEW r
    PROVE  /\ r.kit = "triage" /\ Fits(r, TriageModel, Optional("triage")) => Accepted(r)
           /\ r.kit = "review" /\ Fits(r, ReviewModel, Optional("review")) => Accepted(r)
           /\ r.kit = "execution" /\ Fits(r, ExecutionModel, Optional("execution")) => Accepted(r)
           /\ r.kit = "reviewer" /\ Fits(r, ReviewerModel, Optional("reviewer")) => Accepted(r)
           /\ r.kit = "approval" /\ Fits(r, ApprovalModel, Optional("approval")) => Accepted(r)
<1>1. /\ r.kit = "triage" => Model(r.kit) = TriageModel
      /\ r.kit = "review" => Model(r.kit) = ReviewModel
      /\ r.kit = "execution" => Model(r.kit) = ExecutionModel
      /\ r.kit = "reviewer" => Model(r.kit) = ReviewerModel
      /\ r.kit = "approval" => Model(r.kit) = ApprovalModel
  BY DEF Model
<1>2. r.kit \in {"triage", "review", "execution", "reviewer", "approval"} => ListsOf(r.kit) = {}
  BY DEF ListsOf
<1>3. r.kit \in {"triage", "review", "execution", "reviewer", "approval"} =>
          r.kit \notin {"final", "cart", "trust", "custom", "consensus", "defense"}
  OBVIOUS
<1>4. /\ r.kit \in {"triage", "review", "execution", "reviewer", "approval"}
      /\ Fits(r, Model(r.kit), Optional(r.kit))
      => Accepted(r)
  BY <1>2, <1>3 DEF Accepted, Kits
<1> QED
  BY <1>1, <1>4

\* A request for the final decision as well, when its lists are lists.
LEMMA AcceptsFinal ==
    ASSUME NEW r, r.kit = "final", Fits(r, FinalModel, Optional("final")),
           List(r.ready), List(r.missing), List(r.blocking), List(r.doubts),
           r.status \in [Signals -> Verdict], r.score \in [Signals \ {"evidence"} -> 0..100]
    PROVE  Accepted(r)
<1>1. Model(r.kit) = FinalModel /\ ListsOf(r.kit) = {"ready", "missing", "blocking", "doubts"}
  BY DEF Model, ListsOf
<1> QED
  BY <1>1 DEF Accepted, Kits

\* The statuses and scores that the journey fills in.
LEMMA JourneySignals ==
    ASSUME NEW n
    PROVE  /\ JourneyStatuses(n) \in [Signals -> Verdict]
           /\ JourneyScores(n) \in [Signals \ {"evidence"} -> 0..100]
<1>1. JourneyVerdict(n) \in Verdict
  BY DEF JourneyVerdict, Mark, Verdict
<1>2. JourneyStatuses(n) \in [Signals -> Verdict]
  BY <1>1 DEF JourneyStatuses, Signals, Verdict
<1>3. JourneyScores(n) \in [Signals \ {"evidence"} -> 0..100]
  <2>1. Signals \ {"evidence"} = {"price", "checkout", "compatibility", "review", "warranty"}
    BY DEF Signals
  <2>2. PICK price \in 0..100 : price = IF n.price # None THEN 76 ELSE 58
    OBVIOUS
  <2>3. PICK checkout \in 0..100 :
            checkout = CASE JourneyVerdict(n) = "blocker" -> 55
                         [] JourneyVerdict(n) = "warning" -> 72
                         [] OTHER -> 88
    BY <1>1 DEF Verdict
  <2>4. PICK review \in 0..100 : review = IF n.reviews # <<>> THEN 68 ELSE 52
    OBVIOUS
  <2>5. PICK warranty \in 0..100 : warranty = IF JourneyBlockers(n) # <<>> THEN 45 ELSE 70
    OBVIOUS
  <2>6. JourneyScores(n) = [price |-> price, checkout |-> checkout, compatibility |-> 74,
                            review |-> review, warranty |-> warranty]
    BY <2>2, <2>3, <2>4, <2>5 DEF JourneyScores
  <2> QED
    BY <2>1, <2>6
<1> QED
  BY <1>2, <1>3

-----------------------------------------------------------------------------
(* A hold is kept, one pair of kits at a time.                              *)

\* From the community reply to the journey.
LEMMA ReplyPasses ==
    ASSUME NEW r, Accepted(r), r.kit = "reply", NEW n \in AnswerTo(r).handoffs, n.kit = "journey",
           ~Unsaid(r, "journey"), AnswerTo(r).verdict = "blocker"
    PROVE  AnswerTo(n).verdict = "blocker"
<1>1. KitAnswer(r) = ReplyKit(r) /\ KitAnswer(n) = JourneyKit(n)
  BY Routes
<1>2. /\ ReplyVerdict(r) = "blocker" /\ n \in {ReplyToTriage(r), ReplyToJourney(r)}
      /\ Accepted(ReplyToTriage(r)) /\ Accepted(n)
  BY <1>1, Handed DEF ReplyKit, Answer
<1>3. n = ReplyToJourney(r)
  BY <1>2 DEF ReplyToTriage
<1>4. List(r.notes) /\ List(r.missing)
  BY AcceptedOf
<1>5. Fits(n, JourneyModel, Optional("journey")) /\ List(n.reviews) /\ List(n.ready) /\ List(n.missing)
  BY <1>2, AcceptedOf
<1>6. JourneyBlockers(n) # <<>>
  BY <1>2, <1>3, <1>4, <1>5, ReplyKept
<1>7. Accepted(JourneyToTriage(n))
  <2>1. Fits(ReplyToTriage(r), TriageModel, Optional("triage"))
    BY <1>2, AcceptedOf DEF ReplyToTriage
  <2>2. Fits(JourneyToTriage(n), TriageModel, Optional("triage"))
    BY <1>3, <2>1 DEF Fits, TriageModel, ReplyToTriage, JourneyToTriage, ReplyToJourney
  <2> QED
    BY <2>2, Accepts DEF JourneyToTriage
<1>8. Accepted(JourneyToReview(n))
  <2>1. Fits(ReplyToTriage(r), TriageModel, Optional("triage"))
    BY <1>2, AcceptedOf DEF ReplyToTriage
  <2>2. Fits(JourneyToReview(n), ReviewModel, Optional("review"))
    BY <1>3, <2>1, OptionalOf DEF Fits, TriageModel, ReviewModel, ReplyToTriage, JourneyToReview, ReplyToJourney
  <2> QED
    BY <2>2, Accepts DEF JourneyToReview
<1>9. Accepted(JourneyToFinal(n))
  <2>1. List(JourneyBlockers(n)) /\ List(JourneyWarnings(n))
    BY <1>5, JourneyListsOf
  <2>2. List(Or(n.missing, First(JourneyWarnings(n), 4)))
    BY <1>5, <2>1, FirstOf DEF Or
  <2>3. Fits(JourneyToFinal(n), FinalModel, Optional("final"))
    BY <1>5, OptionalOf DEF Fits, JourneyModel, FinalModel, JourneyToFinal
  <2> QED
    BY <1>5, <2>1, <2>2, <2>3, JourneySignals, AcceptsFinal DEF JourneyToFinal
<1>10. AnswerTo(n) = JourneyKit(n)
  BY <1>1, <1>7, <1>8, <1>9, AnswersItself DEF JourneyKit, Answer
<1> QED
  BY <1>6, <1>10 DEF JourneyKit, Answer, JourneyVerdict, Mark

\* The requests that a final decision fills in are accepted.
LEMMA FinalAnswers ==
    ASSUME NEW n, Accepted(n), n.kit = "final"
    PROVE  AnswerTo(n) = FinalKit(n)
<1>1. /\ Fits(n, FinalModel, Optional("final"))
      /\ List(n.ready) /\ List(n.missing) /\ List(n.blocking) /\ List(n.doubts)
      /\ n.score \in [Signals \ {"evidence"} -> 0..100]
  BY AcceptedOf
<1>2. Len(FinalBlockers(n)) \in 0..8 /\ Len(FinalWarnings(n)) \in 0..10 /\ FinalScore(n) \in 0..100
  BY <1>1, FinalListsOf, FinalScoreOf
<1>3. /\ n.budget # None => n.budget \in Amount
      /\ n.price # None => n.price \in Amount
  <2>1. (n.budget # None => n.budget \in WideBudget) /\ (n.price # None => n.price \in Amount)
    BY <1>1 DEF Fits, FinalModel
  <2>2. WideBudget \subseteq Amount
    <3>1. PICK k \in Int : k = 20000
      OBVIOUS
    <3>2. 30..k \subseteq 0..k
      OBVIOUS
    <3>3. WideBudget = 30..k /\ Amount = 0..k
      BY <3>1, SMT DEF WideBudget, Amount
    <3> QED
      BY <3>2, <3>3
  <2> QED
    BY <2>1, <2>2
<1>4. Len(FinalBlockers(n)) \in Count /\ Len(FinalWarnings(n)) \in Count
  BY <1>2 DEF Count
<1>5. Accepted(FinalToExecution(n))
  <2>1. Fits(FinalToExecution(n), ExecutionModel, Optional("execution"))
    BY <1>3, <1>4, OptionalOf DEF Fits, ExecutionModel, FinalToExecution
  <2> QED
    BY <2>1, Accepts DEF FinalToExecution
<1>6. Accepted(FinalToReviewer(n))
  <2>1. Fits(FinalToReviewer(n), ReviewerModel, Optional("reviewer"))
    BY <1>2, <1>3, <1>4, OptionalOf DEF Fits, ReviewerModel, FinalToReviewer
  <2> QED
    BY <2>1, Accepts DEF FinalToReviewer
<1>7. KitAnswer(n) = FinalKit(n)
  BY Routes
<1> QED
  BY <1>5, <1>6, <1>7, AnswersItself DEF FinalKit, Answer

\* From the journey to the final decision.
LEMMA JourneyPasses ==
    ASSUME NEW r, Accepted(r), r.kit = "journey", NEW n \in AnswerTo(r).handoffs, n.kit = "final",
           AnswerTo(r).verdict = "blocker"
    PROVE  AnswerTo(n).verdict = "blocker"
<1>1. KitAnswer(r) = JourneyKit(r)
  BY Routes
<1>2. /\ JourneyVerdict(r) = "blocker" /\ Accepted(n)
      /\ n \in {JourneyToTriage(r), JourneyToReview(r), JourneyToFinal(r)}
  BY <1>1, Handed DEF JourneyKit, Answer
<1>3. n = JourneyToFinal(r)
  BY <1>2 DEF JourneyToTriage, JourneyToReview
<1>4. List(n.missing) /\ List(n.blocking) /\ List(n.doubts)
  BY <1>2, AcceptedOf
<1>5. n.blocking # <<>>
  BY <1>2, <1>3 DEF JourneyVerdict, Mark, JourneyToFinal
<1>6. FinalBlockers(n) # <<>>
  BY <1>4, <1>5, FinalListsOf
<1>7. FinalVerdict(n) = "blocker"
  BY <1>6 DEF FinalVerdict
<1>8. AnswerTo(n) = FinalKit(n)
  BY <1>2, FinalAnswers
<1> QED
  BY <1>7, <1>8 DEF FinalKit, Answer

\* From the final decision to the execution and to the reviewer's card.
LEMMA FinalPasses ==
    ASSUME NEW r, Accepted(r), r.kit = "final", NEW n \in AnswerTo(r).handoffs,
           AnswerTo(r).verdict = "blocker"
    PROVE  AnswerTo(n).verdict = "blocker"
<1>1. KitAnswer(r) = FinalKit(r)
  BY Routes
<1>2. FinalVerdict(r) = "blocker" /\ n \in {FinalToExecution(r), FinalToReviewer(r)}
  BY <1>1, Handed DEF FinalKit, Answer
<1>3. CASE n = FinalToExecution(r)
  <2>1. AnswerTo(n) = ExecutionKit(n)
    <3>1. n.kit = "execution"
      BY <1>3 DEF FinalToExecution
    <3>2. KitAnswer(n) = ExecutionKit(n)
      BY <3>1, RoutesOn
    <3>3. ExecutionKit(n).handoffs = {}
      BY DEF ExecutionKit, Answer
    <3> QED
      BY <3>2, <3>3, AnswersItself
  <2>2. n.verdict = "hold"
    BY <1>2, <1>3 DEF FinalToExecution, Decided
  <2> QED
    BY <2>1, <2>2 DEF ExecutionKit, ExecutionVerdict, Answer
<1>4. CASE n = FinalToReviewer(r)
  <2>1. AnswerTo(n) = ReviewerKit(n)
    <3>1. n.kit = "reviewer"
      BY <1>4 DEF FinalToReviewer
    <3>2. KitAnswer(n) = ReviewerKit(n)
      BY <3>1, RoutesOn
    <3>3. ReviewerKit(n).handoffs = {}
      BY DEF ReviewerKit, Answer
    <3> QED
      BY <3>2, <3>3, AnswersItself
  <2>2. /\ List(FinalBlockers(r)) /\ FinalScore(r) \in 0..100
        /\ n.blockers = Len(FinalBlockers(r)) /\ n.confidence = FinalScore(r)
    BY <1>4, AcceptedOf, FinalListsOf, FinalScoreOf DEF FinalToReviewer
  <2>3. FinalBlockers(r) # <<>> \/ FinalScore(r) < 45
    BY <1>2 DEF FinalVerdict
  <2>4. n.blockers > 0 \/ n.confidence < 55
    <3>1. Len(FinalBlockers(r)) \in Nat /\ (FinalBlockers(r) # <<>> => Len(FinalBlockers(r)) # 0)
      BY <2>2, LengthOf
    <3>2. PICK b \in Nat : b = Len(FinalBlockers(r))
      BY <3>1
    <3>3. PICK x \in 0..100 : x = FinalScore(r)
      BY <2>2
    <3>4. b > 0 \/ x < 55
      BY <2>3, <3>1, <3>2, <3>3
    <3> QED
      BY <2>2, <3>2, <3>3, <3>4
  <2> QED
    BY <2>1, <2>4 DEF ReviewerKit, ReviewerVerdict, Answer
<1> QED
  BY <1>2, <1>3, <1>4

\* From the checkout lock to the execution.
LEMMA LockPasses ==
    ASSUME NEW r, r.kit = "lock", NEW n \in AnswerTo(r).handoffs, AnswerTo(r).verdict = "blocker"
    PROVE  AnswerTo(n).verdict = "blocker"
<1>1. KitAnswer(r) = LockKit(r)
  BY Routes
<1>2. LockVerdict(r) = "blocker" /\ n = LockToExecution(r)
  BY <1>1, Handed DEF LockKit, Answer
<1>3. n.kit = "execution" /\ n.verdict = "hold"
  BY <1>2 DEF LockToExecution, Decided
<1>4. AnswerTo(n) = ExecutionKit(n)
  BY <1>3, RoutesOn, AnswersItself DEF ExecutionKit, Answer
<1> QED
  BY <1>3, <1>4 DEF ExecutionKit, ExecutionVerdict, Answer

\* From the cart to the scanner, when it is over the budget, and to the approval.
LEMMA CartPasses ==
    ASSUME NEW r, r.kit = "cart", NEW n \in AnswerTo(r).handoffs, ~Unsaid(r, n.kit),
           AnswerTo(r).verdict = "blocker"
    PROVE  AnswerTo(n).verdict = "blocker"
<1>1. KitAnswer(r) = CartKit(r)
  BY Routes
<1>2. /\ CartVerdict(CartBlockers(r), CartWarnings(r)) = "blocker"
      /\ n \in {CartToScanner(r), CartToApproval(r)}
  BY <1>1, Handed DEF CartKit, Answer
<1>3. CASE n = CartToScanner(r)
  <2>1. n.kit = "scanner" /\ n.total = CartTotal(r) /\ n.budget = r.budget
    BY <1>3 DEF CartToScanner, ToScanner
  <2>2. Over(n.total, n.budget) /\ n.total # None
    BY <2>1 DEF Unsaid, Over
  <2>3. "blocker" \in Values(ScannerChecks(n))
    <3>1. ScannerPrice(n) = "blocker"
      BY <2>2 DEF ScannerPrice
    <3>2. "price" \in DOMAIN ScannerChecks(n) /\ ScannerChecks(n)["price"] = "blocker"
      BY <3>1 DEF ScannerChecks
    <3> QED
      BY <3>2 DEF Values
  <2>4. KitAnswer(n) = Answer(Worst(Values(ScannerChecks(n))),
                              Score(100 - 22 * Tally(ScannerChecks(n), "blocker")
                                        - 8 * Tally(ScannerChecks(n), "warning")),
                              ScannerChecks(n), {})
    BY <2>1, <2>2, RoutesOn DEF ScannerKit
  <2>5. AnswerTo(n) = KitAnswer(n)
    BY <2>4, AnswersItself DEF Answer
  <2> QED
    BY <2>3, <2>4, <2>5 DEF Worst, Answer
<1>4. CASE n = CartToApproval(r)
  <2>1. n.kit = "approval" /\ n.verdict = "hold"
    BY <1>2, <1>4 DEF CartToApproval, Decided
  <2>2. AnswerTo(n) = ApprovalKit(n)
    BY <2>1, RoutesOn, AnswersItself DEF ApprovalKit, Answer
  <2> QED
    BY <2>1, <2>2 DEF ApprovalKit, ApprovalPriority, Answer
<1> QED
  BY <1>2, <1>3, <1>4

\* From the seller's answer to the approval.
LEMMA SellerPasses ==
    ASSUME NEW r, r.kit = "seller", NEW n \in AnswerTo(r).handoffs, AnswerTo(r).verdict = "blocker"
    PROVE  AnswerTo(n).verdict = "blocker"
<1>1. KitAnswer(r) = SellerKit(r)
  BY Routes
<1>2. SellerPriority(r) = "blocker" /\ n = SellerToApproval(r)
  BY <1>1, Handed DEF SellerKit, Answer
<1>3. n.kit = "approval" /\ n.verdict = "hold"
  <2>1. n.kit = "approval" /\ n.verdict = Decided(Worst({SellerPriority(r), AnswerStatus(r)}))
    BY <1>2 DEF SellerToApproval
  <2> QED
    BY <1>2, <2>1 DEF Worst, Decided
<1>4. AnswerTo(n) = ApprovalKit(n)
  BY <1>3, RoutesOn, AnswersItself DEF ApprovalKit, Answer
<1> QED
  BY <1>3, <1>4 DEF ApprovalKit, ApprovalPriority, Answer

\* From the product page to the seller.
LEMMA PagePasses ==
    ASSUME NEW r, r.kit = "page", NEW n \in AnswerTo(r).handoffs, n.kit = "seller",
           AnswerTo(r).verdict = "blocker"
    PROVE  AnswerTo(n).verdict = "blocker"
<1>1. KitAnswer(r) = PageKit(r) /\ KitAnswer(n) = SellerKit(n)
  BY Routes
<1>2. /\ PageVerdict(r) = "blocker" /\ Accepted(n)
      /\ n \in {PageToScanner(r), PageToBreakdown(r), PageToSeller(r)}
  BY <1>1, Handed DEF PageKit, Answer
<1>3. n = PageToSeller(r)
  BY <1>2 DEF PageToScanner, PageToBreakdown
<1>4. n.verdict = "hold"
  BY <1>2, <1>3 DEF PageToSeller, Decided
<1>5. SellerPriority(n) = "blocker"
  BY <1>4 DEF SellerPriority
<1>6. Accepted(SellerToApproval(n))
  <2>1. Fits(n, SellerModel, Optional("seller"))
    BY <1>2, AcceptedOf
  <2>2. \A v : One(SellerPriority(n) = v) + One(AnswerStatus(n) = v) \in Count
    BY DEF One, Count
  <2>3. /\ SellerToApproval(n).budget = n.budget /\ SellerToApproval(n).total = n.total
        /\ SellerToApproval(n).blockers \in Count /\ SellerToApproval(n).warnings \in Count
        /\ SellerToApproval(n).kit = "approval"
    BY <2>2 DEF SellerToApproval
  <2>4. Fits(SellerToApproval(n), ApprovalModel, Optional("approval"))
    BY <2>1, <2>3, OptionalOf DEF Fits, SellerModel, ApprovalModel
  <2> QED
    BY <2>3, <2>4, Accepts
<1>7. AnswerTo(n) = SellerKit(n)
  BY <1>1, <1>6, AnswersItself DEF SellerKit, Answer
<1> QED
  BY <1>5, <1>7 DEF SellerKit, Answer

-----------------------------------------------------------------------------
(* The theorems.                                                            *)

\* The request of a case is one that the model of its kit accepts: the kits hand over no other, and
\* the buyer can post no other.
RequestAccepted == Accepted(request)

\* Whatever is posted and followed or made worse, each kit is asked only what its model accepts.
THEOREM RequestsAreAccepted == Spec => []RequestAccepted
<1>1. Init => RequestAccepted
  BY PostedAssumption DEF Init, RequestAccepted
<1>2. ASSUME RequestAccepted, [Next]_vars PROVE RequestAccepted'
  <2>1. CASE Follow
    <3>1. request' \in AnswerTo(request).handoffs
      BY <2>1 DEF Follow
    <3>2. PICK r : r = request
      OBVIOUS
    <3>3. \A n \in AnswerTo(r).handoffs : Accepted(n)
      BY Handed
    <3> QED
      BY <3>1, <3>2, <3>3 DEF RequestAccepted
  <2>2. CASE Worsen
    BY <2>2 DEF Worsen, RequestAccepted
  <2>3. CASE UNCHANGED vars
    BY <1>2, <2>3 DEF vars, RequestAccepted
  <2> QED
    BY <1>2, <2>1, <2>2, <2>3 DEF Next
<1> QED
  BY <1>1, <1>2, PTL DEF Spec

\* One step of a case: a kit that is handed a held purchase holds it too.
LEMMA Passes ==
    ASSUME NEW r, Accepted(r), NEW n \in AnswerTo(r).handoffs, <<r.kit, n.kit>> \in Decisions,
           ~Unsaid(r, n.kit), AnswerTo(r).verdict = "blocker"
    PROVE  AnswerTo(n).verdict = "blocker"
<1>1. \/ r.kit = "reply" /\ n.kit = "journey"
      \/ r.kit = "journey" /\ n.kit = "final"
      \/ r.kit \in {"final", "lock", "cart", "seller"}
      \/ r.kit = "page" /\ n.kit = "seller"
  BY DEF Decisions
<1>2. CASE r.kit = "reply" /\ n.kit = "journey"
  BY <1>2, ReplyPasses
<1>3. CASE r.kit = "journey" /\ n.kit = "final"
  BY <1>3, JourneyPasses
<1>4. CASE r.kit = "page" /\ n.kit = "seller"
  BY <1>4, PagePasses
<1>5. CASE r.kit \in {"final", "lock", "cart", "seller"}
  BY <1>5, FinalPasses, LockPasses, CartPasses, SellerPasses
<1> QED
  BY <1>1, <1>2, <1>3, <1>4, <1>5

\* A purchase that one kit holds is held by the kit that it is handed to, unless the reason is not
\* said: what makes the one hold it reaches the other through the lists that the first cuts, filters
\* and merges on the way, and the request with it is one that the other accepts and can answer.
THEOREM HoldsAreKept == Spec => HoldIsKept
<1>1. ASSUME RequestAccepted, Follow, <<request.kit, request'.kit>> \in Decisions,
             ~Unsaid(request, request'.kit), AnswerTo(request).verdict = "blocker"
      PROVE  AnswerTo(request').verdict = "blocker"
  <2>1. PICK r : r = request
    OBVIOUS
  <2>2. PICK n : n = request'
    OBVIOUS
  <2>3. /\ Accepted(r) /\ n \in AnswerTo(r).handoffs /\ <<r.kit, n.kit>> \in Decisions
        /\ ~Unsaid(r, n.kit) /\ AnswerTo(r).verdict = "blocker"
    BY <1>1, <2>1, <2>2 DEF RequestAccepted, Follow
  <2>4. AnswerTo(n).verdict = "blocker"
    BY <2>3, Passes
  <2> QED
    BY <2>2, <2>4
<1>2. RequestAccepted =>
        [/\ Follow
         /\ <<request.kit, request'.kit>> \in Decisions /\ ~Unsaid(request, request'.kit)
         /\ AnswerTo(request).verdict = "blocker"
         => AnswerTo(request').verdict = "blocker"]_vars
  BY <1>1
<1>3. Spec => []RequestAccepted
  BY RequestsAreAccepted
<1> QED
  BY <1>2, <1>3, PTL DEF HoldIsKept

-----------------------------------------------------------------------------
(* Within the budget: a kit that weighs the price, whatever it cuts from    *)
(* what it has to say, does not recommend what is over the budget.          *)


\* What the kit of an accepted request is given: the amounts that its model names.
LEMMA GivenOf ==
    ASSUME NEW r, NEW kit, Accepted(r), r.kit = kit, NEW field \in DOMAIN Model(kit)
    PROVE  r[field] \in Model(kit)[field] \/ (field \in Optional(kit) /\ r[field] = None)
  BY DEF Accepted, Fits

\* An amount that is given is a number.
LEMMA NumberOf ==
    ASSUME NEW r, Accepted(r), NEW field \in DOMAIN Model(r.kit), Model(r.kit)[field] \subseteq Int,
           field \notin Optional(r.kit) \/ r[field] # None
    PROVE  r[field] \in Int
<1>1. r[field] \in Model(r.kit)[field]
  BY DEF Accepted, Fits
<1> QED
  BY <1>1, Zenon

\* A budget that is above 0 is given.
LEMMA BudgetGiven ==
    ASSUME NEW amount, OrZero(amount) > 0
    PROVE  amount # None /\ OrZero(amount) = amount
  BY DEF OrZero

\* An answer of ok is the kit's own.
LEMMA AnswersOk ==
    ASSUME NEW r, AnswerTo(r).verdict = "ok"
    PROVE  KitAnswer(r).verdict = "ok"
  BY DEF AnswerTo, Checked, Failed, Answer

\* The verdict of an answer.
LEMMA VerdictOf == \A verdict, score, checks, handoffs : Answer(verdict, score, checks, handoffs).verdict = verdict
  BY DEF Answer

\* A worst verdict of ok is one of no warning and no blocker.
LEMMA WorstOf ==
    ASSUME NEW verdicts, Worst(verdicts) = "ok"
    PROVE  "blocker" \notin verdicts /\ "warning" \notin verdicts
  BY DEF Worst

\* items[:10].
LEMMA TenOf == ASSUME NEW items, List(items) PROVE List(First(items, 10))
<1>1. PICK n \in Nat : n = 10
  OBVIOUS
<1> QED
  BY <1>1, FirstOf

\* Nothing is cut from a list that leaves nothing of it.
LEMMA CutNonempty ==
    ASSUME NEW s, NEW t, NEW n \in Nat \ {0}, List(s), List(t), s # <<>> \/ t # <<>>
    PROVE  First(Distinct(s \o t), n) # <<>>
<1>1. List(s \o t) /\ Len(s \o t) = Len(s) + Len(t)
  BY ElementsOfBoth
<1>2. Len(s) \in Nat /\ Len(t) \in Nat /\ (s = <<>> <=> Len(s) = 0) /\ (t = <<>> <=> Len(t) = 0)
  BY LengthOf
<1>3. s \o t # <<>>
  BY <1>1, <1>2, LengthOf
<1> QED
  BY <1>1, <1>3, CutOf

-----------------------------------------------------------------------------
(* The kits that compare the price they are given, or a sum of what they are*)
(* given.                                                                   *)

\* The community reply warns of a price over the budget.
LEMMA ReplySpends ==
    ASSUME NEW r, Accepted(r), r.kit = "reply", Over(r.price, r.budget)
    PROVE  KitAnswer(r).verdict # "ok"
<1> DEFINE text == ReplyText(r)
           a == First(r.notes, 10)
           b == RiskTerms(text)
           c == When(FarOver(r.price, r.budget), {"far over budget"})
           d == When(Over(r.price, r.budget) /\ ~FarOver(r.price, r.budget), {"over budget"})
           e == ReviewFlag(text)
<1>1. ReplyFlags(r) = First(Distinct(a \o b \o c \o d \o e), 8)
  BY DEF ReplyFlags
<1>2. List(a) /\ List(b) /\ List(c) /\ List(d) /\ List(e)
  <2>1. List(r.notes)
    BY AcceptedOf
  <2> QED
    BY <2>1, TenOf, RiskTermsOf, WhenOf, ReviewFlagOf
<1>3. c # <<>> \/ d # <<>>
  BY DEF When
<1> HIDE DEF a, b, c, d, e
<1>4. List(a \o b)
  BY <1>2, ElementsOfBoth
<1>5. List(a \o b \o c) /\ Len(a \o b \o c) = Len(a \o b) + Len(c)
  BY <1>2, <1>4, ElementsOfBoth
<1>6. List(a \o b \o c \o d) /\ Len(a \o b \o c \o d) = Len(a \o b \o c) + Len(d)
  BY <1>2, <1>5, ElementsOfBoth
<1>7. a \o b \o c \o d # <<>>
  BY <1>2, <1>3, <1>4, <1>5, <1>6, LengthOf
<1>8. ReplyFlags(r) # <<>>
  <2>1. PICK s : s = a \o b \o c \o d
    OBVIOUS
  <2>2. PICK n \in Nat \ {0} : n = 8
    OBVIOUS
  <2>3. First(Distinct(s \o e), n) # <<>>
    BY <1>2, <1>6, <1>7, <2>1, CutNonempty
  <2> QED
    BY <1>1, <2>1, <2>2, <2>3
<1>9. ReplyVerdict(r) # "ok"
  BY <1>8 DEF ReplyVerdict
<1> QED
  BY <1>9, Routes DEF ReplyKit, Answer

\* The journey warns of a price over the budget.
LEMMA JourneySpends ==
    ASSUME NEW r, Accepted(r), r.kit = "journey", Over(r.price, r.budget)
    PROVE  KitAnswer(r).verdict # "ok"
<1> DEFINE a == Needed(r)
           b == Each(First(r.missing, 10), Missing)
           c == When(Over(r.price, r.budget), {"over budget"})
           d == ReviewFlag(JourneyText(r))
           e == When(Len(r.ready) < 3, {"few captures"})
<1>1. JourneyWarnings(r) = First(Distinct(a \o b \o c \o d \o e), 10)
  BY DEF JourneyWarnings
<1>2. List(r.missing)
  BY AcceptedOf
<1>3. List(a) /\ List(b) /\ List(c) /\ List(d) /\ List(e)
  BY <1>2, NeededOf, MissingOf, WhenOf, ReviewFlagOf
<1>4. c # <<>>
  BY DEF When
<1> HIDE DEF a, b, c, d, e
<1>5. List(a \o b)
  BY <1>3, ElementsOfBoth
<1>6. List(a \o b \o c) /\ Len(a \o b \o c) = Len(a \o b) + Len(c)
  BY <1>3, <1>5, ElementsOfBoth
<1>7. List(a \o b \o c \o d) /\ Len(a \o b \o c \o d) = Len(a \o b \o c) + Len(d)
  BY <1>3, <1>6, ElementsOfBoth
<1>8. a \o b \o c \o d # <<>>
  BY <1>3, <1>4, <1>5, <1>6, <1>7, LengthOf
<1>9. JourneyWarnings(r) # <<>>
  <2>1. PICK s : s = a \o b \o c \o d
    OBVIOUS
  <2>2. PICK n \in Nat \ {0} : n = 10
    OBVIOUS
  <2>3. First(Distinct(s \o e), n) # <<>>
    BY <1>3, <1>7, <1>8, <2>1, CutNonempty
  <2> QED
    BY <1>1, <2>1, <2>2, <2>3
<1>10. JourneyVerdict(r) # "ok"
  BY <1>9 DEF JourneyVerdict, Mark
<1> QED
  BY <1>10, Routes DEF JourneyKit, Answer

\* The final decision warns of a price over the budget.
LEMMA FinalSpends ==
    ASSUME NEW r, Accepted(r), r.kit = "final", Over(r.price, r.budget)
    PROVE  KitAnswer(r).verdict # "ok"
<1> DEFINE a == r.doubts
           b == Each(SignalsWith(r, "warning"), LAMBDA s : {"warning", s})
           c == Each(First(r.missing, 10), Missing)
           d == When(Over(r.price, r.budget), {"over budget"})
<1>1. FinalWarnings(r) = First(Distinct(a \o b \o c \o d), 10)
  BY DEF FinalWarnings
<1>2. List(r.missing) /\ List(a)
  BY AcceptedOf
<1>3. List(b)
  <2>1. b = [i \in DOMAIN SignalsWith(r, "warning") |-> {"warning", SignalsWith(r, "warning")[i]}]
    BY DEF Each
  <2>2. b = [i \in DOMAIN SignalsWith(r, "warning") |-> b[i]]
    BY <2>1
  <2> HIDE DEF b
  <2> QED
    BY <2>2, SignalsOf, MappedOf
<1>4. List(c) /\ List(d)
  BY <1>2, MissingOf, WhenOf
<1>5. d # <<>>
  BY DEF When
<1> HIDE DEF a, b, c, d
<1>6. List(a \o b)
  BY <1>2, <1>3, ElementsOfBoth
<1>7. List(a \o b \o c)
  BY <1>4, <1>6, ElementsOfBoth
<1>8. FinalWarnings(r) # <<>>
  BY <1>1, <1>4, <1>5, <1>7, CutNonempty
<1>9. FinalVerdict(r) # "ok"
  BY <1>8 DEF FinalVerdict
<1> QED
  BY <1>9, Routes DEF FinalKit, Answer

\* A check that blocks makes the worst of all block.
LEMMA ChecksBlock ==
    ASSUME NEW checks, NEW c \in DOMAIN checks, checks[c] = "blocker"
    PROVE  Worst(Values(checks)) = "blocker"
  BY DEF Worst, Values

\* A lock of a price over the budget is blocked: the checks that block are counted.
LEMMA LockSpends ==
    ASSUME NEW r, Accepted(r), r.kit = "lock", Over(r.price, r.budget)
    PROVE  KitAnswer(r).verdict # "ok"
<1> DEFINE checks == LockChecks(r)
           blocked == {c \in DOMAIN checks : checks[c] = "blocker"}
           all == <<"title", "seller", "quantity", "price", "delivery_stock", "cpu", "gpu", "os", "warranty",
                    "return", "ram", "storage">>
<1>1. LockPrice(r) = "blocker"
  BY DEF LockPrice, Over
<1>2. "price" \in DOMAIN checks /\ checks["price"] = "blocker"
  BY <1>1 DEF LockChecks
<1>3. DOMAIN checks \subseteq {all[i] : i \in 1..12}
  <2>1. r.locked.parts \subseteq {"cpu", "gpu", "os", "warranty", "return"}
    BY DEF Accepted
  <2>2. DOMAIN checks \subseteq {"title", "seller", "quantity", "price", "delivery_stock", "cpu", "gpu", "os",
                               "warranty", "return", "ram", "storage"}
    BY <2>1 DEF LockChecks
  <2>3. \A c \in {"title", "seller", "quantity", "price", "delivery_stock", "cpu", "gpu", "os",
                  "warranty", "return", "ram", "storage"} : \E i \in 1..12 : all[i] = c
    <3>1. /\ all[1] = "title" /\ all[2] = "seller" /\ all[3] = "quantity" /\ all[4] = "price"
          /\ all[5] = "delivery_stock" /\ all[6] = "cpu" /\ all[7] = "gpu" /\ all[8] = "os"
          /\ all[9] = "warranty" /\ all[10] = "return" /\ all[11] = "ram" /\ all[12] = "storage"
      OBVIOUS
    <3> HIDE DEF all
    <3> QED
      BY <3>1
  <2> HIDE DEF all, checks
  <2> QED
    BY <2>2, <2>3
<1> HIDE DEF all, checks
<1>4. IsFiniteSet(1..12)
  <2>1. PICK n \in Int : n = 12
    OBVIOUS
  <2>2. IsFiniteSet(1..n)
    BY FS_Interval
  <2> QED
    BY <2>1, <2>2, Zenon
<1>5. IsFiniteSet({all[i] : i \in 1..12})
  <2> DEFINE S == {all[i] : i \in 1..12}
             f == [i \in 1..12 |-> all[i]]
  <2>1. f \in Surjection(1..12, S)
    BY DEF Surjection
  <2> HIDE DEF S, f
  <2>2. IsFiniteSet(S)
    BY <1>4, <2>1, FS_Surjection
  <2> QED
    BY <2>2 DEF S
<1>6. IsFiniteSet(blocked) /\ blocked # {}
  <2>1. blocked \in SUBSET {all[i] : i \in 1..12}
    BY <1>3
  <2> QED
    BY <1>2, <1>5, <2>1, FS_Subset
<1>7. Cardinality(blocked) \in Nat /\ Cardinality(blocked) # 0
  BY <1>6, FS_CardinalityType, FS_EmptySet
<1>8. LockCount(r, "blocker") = Cardinality(blocked)
  BY DEF LockCount, checks
<1>9. LockVerdict(r) = "blocker"
  BY <1>7, <1>8 DEF LockVerdict
<1> QED
  BY <1>9, Routes DEF LockKit, Answer

\* The kits that compare the price as it is given.
LEMMA PlainSpends ==
    ASSUME NEW r, Accepted(r), r.kit \in {"execution", "triage", "scanner", "cart", "page"},
           r.budget # None, Over(CostOf(r), r.budget)
    PROVE  KitAnswer(r).verdict # "ok"
<1>1. CASE r.kit = "execution"
  <2>1. Over(r.price, r.budget)
    BY <1>1 DEF CostOf
  <2>2. ExecutionVerdict(r) # "ok"
    BY <2>1 DEF ExecutionVerdict
  <2> QED
    BY <1>1, <2>2, RoutesOn DEF ExecutionKit, Answer
<1>2. CASE r.kit = "triage"
  <2>1. Over(r.total, r.budget) /\ r.total # None
    BY <1>2 DEF CostOf, Over
  <2>2. "total" \in DOMAIN TriageSignals(r) /\ TriageSignals(r)["total"] = "blocker"
    BY <2>1 DEF TriageSignals, MatchVerdict
  <2>3. Worst(Values(TriageSignals(r))) = "blocker"
    BY <2>2, ChecksBlock
  <2>4. KitAnswer(r) = TriageKit(r)
    BY <1>2 DEF KitAnswer
  <2> QED
    BY <2>3, <2>4 DEF TriageKit, Answer
<1>3. CASE r.kit = "scanner"
  <2>1. Over(r.total, r.budget) /\ r.total # None
    BY <1>3 DEF CostOf, Over
  <2>2. "price" \in DOMAIN ScannerChecks(r) /\ ScannerChecks(r)["price"] = "blocker"
    BY <2>1 DEF ScannerChecks, ScannerPrice
  <2>3. Worst(Values(ScannerChecks(r))) = "blocker"
    BY <2>2, ChecksBlock
  <2> QED
    BY <1>3, <2>1, <2>3, RoutesOn DEF ScannerKit, Answer
<1>4. CASE r.kit = "cart"
  <2>1. Over(CartTotal(r), r.budget)
    BY <1>4 DEF CostOf
  <2>2. CartBlockers(r) > 0
    BY <2>1 DEF CartBlockers, One
  <2>3. CartVerdict(CartBlockers(r), CartWarnings(r)) = "blocker"
    BY <2>2 DEF CartVerdict
  <2>4. KitAnswer(r) = CartKit(r)
    BY <1>4, Routes
  <2>5. CartKit(r).verdict = CartVerdict(CartBlockers(r), CartWarnings(r))
    BY DEF CartKit, Answer
  <2> QED
    BY <2>3, <2>4, <2>5
<1>5. CASE r.kit = "page"
  <2>1. Over(EffectivePrice(r), r.budget)
    BY <1>5 DEF CostOf
  <2>2. PageVerdict(r) # "ok"
    BY <2>1 DEF PageVerdict, FoundVerdict
  <2> QED
    BY <1>5, <2>2, Routes DEF PageKit, Answer
<1> QED
  BY <1>1, <1>2, <1>3, <1>4, <1>5

\* The models of the kits whose sums are computed here.
LEMMA SumModels ==
    /\ Model("breakdown") = BreakdownModel /\ Optional("breakdown") \cap {"listed", "quantity"} = {}
    /\ Model("stress") = StressModel /\ Optional("stress") \cap {"budget", "target"} = {}
    /\ Optional("breakdown") \cap {"shipping", "fees", "coupon", "points"} = {}
    /\ Model("negotiation") = NegotiationModel /\ Optional("negotiation") \cap {"current", "ship", "bundle"} = {}
    /\ Model("blueprint") = BlueprintModel /\ Optional("blueprint") \cap {"budget"} = {}
    /\ Model("custom") = CustomModel /\ Optional("custom") \cap {"budget"} = {}
    /\ Model("analyze") = AgentModel
    /\ \A kit \in {"compare", "timing", "watch"} : Model(kit) = CatalogModel
  BY DEF Model, Optional

\* The price breakdown flags what is over the budget.
LEMMA BreakdownSpends ==
    ASSUME NEW r, Accepted(r), r.kit = "breakdown", r.budget # None, Over(Paid(r), r.budget)
    PROVE  KitAnswer(r).verdict # "ok"
<1>1. /\ r.budget \in Int /\ r.listed \in Int /\ r.quantity \in Int /\ r.shipping \in Int
      /\ r.fees \in Int /\ r.coupon \in Int /\ r.points \in Int
  <2>1. \A field \in {"listed", "quantity", "shipping", "fees", "coupon", "points"} :
            field \notin Optional("breakdown")
    BY DEF Optional
  <2>2. r.budget \in Int
    <3>1. "budget" \in DOMAIN BreakdownModel /\ BreakdownModel["budget"] \subseteq Int
      BY SMT DEF BreakdownModel, Amount
    <3> QED
      BY <3>1, NumberOf, SumModels
  <2>3. r.listed \in Int
    <3>1. "listed" \in DOMAIN BreakdownModel /\ BreakdownModel["listed"] \subseteq Int
      BY SMT DEF BreakdownModel, Cost
    <3> QED
      BY <2>1, <3>1, NumberOf, SumModels
  <2>4. r.quantity \in Int
    <3>1. "quantity" \in DOMAIN BreakdownModel /\ BreakdownModel["quantity"] \subseteq Int
      BY SMT DEF BreakdownModel
    <3> QED
      BY <2>1, <3>1, NumberOf, SumModels
  <2>5. r.shipping \in Int
    <3>1. "shipping" \in DOMAIN BreakdownModel /\ BreakdownModel["shipping"] \subseteq Int
      BY SMT DEF BreakdownModel, Fee
    <3> QED
      BY <2>1, <3>1, NumberOf, SumModels
  <2>6. r.fees \in Int
    <3>1. "fees" \in DOMAIN BreakdownModel /\ BreakdownModel["fees"] \subseteq Int
      BY SMT DEF BreakdownModel
    <3> QED
      BY <2>1, <3>1, NumberOf, SumModels
  <2>7. r.coupon \in Int
    <3>1. "coupon" \in DOMAIN BreakdownModel /\ BreakdownModel["coupon"] \subseteq Int
      BY SMT DEF BreakdownModel
    <3> QED
      BY <2>1, <3>1, NumberOf, SumModels
  <2>8. r.points \in Int
    <3>1. "points" \in DOMAIN BreakdownModel /\ BreakdownModel["points"] \subseteq Int
      BY SMT DEF BreakdownModel
    <3> QED
      BY <2>1, <3>1, NumberOf, SumModels
  <2> QED
    BY <2>2, <2>3, <2>4, <2>5, <2>6, <2>7, <2>8
<1>2. Paid(r) \in Int
  BY <1>1 DEF Paid, NotBelow
<1>3. Paid(r) > r.budget
  BY DEF Over
<1>4. OverBudgetBy(r) > 0
  BY <1>1, <1>2, <1>3 DEF OverBudgetBy, NotBelow
<1>5. "over budget" \in BreakdownFlags(r)
  BY <1>4 DEF BreakdownFlags
<1>6. BreakdownVerdict(r) # "ok"
  BY <1>5 DEF BreakdownVerdict, FoundVerdict
<1>7. KitAnswer(r) = BreakdownKit(r)
  BY DEF KitAnswer
<1> QED
  BY <1>6, <1>7 DEF BreakdownKit, Answer

\* The stress test does not hold a budget below its target.
LEMMA StressSpends ==
    ASSUME NEW r, Accepted(r), r.kit = "stress", Over(r.target, r.budget)
    PROVE  KitAnswer(r).verdict # "ok"
<1>1. r.budget \in Int /\ r.target \in Int
  <2>1. \A field \in {"budget", "target"} : field \in DOMAIN StressModel /\ StressModel[field] \subseteq Int
    <3>1. Amount \subseteq Int
      BY SMT DEF Amount
    <3> QED
      BY <3>1 DEF StressModel
  <2> QED
    BY <2>1, GivenOf, SumModels
<1>2. Gap(r) > 0
  BY <1>1 DEF Gap, Over
<1>3. BaselineStatus(r) # "ok"
  BY <1>2, <1>1 DEF BaselineStatus, Gap
<1>4. KitAnswer(r) = StressKit(r)
  BY DEF KitAnswer
<1> QED
  BY <1>3, <1>4 DEF StressKit, Answer

-----------------------------------------------------------------------------
(* The deal keeps its first eight flags, and all but the first of them speak *)
(* against the purchase.                                                     *)

Against(flags) == List(flags) /\ \A i \in 2..Len(flags) : flags[i][2] \in {"warning", "blocker"}

\* A flag more that is not ok.
LEMMA AgainstMore ==
    ASSUME NEW s, NEW t, Against(s), List(t), \A i \in 1..Len(t) : t[i][2] \in {"warning", "blocker"}
    PROVE  Against(s \o t)
<1>1. /\ List(s \o t) /\ Len(s \o t) = Len(s) + Len(t)
      /\ \A i \in 1..Len(s) : (s \o t)[i] = s[i]
      /\ \A i \in 1..Len(t) : (s \o t)[Len(s) + i] = t[i]
  BY ElementsOfBoth DEF Against
<1>2. PICK m \in Nat : m = Len(s)
  BY LengthOf DEF Against
<1>3. PICK k \in Nat : k = Len(t)
  BY LengthOf
<1>4. ASSUME NEW i \in 2..(m + k) PROVE (s \o t)[i][2] \in {"warning", "blocker"}
  <2>1. CASE i <= m
    <3>1. i \in 1..m /\ i \in 2..m
      BY <2>1
    <3>2. (s \o t)[i] = s[i] /\ s[i][2] \in {"warning", "blocker"}
      BY <1>1, <1>2, <3>1 DEF Against
    <3> QED
      BY <3>2
  <2>2. CASE i > m
    <3>1. PICK j \in 1..k : i = m + j
      <4>1. i - m \in 1..k /\ i = m + (i - m)
        BY <2>2
      <4> QED
        BY <4>1
    <3>2. (s \o t)[m + j] = t[j] /\ t[j][2] \in {"warning", "blocker"}
      BY <1>1, <1>2, <1>3
    <3> QED
      BY <3>1, <3>2
  <2>3. i <= m \/ i > m
    OBVIOUS
  <2> QED
    BY <2>1, <2>2, <2>3, Zenon
<1> QED
  BY <1>1, <1>2, <1>3, <1>4 DEF Against

\* One flag, if any.
LEMMA FlagOf ==
    ASSUME NEW p, NEW name, NEW verdict
    PROVE  /\ List(Flag(p, name, verdict))
           /\ Len(Flag(p, name, verdict)) \in 0..1
           /\ verdict \in {"warning", "blocker"} => \A i \in 1..Len(Flag(p, name, verdict)) : Flag(p, name, verdict)[i][2] \in {"warning", "blocker"}
           /\ ~p => Flag(p, name, verdict) = <<>>
<1> DEFINE item == <<name, verdict>>
<1>1. item[2] = verdict
  OBVIOUS
<1>2. Flag(p, name, verdict) = IF p THEN <<item>> ELSE <<>>
  BY DEF Flag, When
<1> HIDE DEF item
<1>3. List(<<item>>) /\ Len(<<item>>) = 1 /\ <<item>>[1] = item
  BY OneOf
<1>4. List(<<>>) /\ Len(<<>>) = 0
  BY NoneOf
<1>5. CASE p
  <2>1. Flag(p, name, verdict) = <<item>>
    BY <1>2, <1>5
  <2>2. 1 \in 0..1 /\ \A i \in 1..1 : i = 1
    OBVIOUS
  <2> QED
    BY <1>1, <1>3, <1>5, <2>1, <2>2, Zenon
<1>6. CASE ~p
  <2>1. Flag(p, name, verdict) = <<>>
    BY <1>2, <1>6
  <2> QED
    BY <1>4, <1>6, <2>1
<1> QED
  BY <1>5, <1>6

\* At most one flag first.
LEMMA AgainstFirst ==
    ASSUME NEW s, List(s), Len(s) \in 0..1
    PROVE  Against(s)
  BY DEF Against

\* At most one item in one of two lists, and none in the other.
LEMMA OneOrNone ==
    ASSUME NEW s, NEW t, List(s), List(t), Len(s) \in 0..1, Len(t) \in 0..1, s = <<>> \/ t = <<>>
    PROVE  List(s \o t) /\ Len(s \o t) \in 0..1
<1>1. List(s \o t) /\ Len(s \o t) = Len(s) + Len(t)
  BY ElementsOfBoth
<1>2. PICK x \in 0..1 : x = Len(s)
  OBVIOUS
<1>3. PICK y \in 0..1 : y = Len(t)
  OBVIOUS
<1>4. x = 0 \/ y = 0
  BY <1>2, <1>3, NoneOf, Zenon
<1>5. x + y \in 0..1
  BY <1>4
<1> QED
  BY <1>1, <1>2, <1>3, <1>5

\* The first flags, of the price that is compared: no more than one.
LEMMA ReferenceFlags ==
    ASSUME NEW r
    PROVE  LET s == CASE r.reference = None -> <<>>
                      [] OTHER -> IF Savings(r) <= 0 THEN <<<<"not_discounted", "warning">>>>
                                  ELSE Flag(AtLeastRate(r, 280), "too_deep_discount", "warning")
                                       \o Flag(AtLeastRate(r, 80) /\ ~AtLeastRate(r, 280), "meaningful_discount", "ok")
           IN  Against(Flag(r.reference = None, "missing_reference_price", "warning") \o s)
<1> DEFINE a == Flag(r.reference = None, "missing_reference_price", "warning")
           b == Flag(AtLeastRate(r, 280), "too_deep_discount", "warning")
           c == Flag(AtLeastRate(r, 80) /\ ~AtLeastRate(r, 280), "meaningful_discount", "ok")
           d == <<<<"not_discounted", "warning">>>>
           s == CASE r.reference = None -> <<>>
                  [] OTHER -> IF Savings(r) <= 0 THEN d ELSE b \o c
<1>1. List(a) /\ Len(a) \in 0..1 /\ (r.reference # None => a = <<>>)
  BY FlagOf
<1>2. List(b) /\ Len(b) \in 0..1 /\ (~AtLeastRate(r, 280) => b = <<>>)
  BY FlagOf
<1>3. List(c) /\ Len(c) \in 0..1 /\ (AtLeastRate(r, 280) => c = <<>>)
  <2>1. PICK p : p = (AtLeastRate(r, 80) /\ ~AtLeastRate(r, 280))
    OBVIOUS
  <2>2. c = Flag(p, "meaningful_discount", "ok")
    BY <2>1, Zenon
  <2>3. List(c) /\ Len(c) \in 0..1 /\ (~p => c = <<>>)
    BY <2>2, FlagOf
  <2> QED
    BY <2>1, <2>3, Zenon
<1>4. List(d) /\ Len(d) = 1
  BY OneOf
<1>5. List(<<>>) /\ Len(<<>>) = 0
  BY NoneOf
<1> HIDE DEF a, b, c, d
<1>6. List(b \o c) /\ Len(b \o c) \in 0..1
  BY <1>2, <1>3, OneOrNone
<1>7. List(s) /\ Len(s) \in 0..1 /\ (r.reference = None => s = <<>>)
  BY <1>4, <1>5, <1>6
<1> HIDE DEF s
<1>8. List(a \o s) /\ Len(a \o s) \in 0..1
  BY <1>1, <1>7, OneOrNone
<1>9. Against(a \o s)
  BY <1>8, AgainstFirst
<1> QED
  BY <1>9 DEF s, a, b, c, d

\* A deal over the budget is never ok: one of the flags that are kept says so, or another that is
\* against it does.
LEMMA DealSpends ==
    ASSUME NEW r, r.kit = "deal", r.budget # None, Over(DealPrice(r), r.budget)
    PROVE  KitAnswer(r).verdict # "ok"
<1> DEFINE text == AllOf(r.risks) \cup r.evidence
           a == Flag(r.reference = None, "missing_reference_price", "warning")
           b == CASE r.reference = None -> <<>>
                  [] OTHER -> IF Savings(r) <= 0 THEN <<<<"not_discounted", "warning">>>>
                              ELSE Flag(AtLeastRate(r, 280), "too_deep_discount", "warning")
                                   \o Flag(AtLeastRate(r, 80) /\ ~AtLeastRate(r, 280), "meaningful_discount", "ok")
           c == Flag(/\ r.lowest # None /\ DealPrice(r) - r.lowest > 5
                     /\ 25 * (DealPrice(r) - r.lowest) > r.lowest, "above_lowest_seen", "warning")
           d == Flag(text \cap {"used", "imported", "noReturn", "noSupport"} # {}, "hard_condition_terms", "blocker")
           e == Flag("conditional" \in text, "conditional_discount", "warning")
           f == ShortOf(r.warranty, 12, "short_warranty")
           g == ShortOf(r.returns, 7, "short_return_window")
           h == Flag(Below(r.rating, 92), "seller_rating_low", "warning")
           i == Flag(Below(r.stock, 4), "low_stock", "warning")
           j == Flag(Below(r.hours, 7), "expires_soon", "warning")
           k == Flag(r.budget # None /\ Over(DealPrice(r), r.budget), "over_budget", "blocker")
           Less(t) == List(t) /\ \A n \in 1..Len(t) : t[n][2] \in {"warning", "blocker"}
<1>1. DealFlags(r) = First(Or(a \o b \o c \o d \o e \o f \o g \o h \o i \o j \o k, <<<<"sanity_clear", "ok">>>>), 8)
  BY DEF DealFlags
<1>2. Against(a \o b)
  BY ReferenceFlags
<1>3. Less(c) /\ Less(d) /\ Less(e) /\ Less(h) /\ Less(i) /\ Less(j)
  BY FlagOf
<1>4. Less(f) /\ Less(g)
  BY FlagOf DEF ShortOf
<1>5. Less(k) /\ Len(k) = 1
  <2>1. k = <<<<"over_budget", "blocker">>>>
    BY DEF Flag, When
  <2>2. Len(k) = 1
    BY <2>1, OneOf
  <2> QED
    BY <2>2, FlagOf
<1> HIDE DEF a, b, c, d, e, f, g, h, i, j, k
<1>6. Against(a \o b \o c)
  BY <1>2, <1>3, AgainstMore
<1>7. Against(a \o b \o c \o d)
  BY <1>3, <1>6, AgainstMore
<1>8. Against(a \o b \o c \o d \o e)
  BY <1>3, <1>7, AgainstMore
<1>9. Against(a \o b \o c \o d \o e \o f)
  BY <1>4, <1>8, AgainstMore
<1>10. Against(a \o b \o c \o d \o e \o f \o g)
  BY <1>4, <1>9, AgainstMore
<1>11. Against(a \o b \o c \o d \o e \o f \o g \o h)
  BY <1>3, <1>10, AgainstMore
<1>12. Against(a \o b \o c \o d \o e \o f \o g \o h \o i)
  BY <1>3, <1>11, AgainstMore
<1>13. Against(a \o b \o c \o d \o e \o f \o g \o h \o i \o j)
  BY <1>3, <1>12, AgainstMore
<1>14. PICK s : s = a \o b \o c \o d \o e \o f \o g \o h \o i \o j
  OBVIOUS
<1>15. Against(s)
  BY <1>13, <1>14
<1>16. PICK m \in Nat : m = Len(s)
  BY <1>15, LengthOf DEF Against
<1>17. PICK all : all = s \o k
  OBVIOUS
<1>18. List(all) /\ Len(all) = m + 1 /\ all[m + 1] = k[1] /\ Against(all)
  <2>1. List(s \o k) /\ Len(s \o k) = Len(s) + Len(k) /\ \A n \in 1..Len(k) : (s \o k)[Len(s) + n] = k[n]
    <3>1. List(s) /\ List(k)
      BY <1>5, <1>15 DEF Against
    <3> QED
      BY <3>1, ElementsOfBoth
  <2>2. Against(s \o k)
    BY <1>5, <1>15, AgainstMore
  <2>3. 1 \in 1..Len(k)
    BY <1>5
  <2> QED
    BY <1>5, <1>16, <1>17, <2>1, <2>2, <2>3
<1>19. \E n \in 1..AtMost(m + 1, 8) : all[n][2] \in {"warning", "blocker"}
  <2>1. CASE m = 0
    <3>1. 1 \in 1..AtMost(m + 1, 8) /\ all[1] = k[1] /\ k[1][2] \in {"warning", "blocker"}
      BY <1>5, <1>18, <2>1 DEF AtMost
    <3> QED
      BY <3>1
  <2>2. CASE m > 0
    <3>1. 2 \in 1..AtMost(m + 1, 8) /\ 2 \in 2..(m + 1)
      BY <2>2 DEF AtMost
    <3> QED
      BY <1>18, <3>1 DEF Against
  <2> QED
    BY <2>1, <2>2
<1>20. DealFlags(r) = First(all, 8)
  <2>1. all # <<>>
    BY <1>18, LengthOf
  <2> QED
    BY <1>1, <1>14, <1>17, <2>1 DEF Or
<1>21. List(DealFlags(r)) /\ \E n \in DOMAIN DealFlags(r) : DealFlags(r)[n][2] \in {"warning", "blocker"}
  <2>1. PICK eight \in Nat : eight = 8
    OBVIOUS
  <2>2. /\ List(First(all, eight)) /\ Len(First(all, eight)) = AtMost(m + 1, eight)
        /\ \A n \in 1..AtMost(m + 1, eight) : First(all, eight)[n] = all[n]
    <3>1. List(all) /\ Len(all) = m + 1
      BY <1>18
    <3> QED
      BY <3>1, FirstOf
  <2>3. DOMAIN First(all, eight) = 1..AtMost(m + 1, eight)
    BY <2>2 DEF List
  <2> QED
    BY <1>19, <1>20, <2>1, <2>2, <2>3
<1>22. Worst({DealFlags(r)[n][2] : n \in DOMAIN DealFlags(r)}) # "ok"
  BY <1>21, WorstOf
<1>23. DealVerdict(r) # "ok"
  <2>1. PICK w : w = Worst({DealFlags(r)[n][2] : n \in DOMAIN DealFlags(r)})
    OBVIOUS
  <2>2. w \in {"warning", "blocker"}
    BY <1>22, <2>1 DEF Worst
  <2>3. DealVerdict(r) = Worst({w, AtLeast(DealScore(r), 58, 82)})
    BY <2>1 DEF DealVerdict
  <2> QED
    BY <2>2, <2>3, WorstOf
<1>24. KitAnswer(r) = DealKit(r)
  BY DEF KitAnswer
<1> QED
  BY <1>23, <1>24 DEF DealKit, Answer

-----------------------------------------------------------------------------
(* What a kit chooses is one of the items that it sorts.                    *)

\* The rank of an item: how many have a better score, or the same and an earlier place.
Better(scores, n, i) == {j \in 1..n : Before(scores, j, i)}

\* Every rank is the rank of one item.
LEMMA RankReached ==
    ASSUME NEW n \in Nat, NEW scores \in [1..n -> Int], NEW m \in 1..n
    PROVE  \E i \in 1..n : Cardinality(Better(scores, n, i)) = m - 1
<1> DEFINE places == 1..n
           f == [i \in places |-> Cardinality(Better(scores, n, i))]
<1>1. IsFiniteSet(places) /\ Cardinality(places) = n
  BY FS_Interval
<1>2. \A i \in places : /\ IsFiniteSet(Better(scores, n, i))
                        /\ Cardinality(Better(scores, n, i)) \in 0..(n - 1)
  <2>1. TAKE i \in places
  <2>2. Better(scores, n, i) \in SUBSET places /\ i \notin Better(scores, n, i)
    BY DEF Better, Before
  <2>3. /\ IsFiniteSet(Better(scores, n, i))
        /\ Cardinality(Better(scores, n, i)) <= n
        /\ Cardinality(Better(scores, n, i)) # n
    <3> HIDE DEF places
    <3> QED
      BY <1>1, <2>2, FS_Subset
  <2>4. Cardinality(Better(scores, n, i)) \in Nat
    BY <2>3, FS_CardinalityType
  <2> QED
    BY <2>3, <2>4
<1>3. ASSUME NEW i \in places, NEW k \in places, Before(scores, i, k)
      PROVE  Cardinality(Better(scores, n, i)) # Cardinality(Better(scores, n, k))
  <2>1. Better(scores, n, i) \in SUBSET Better(scores, n, k)
    <3>1. \A j \in 1..n : Before(scores, j, i) => Before(scores, j, k)
      BY <1>3 DEF Before
    <3> QED
      BY <3>1 DEF Better
  <2>2. i \in Better(scores, n, k) /\ i \notin Better(scores, n, i)
    BY <1>3 DEF Better, Before
  <2> QED
    BY <1>2, <2>1, <2>2, FS_Subset
<1>4. \A i, k \in places : Before(scores, i, k) \/ Before(scores, k, i) \/ i = k
  BY DEF Before
<1>5. f \in Injection(places, 0..(n - 1))
  <2>1. f \in [places -> 0..(n - 1)]
    BY <1>2
  <2>2. \A i, k \in places : f[i] = f[k] => i = k
    BY <1>3, <1>4
  <2> QED
    BY <2>1, <2>2 DEF Injection, IsInjective
<1>6. f \in Surjection(places, 0..(n - 1))
  <2> HIDE DEF f, places
  <2>1. n - 1 \in Int
    OBVIOUS
  <2>2. IsFiniteSet(0..(n - 1)) /\ Cardinality(0..(n - 1)) = IF 0 > n - 1 THEN 0 ELSE (n - 1) - 0 + 1
    BY <2>1, FS_Interval
  <2>3. Cardinality(0..(n - 1)) = n
    BY <2>2
  <2> QED
    BY <1>1, <1>5, <2>2, <2>3, FS_Injection
<1>7. m - 1 \in 0..(n - 1)
  OBVIOUS
<1>8. \E i \in places : f[i] = m - 1
  BY <1>6, <1>7 DEF Surjection
<1> QED
  BY <1>8

\* What is sorted are the same items.
LEMMA SortedOf ==
    ASSUME NEW n \in Nat, NEW S, NEW items \in [1..n -> S], NEW scores \in [1..n -> Int]
    PROVE  Sorted(items, scores) \in [1..n -> S]
<1>1. ASSUME NEW m \in 1..n PROVE Sorted(items, scores)[m] \in S
  <2> DEFINE chosen == CHOOSE i \in 1..n : Cardinality({j \in 1..n : Before(scores, j, i)}) = m - 1
  <2>1. Sorted(items, scores)[m] = items[chosen]
    BY DEF Sorted
  <2>2. \E i \in 1..n : Cardinality({j \in 1..n : Before(scores, j, i)}) = m - 1
    BY RankReached DEF Better
  <2>3. chosen \in 1..n
    BY <2>2
  <2> QED
    BY <2>1, <2>3
<1>2. Sorted(items, scores) = [m \in 1..n |-> Sorted(items, scores)[m]]
  BY DEF Sorted
<1> QED
  BY <1>1, <1>2

-----------------------------------------------------------------------------
(* Scores are numbers.                                                      *)

\* round(n / d) of integers is an integer.
LEMMA RoundInt == ASSUME NEW x \in Int, NEW d \in Int, d > 0 PROVE Round(x, d) \in Int
<1>1. x \div d \in Int /\ x % d \in Int
  OBVIOUS
<1> QED
  BY <1>1 DEF Round

\* A number of checks.
LEMMA TallyOf == ASSUME NEW checks, NEW verdict, IsFiniteSet(DOMAIN checks) PROVE Tally(checks, verdict) \in Nat
<1>1. {c \in DOMAIN checks : checks[c] = verdict} \in SUBSET DOMAIN checks
  OBVIOUS
<1>2. IsFiniteSet({c \in DOMAIN checks : checks[c] = verdict})
  BY <1>1, FS_Subset
<1> QED
  BY <1>2, FS_CardinalityType DEF Tally

\* The compatibility checks of a product are finitely many.
LEMMA CompatibilityInt == ASSUME NEW s PROVE CompatibilityScore(s) \in Int
<1>1. IsFiniteSet(DOMAIN CompatibilityChecks(s))
  <2>1. DOMAIN CompatibilityChecks(s) \in {{"socket", "power", "gpu_room", "cooler_room", "memory"},
                                           {"memory", "gpu", "portability", "battery"}}
    BY DEF CompatibilityChecks, LaptopChecks, DesktopChecks
  <2>2. IsFiniteSet({"socket", "power", "gpu_room", "cooler_room", "memory"})
    <3>1. IsFiniteSet({"socket"})
      BY FS_Singleton
    <3>2. IsFiniteSet({"socket", "power"})
      <4>1. {"socket", "power"} = {"socket"} \cup {"power"}
        OBVIOUS
      <4> QED
        BY <3>1, <4>1, FS_AddElement
    <3>3. IsFiniteSet({"socket", "power", "gpu_room"})
      <4>1. {"socket", "power", "gpu_room"} = {"socket", "power"} \cup {"gpu_room"}
        OBVIOUS
      <4> QED
        BY <3>2, <4>1, FS_AddElement
    <3>4. IsFiniteSet({"socket", "power", "gpu_room", "cooler_room"})
      <4>1. {"socket", "power", "gpu_room", "cooler_room"} = {"socket", "power", "gpu_room"} \cup {"cooler_room"}
        OBVIOUS
      <4> QED
        BY <3>3, <4>1, FS_AddElement
    <3>5. IsFiniteSet({"socket", "power", "gpu_room", "cooler_room", "memory"})
      <4>1. {"socket", "power", "gpu_room", "cooler_room", "memory"} = {"socket", "power", "gpu_room", "cooler_room"} \cup {"memory"}
        OBVIOUS
      <4> QED
        BY <3>4, <4>1, FS_AddElement
    <3> QED
      BY <3>5
  <2>3. IsFiniteSet({"memory", "gpu", "portability", "battery"})
    <3>1. IsFiniteSet({"memory"})
      BY FS_Singleton
    <3>2. IsFiniteSet({"memory", "gpu"})
      <4>1. {"memory", "gpu"} = {"memory"} \cup {"gpu"}
        OBVIOUS
      <4> QED
        BY <3>1, <4>1, FS_AddElement
    <3>3. IsFiniteSet({"memory", "gpu", "portability"})
      <4>1. {"memory", "gpu", "portability"} = {"memory", "gpu"} \cup {"portability"}
        OBVIOUS
      <4> QED
        BY <3>2, <4>1, FS_AddElement
    <3>4. IsFiniteSet({"memory", "gpu", "portability", "battery"})
      <4>1. {"memory", "gpu", "portability", "battery"} = {"memory", "gpu", "portability"} \cup {"battery"}
        OBVIOUS
      <4> QED
        BY <3>3, <4>1, FS_AddElement
    <3> QED
      BY <3>4
  <2> QED
    BY <2>1, <2>2, <2>3
<1>2. PICK w \in Nat : w = Tally(CompatibilityChecks(s), "warning")
  BY <1>1, TallyOf
<1>3. PICK b \in Nat : b = Tally(CompatibilityChecks(s), "blocker")
  BY <1>1, TallyOf
<1>4. CompatibilityScore(s) = NotBelow(100 - 8 * w - 28 * b, 35)
  BY <1>2, <1>3 DEF CompatibilityScore
<1> QED
  BY <1>4 DEF NotBelow

\* What the catalog says of a product in numbers.
LEMMA ProductsOf ==
    ASSUME NEW category
    PROVE  /\ DOMAIN Products(category) = 1..5
           /\ \A n \in 1..5 : /\ Products(category)[n].price \in Int
                              /\ Products(category)[n].trust \in Int
                              /\ Products(category)[n].specs.slots \in Int
<1>1. \A n \in 1..5 : /\ Laptops[n].slots \in Int /\ Desktops[n].slots \in Int
                      /\ LaptopReviews[n] \in Int /\ DesktopReviews[n] \in Int
  <2> SUFFICES ASSUME NEW n \in 1..5
               PROVE  /\ Laptops[n].slots \in Int /\ Desktops[n].slots \in Int
                      /\ LaptopReviews[n] \in Int /\ DesktopReviews[n] \in Int
    OBVIOUS
  <2>1. n = 1 \/ n = 2 \/ n = 3 \/ n = 4 \/ n = 5
    OBVIOUS
  <2>2. LaptopReviews[n] \in Int /\ DesktopReviews[n] \in Int
    BY <2>1 DEF LaptopReviews, DesktopReviews
  <2>3. Laptops[n].slots = 0
    BY <2>1 DEF Laptops, Laptop
  <2>4. Desktops[n].slots \in Int
    BY <2>1 DEF Desktops, Desktop
  <2> QED
    BY <2>2, <2>3, <2>4
<1>2. \A n \in 1..5 : EffectivePriceOf(LaptopPrices[n]) \in Int /\ EffectivePriceOf(DesktopPrices[n]) \in Int
  <2> SUFFICES ASSUME NEW n \in 1..5
               PROVE  EffectivePriceOf(LaptopPrices[n]) \in Int /\ EffectivePriceOf(DesktopPrices[n]) \in Int
    OBVIOUS
  <2>1. n = 1 \/ n = 2 \/ n = 3 \/ n = 4 \/ n = 5
    OBVIOUS
  <2>2. EffectivePriceOf(LaptopPrices[n]) \in Int
    BY <2>1 DEF EffectivePriceOf, LaptopPrices, Asks
  <2>3. EffectivePriceOf(DesktopPrices[n]) \in Int
    BY <2>1 DEF EffectivePriceOf, DesktopPrices, Asks
  <2> QED
    BY <2>2, <2>3
<1>3. CASE category = "laptop"
  <2>1. Products(category) = [n \in 1..5 |-> Product(Laptops[n], LaptopPrices[n], LaptopReviews[n], n)]
    BY <1>3 DEF Products
  <2> QED
    BY <1>1, <1>2, <2>1 DEF Product
<1>4. CASE category # "laptop"
  <2>1. Products(category) = [n \in 1..5 |-> Product(Desktops[n], DesktopPrices[n], DesktopReviews[n], n)]
    BY <1>4 DEF Products
  <2> QED
    BY <1>1, <1>2, <2>1 DEF Product
<1> QED
  BY <1>3, <1>4

\* The stability of the purchase and the fit of the price are numbers.
LEMMA StabilityInt == ASSUME NEW p PROVE PurchaseStability(p) \in Int
  BY DEF PurchaseStability, NotBelow, One

\* How a product compares with the others is a number.
LEMMA CompetitivenessInt ==
    ASSUME NEW price \in Int, NEW budget \in Int
    PROVE  PriceCompetitiveness(price, budget) \in Int
  BY DEF PriceCompetitiveness, NotBelow

-----------------------------------------------------------------------------
(* The kits that choose from the catalog, and the agent.                    *)

\* A price of the catalog that is over the budget when it is rounded up is over it as it is.
LEMMA RoundedOf ==
    ASSUME NEW price \in Int, NEW budget \in Int
    PROVE  Over(Rounded(price), budget) => price > 10 * budget
<1>1. PICK q \in Int : q = (-price) \div 10 /\ -price <= 10 * q + 9
  OBVIOUS
<1>2. Rounded(price) = -q
  BY <1>1 DEF Rounded
<1> QED
  BY <1>1, <1>2 DEF Over

\* The kits that choose from the catalog go by at least 300,000 won.
LEMMA LimitIs ==
    ASSUME NEW r, Accepted(r), r.kit \in {"compare", "timing", "watch"}, OrZero(r.budget) > 0
    PROVE  /\ GoesBy(r) \in Int /\ GoesBy(r) >= 30
           /\ LimitOf(r) \in Int /\ LimitOf(r) >= 300 /\ LimitOf(r) <= 10 * GoesBy(r)
<1>1. r.budget # None /\ OrZero(r.budget) = r.budget
  BY BudgetGiven
<1>2. PICK b \in Int : b = r.budget
  <2>1. Model(r.kit) = CatalogModel
    BY DEF Model
  <2>2. "budget" \in DOMAIN CatalogModel /\ CatalogModel["budget"] \subseteq Int
    BY DEF CatalogModel
  <2>3. r["budget"] \in Int
    BY <1>1, <2>1, <2>2, NumberOf
  <2> QED
    BY <2>3
<1>3. b > 0
  BY <1>1, <1>2
<1>4. GoesBy(r) = NotBelow(b, 30)
  BY <1>2 DEF GoesBy
<1>5. LimitOf(r) = Clamp(10 * b, 300, 30000)
  BY <1>1, <1>2, <1>3 DEF LimitOf
<1>6. PICK high \in Int : high = 30000
  OBVIOUS
<1>7. high >= 300
  BY <1>6
<1>8. LimitOf(r) = Clamp(10 * b, 300, high)
  BY <1>5, <1>6
<1> QED
  BY <1>4, <1>7, <1>8 DEF Clamp, NotBelow, AtMost

\* They go by some limit whatever the budget, or none, that they are given.
LEMMA LimitGiven ==
    ASSUME NEW r, Accepted(r), r.kit \in {"compare", "timing", "watch"}
    PROVE  LimitOf(r) \in Int /\ LimitOf(r) > 0
<1>1. CASE OrZero(r.budget) > 0
  BY <1>1, LimitIs
<1>2. CASE ~(OrZero(r.budget) > 0)
  <2>1. OrZero(r.budget) \in Int
    <3>1. Model(r.kit) = CatalogModel
      BY DEF Model
    <3>2. "budget" \in DOMAIN CatalogModel /\ CatalogModel["budget"] \subseteq Int
      BY DEF CatalogModel
    <3>3. r.budget # None => r["budget"] \in Int
      BY <3>1, <3>2, NumberOf
    <3> QED
      BY <3>3 DEF OrZero
  <2>2. LimitOf(r) = UsualBudget(r.category)
    BY <1>2, <2>1 DEF LimitOf
  <2> QED
    BY <2>2 DEF UsualBudget
<1> QED
  BY <1>1, <1>2

\* The score of the comparison is a number.
LEMMA CompareScoreInt ==
    ASSUME NEW p, p.price \in Int, p.trust \in Int, NEW budget \in Int, budget > 0, NEW purpose
    PROVE  CompareScore(p, budget, purpose) \in Int
<1>1. PICK fit \in Int : fit = CompareFit(p, purpose)
  <2>1. \A q : One(q) \in Int
    BY DEF One
  <2>2. PICK a \in Int : a = One(purpose \cap {"qhd", "game"} # {})
    BY <2>1
  <2>3. PICK b \in Int : b = One("edit" \in purpose)
    BY <2>1
  <2>4. PICK c \in Int : c = One("portable" \in purpose)
    BY <2>1
  <2>5. PICK d \in Int : d = One("office" \in purpose /\ Tagged(p, {"office", "business", "developer"}))
    BY DEF One
  <2>6. PICK e \in Int : e = One(Tagged(p, {"over_budget"}))
    BY <2>1
  <2>7. PICK f \in Int : f = One(Tagged(p, {"low_risk", "balanced"}))
    BY <2>1
  <2>8. CompareFit(p, purpose) =
          Score(48 + a * (IF Tagged(p, {"qhd_gaming", "qhd_entry"}) THEN 18 ELSE -4)
             + b * (IF Tagged(p, Editing) THEN 18 ELSE -3) + c * (IF Tagged(p, Portable) THEN 18 ELSE -5)
             + 14 * d - 10 * e + 6 * f)
    BY <2>2, <2>3, <2>4, <2>5, <2>6, <2>7, Zenon DEF CompareFit
  <2>9. PICK x \in Int : x = IF Tagged(p, {"qhd_gaming", "qhd_entry"}) THEN 18 ELSE -4
    OBVIOUS
  <2>10. PICK y \in Int : y = IF Tagged(p, Editing) THEN 18 ELSE -3
    OBVIOUS
  <2>11. PICK z \in Int : z = IF Tagged(p, Portable) THEN 18 ELSE -5
    OBVIOUS
  <2>12. CompareFit(p, purpose) = Score(48 + a * x + b * y + c * z + 14 * d - 10 * e + 6 * f)
    BY <2>8, <2>9, <2>10, <2>11, Zenon
  <2>13. PICK m \in Int : m = 48 + a * x + b * y + c * z + 14 * d - 10 * e + 6 * f
    OBVIOUS
  <2>14. CompareFit(p, purpose) \in Int
    BY <2>12, <2>13, ScoreOf
  <2> QED
    BY <2>14
<1>2. PICK room \in Int : room = RoomScore(p.price, budget)
  <2>1. PICK g \in Int : g = AtMost(600 * (budget - p.price), 180 * budget)
    BY DEF AtMost
  <2>2. PICK h \in Int : h = 760 * budget - 1300 * (p.price - budget)
    OBVIOUS
  <2>3. PICK i \in Int : i = Round(g, budget)
    BY RoundInt
  <2>4. PICK j \in Int : j = Round(h, budget)
    BY RoundInt
  <2>5. RoomScore(p.price, budget) = IF p.price <= budget THEN 820 + i ELSE NotBelow(j, 150)
    BY <2>1, <2>2, <2>3, <2>4 DEF RoomScore
  <2> QED
    BY <2>5 DEF NotBelow
<1>3. PICK stable \in Int : stable = PurchaseStability(p)
  BY StabilityInt
<1>4. PICK known \in Int : known = IF p.source \in {"official_store", "price_compare"} THEN 4 ELSE 1
  OBVIOUS
<1>5. PICK trust \in Int : trust = p.trust
  OBVIOUS
<1>6. CompareScore(p, budget, purpose)
        = Round(380 * fit + 26 * room + 220 * trust + 100 * stable + 1000 * known, 100)
  BY <1>1, <1>2, <1>3, <1>4, <1>5 DEF CompareScore
<1>7. 380 * fit + 26 * room + 220 * trust + 100 * stable + 1000 * known \in Int
  OBVIOUS
<1> QED
  BY <1>6, <1>7, RoundOf

\* The candidate that is compared best is a product with its score.
LEMMA ComparedOf ==
    ASSUME NEW r, Accepted(r), r.kit = "compare"
    PROVE  \E i \in 1..5 : \E score \in Int :
               /\ Compared(r)[1].price = Products(r.category)[i].price
               /\ Compared(r)[1].status = CompareStatus(Products(r.category)[i], score, LimitOf(r))
<1> DEFINE products == Products(r.category)
           budget == LimitOf(r)
           purpose == PurposeOf(r)
           item(p) == LET score == CompareScore(p, budget, purpose)
                      IN  [number |-> p.number, price |-> p.price, gap |-> p.price - budget, score |-> score,
                           status |-> CompareStatus(p, score, budget)]
           items == [n \in 1..5 |-> item(products[n])]
           scores == [n \in 1..5 |-> items[n].score]
<1>1. Compared(r) = Sorted(items, scores)
  BY ProductsOf DEF Compared, ByScore, Each
<1>2. budget \in Int /\ budget > 0
  BY LimitGiven
<1>3. \A n \in 1..5 : products[n].price \in Int /\ products[n].trust \in Int
  BY ProductsOf
<1> HIDE DEF products, budget, purpose
<1>4. \A n \in 1..5 : CompareScore(products[n], budget, purpose) \in Int
  BY <1>2, <1>3, CompareScoreInt
<1>5. scores \in [1..5 -> Int]
  BY <1>4
<1>6. DOMAIN items = 1..5
  OBVIOUS
<1>7. \E i \in 1..5 : Compared(r)[1] = items[i]
  <2>1. PICK five \in Nat : five = 5
    OBVIOUS
  <2>2. PICK s : s = scores
    OBVIOUS
  <2>3. PICK t : t = items
    OBVIOUS
  <2> HIDE DEF items, scores
  <2>4. t \in [1..five -> {t[i] : i \in 1..five}] /\ s \in [1..five -> Int]
    BY <1>5, <1>6, <2>1, <2>2, <2>3 DEF items
  <2>5. Sorted(t, s) \in [1..five -> {t[i] : i \in 1..five}]
    BY <2>4, SortedOf
  <2> QED
    BY <1>1, <2>1, <2>2, <2>3, <2>5
<1>8. PICK i \in 1..5 : Compared(r)[1] = items[i]
  BY <1>7
<1>9. PICK p : p = products[i]
  OBVIOUS
<1>10. PICK score \in Int : score = CompareScore(p, budget, purpose)
  BY <1>4, <1>9
<1>11. Compared(r)[1].price = p.price /\ Compared(r)[1].status = CompareStatus(p, score, budget)
  BY <1>8, <1>9, <1>10
<1> QED
  BY <1>9, <1>11 DEF products, budget

\* The candidate that is compared best costs no more than the budget if it is sound.
LEMMA CompareSpends ==
    ASSUME NEW r, Accepted(r), r.kit = "compare", OrZero(r.budget) > 0, Over(CostOf(r), GoesBy(r))
    PROVE  KitAnswer(r).verdict # "ok"
<1>1. /\ GoesBy(r) \in Int /\ GoesBy(r) >= 30
      /\ LimitOf(r) \in Int /\ LimitOf(r) >= 300 /\ LimitOf(r) <= 10 * GoesBy(r)
  BY LimitIs
<1>2. PICK i \in 1..5, score \in Int :
          /\ Compared(r)[1].price = Products(r.category)[i].price
          /\ Compared(r)[1].status = CompareStatus(Products(r.category)[i], score, LimitOf(r))
  BY ComparedOf
<1>3. PICK p : p = Products(r.category)[i] /\ p.price \in Int
  BY ProductsOf
<1>4. CostOf(r) = Rounded(p.price)
  BY <1>2, <1>3 DEF CostOf
<1>5. p.price > LimitOf(r)
  <2>1. p.price > 10 * GoesBy(r)
    BY <1>1, <1>3, <1>4, RoundedOf
  <2> QED
    BY <1>1, <1>3, <2>1
<1>6. CompareStatus(p, score, LimitOf(r)) # "ok"
  <2>1. PICK price \in Int : price = p.price
    BY <1>3
  <2>2. PICK limit \in Int : limit = LimitOf(r)
    BY <1>1
  <2>3. price > limit
    BY <1>5, <2>1, <2>2
  <2> QED
    BY <2>1, <2>2, <2>3 DEF CompareStatus
<1>7. KitAnswer(r) = CompareKit(r)
  BY DEF KitAnswer
<1> QED
  BY <1>2, <1>3, <1>6, <1>7 DEF CompareKit, Answer

\* What is sorted is a list of the same items.
LEMMA ChosenOf ==
    ASSUME NEW items, NEW scores, List(items), scores \in [1..Len(items) -> Int]
    PROVE  /\ List(Sorted(items, scores))
           /\ Len(Sorted(items, scores)) = Len(items)
           /\ Elements(Sorted(items, scores)) \subseteq Elements(items)
           /\ items # <<>> => Sorted(items, scores)[1] \in Elements(items)
<1>1. PICK n \in Nat : n = Len(items) /\ (items = <<>> <=> n = 0)
  BY LengthOf
<1>2. items \in [1..n -> Elements(items)]
  BY <1>1 DEF List
<1>3. PICK s \in [1..n -> Int] : s = scores
  BY <1>1
<1>4. Sorted(items, s) \in [1..n -> Elements(items)]
  BY <1>2, SortedOf
<1>7. PICK t : t = Sorted(items, s)
  OBVIOUS
<1>8. t \in Seq(Elements(items)) /\ Len(t) = n
  BY <1>4, <1>7
<1>9. List(t) /\ Elements(t) \subseteq Elements(items)
  BY <1>8, ElementsOf
<1>10. items # <<>> => t[1] \in Elements(items)
  <2>1. items # <<>> => 1 \in 1..n
    BY <1>1
  <2> QED
    BY <1>4, <1>7, <2>1
<1> QED
  BY <1>1, <1>3, <1>7, <1>8, <1>9, <1>10

\* Of some numbers, one is as high as any.
LEMMA HighestOf ==
    ASSUME NEW n \in Nat \ {0}, NEW f \in [1..n -> Int]
    PROVE  \E i \in 1..n : \A j \in 1..n : f[i] >= f[j]
<1>1. 1 \in 1..n
  OBVIOUS
<1>2. PICK i \in 1..n : Cardinality(Better(f, n, i)) = 0
  <2>1. \E i \in 1..n : Cardinality(Better(f, n, i)) = 1 - 1
    BY <1>1, RankReached
  <2> QED
    BY <2>1
<1>3. Better(f, n, i) = {}
  <2>1. Better(f, n, i) \in SUBSET (1..n)
    BY DEF Better
  <2>2. IsFiniteSet(Better(f, n, i))
    BY <2>1, FS_Interval, FS_Subset
  <2> QED
    BY <1>2, <2>2, FS_EmptySet
<1>4. \A j \in 1..n : f[i] >= f[j]
  <2>1. \A j \in 1..n : ~Before(f, j, i)
    BY <1>3 DEF Better
  <2> QED
    BY <2>1 DEF Before
<1> QED
  BY <1>4

\* The highest of some numbers is one of them.
LEMMA MaxOf ==
    ASSUME NEW n \in Nat \ {0}, NEW f \in [1..n -> Int]
    PROVE  Max({f[i] : i \in 1..n}) \in {f[i] : i \in 1..n}
<1>1. PICK i \in 1..n : \A j \in 1..n : f[i] >= f[j]
  BY HighestOf
<1>2. \E x \in {f[k] : k \in 1..n} : \A y \in {f[k] : k \in 1..n} : x >= y
  BY <1>1
<1> QED
  BY <1>2 DEF Max

\* The highest of an amount of the items of a list is the amount of one of them.
LEMMA MaxOfList ==
    ASSUME NEW items, NEW f, List(items), items # <<>>, f \in [1..Len(items) -> Int]
    PROVE  \E i \in 1..Len(items) : Max({f[k] : k \in 1..Len(items)}) = f[i]
<1>1. PICK n \in Nat \ {0} : n = Len(items)
  BY LengthOf
<1>2. PICK g \in [1..n -> Int] : g = f
  BY <1>1
<1>3. Max({g[i] : i \in 1..n}) \in {g[i] : i \in 1..n}
  BY MaxOf
<1> QED
  BY <1>1, <1>2, <1>3

-----------------------------------------------------------------------------
\* The window of a product: it is only called good within the budget, it aims no higher than the
\* budget, and calls at most 1 % above it.
Fair(w, limit) ==
    /\ w.price \in Int /\ w.target \in Int /\ w.target <= 100 * limit
    /\ w.status \in Verdict
    /\ w.status = "ok" => w.price <= limit
    /\ AlertThreshold(w) <= 101 * limit

\* The window of every product of the catalog is fair, for every limit above 0.
LEMMA WindowFair ==
    ASSUME NEW p, NEW limit \in Int, p.price \in Int, limit > 0
    PROVE  Fair([price |-> p.price, target |-> WindowTarget(p.price, limit), status |-> WindowStatus(p, limit)], limit)
<1>1. PICK price \in Int : price = p.price
  OBVIOUS
<1>2. PICK target \in Int : target = WindowTarget(price, limit) /\ target <= 100 * limit
  BY DEF WindowTarget, AtMost
<1>3. PICK status : status = WindowStatus(p, limit)
  OBVIOUS
<1>4. status \in {"ok", "warning", "blocker"} /\ (status = "ok" => price <= limit)
  <2>1. CASE 100 * price > 112 * limit
    BY <1>1, <1>3, <2>1 DEF WindowStatus
  <2>2. CASE 100 * price <= 112 * limit /\ (price > limit \/ p.limited)
    BY <1>1, <1>3, <2>2 DEF WindowStatus
  <2>3. CASE 100 * price <= 112 * limit /\ ~(price > limit \/ p.limited)
    BY <1>1, <1>3, <2>3 DEF WindowStatus
  <2> QED
    BY <2>1, <2>2, <2>3
<1>5. status \in Verdict
  BY <1>4 DEF Verdict
<1> DEFINE w == [price |-> price, target |-> target, status |-> status]
<1>6. w.price = price /\ w.target = target /\ w.status = status
  OBVIOUS
<1> HIDE DEF w
<1>7. AlertThreshold(w) <= 101 * limit
  <2>1. CASE status = "ok"
    BY <1>4, <1>6, <2>1 DEF AlertThreshold
  <2>2. CASE status # "ok"
    <3>1. PICK q \in Int : q = (101 * target) \div 100 /\ 100 * q <= 101 * target
      OBVIOUS
    <3>2. q <= 101 * limit
      BY <1>2, <3>1
    <3>3. AlertThreshold(w) = AtMost(100 * price, q)
      BY <1>6, <2>2, <3>1 DEF AlertThreshold
    <3> QED
      BY <3>2, <3>3 DEF AtMost
  <2> QED
    BY <2>1, <2>2
<1>8. Fair(w, limit)
  BY <1>2, <1>4, <1>5, <1>6, <1>7 DEF Fair
<1> QED
  BY <1>1, <1>2, <1>3, <1>8 DEF w

\* The windows are a list of fair ones.
LEMMA WindowsOf ==
    ASSUME NEW r, Accepted(r), r.kit \in {"timing", "watch"}
    PROVE  /\ List(Windows(r)) /\ Windows(r) # <<>>
           /\ \A w \in Elements(Windows(r)) : Fair(w, LimitOf(r))
<1> DEFINE products == Products(r.category)
           limit == LimitOf(r)
           purpose == PurposeOf(r)
           scores == [n \in 1..5 |-> TimingRank(products[n], purpose)]
           sorted == Sorted(products, scores)
           window(p) == [price |-> p.price, target |-> WindowTarget(p.price, limit), status |-> WindowStatus(p, limit)]
<1>1. DOMAIN products = 1..5 /\ \A n \in 1..5 : products[n].price \in Int /\ products[n].trust \in Int
  BY ProductsOf
<1>2. Windows(r) = [n \in DOMAIN sorted |-> window(sorted[n])]
  BY <1>1 DEF Windows, ByScore, Each
<1>3. limit \in Int /\ limit > 0
  BY LimitGiven
<1>4. products = [n \in 1..5 |-> products[n]]
  BY DEF Products
<1> HIDE DEF products, limit, purpose
<1>5. \A n \in 1..5 : TimingRank(products[n], purpose) \in Int
  <2> TAKE n \in 1..5
  <2>1. PICK t \in Int : t = products[n].trust
    BY <1>1
  <2>2. PICK s \in Int : s = PurchaseStability(products[n])
    BY StabilityInt
  <2>3. PICK p : p = products[n]
    OBVIOUS
  <2>4. TimingRank(p, purpose) \in Int
    BY <2>1, <2>2, <2>3 DEF TimingRank, One
  <2> QED
    BY <2>3, <2>4
<1>6. scores \in [1..5 -> Int]
  BY <1>5
<1> DEFINE S == {p \in {products[n] : n \in 1..5} : p.price \in Int}
<1>7. products \in [1..5 -> S]
  BY <1>1, <1>4
<1>8. sorted \in [1..5 -> S]
  <2> HIDE DEF scores, S
  <2>1. PICK five \in Nat : five = 5
    OBVIOUS
  <2>2. PICK s : s = scores
    OBVIOUS
  <2>3. PICK t : t = products
    OBVIOUS
  <2>4. t \in [1..five -> S] /\ s \in [1..five -> Int]
    BY <1>6, <1>7, <2>1, <2>2, <2>3
  <2>5. Sorted(t, s) \in [1..five -> S]
    BY <2>4, SortedOf
  <2> QED
    BY <2>1, <2>2, <2>3, <2>5
<1>9. \A p \in S : p.price \in Int
  OBVIOUS
<1> HIDE DEF sorted, S, scores
<1>10. \A n \in 1..5 : Fair(window(sorted[n]), limit)
  <2> TAKE n \in 1..5
  <2>1. PICK p \in S : p = sorted[n]
    BY <1>8
  <2>2. Fair(window(p), limit)
    BY <1>3, <1>9, WindowFair
  <2> QED
    BY <2>1, <2>2
<1>11. Windows(r) = [n \in 1..5 |-> window(sorted[n])]
  BY <1>2, <1>8
<1> HIDE DEF window
<1>12. PICK windows : windows = Windows(r)
  OBVIOUS
<1>13. \A n \in 1..5 : windows[n] = window(sorted[n])
  BY <1>11, <1>12
<1>14. Elements(windows) = {windows[n] : n \in 1..5}
  BY <1>11, <1>12 DEF Elements
<1>15. windows \in Seq(Elements(windows)) /\ Len(windows) = 5
  <2>1. windows = [n \in 1..5 |-> windows[n]] /\ \A n \in 1..5 : windows[n] \in Elements(windows)
    BY <1>11, <1>12, <1>14
  <2> QED
    BY <2>1
<1>16. List(windows) /\ windows # <<>>
  <2>1. List(windows)
    BY <1>15 DEF List
  <2>2. Len(windows) # 0
    BY <1>15
  <2> QED
    BY <2>1, <2>2, LengthOf
<1>17. \A w \in Elements(windows) : Fair(w, limit)
  BY <1>10, <1>13, <1>14
<1> QED
  BY <1>12, <1>16, <1>17 DEF limit

\* The window that leads is one of them.
LEMMA LeadOf ==
    ASSUME NEW windows, NEW limit, List(windows), windows # <<>>, \A w \in Elements(windows) : Fair(w, limit)
    PROVE  Fair(Lead(windows), limit)
<1> DEFINE far(w) == 10000000 * Rank(w.status) + 100 * w.price - w.target
           scores == [i \in DOMAIN windows |-> -far(windows[i])]
<1>1. Lead(windows) = Sorted(windows, scores)[1]
  BY DEF Lead, ByRank, ByScore, Each
<1>2. DOMAIN windows = 1..Len(windows) /\ \A i \in 1..Len(windows) : windows[i] \in Elements(windows)
  BY DEF List, Elements
<1>3. \A w \in Elements(windows) : far(w) \in Int
  <2> TAKE w \in Elements(windows)
  <2>1. PICK a \in Int : a = Rank(w.status)
    BY DEF Fair, Rank, Verdict
  <2>2. PICK b \in Int : b = w.price
    BY DEF Fair
  <2>3. PICK c \in Int : c = w.target
    BY DEF Fair
  <2> QED
    BY <2>1, <2>2, <2>3
<1> HIDE DEF far
<1>4. scores \in [1..Len(windows) -> Int]
  BY <1>2, <1>3
<1> HIDE DEF scores
<1>5. Sorted(windows, scores)[1] \in Elements(windows)
  BY <1>4, ChosenOf
<1> QED
  BY <1>1, <1>5

\* The window that is watched is one of them.
LEMMA WatchedOf ==
    ASSUME NEW windows, NEW limit, List(windows), windows # <<>>, \A w \in Elements(windows) : Fair(w, limit)
    PROVE  Fair(Watched(windows), limit)
<1> DEFINE waiting == Only(windows, LAMBDA w : w.status # "ok")
           some == Or(waiting, windows)
           asked == [i \in DOMAIN some |-> -some[i].price]
           cheap == Sorted(some, asked)
           far(w) == 10000000 * One(w.status # "warning") + WindowGap(w)
           scores == [i \in DOMAIN cheap |-> -far(cheap[i])]
<1>1. Watched(windows) = Sorted(cheap, scores)[1]
  BY DEF Watched, ByRank, ByScore, Each
<1>2. List(waiting) /\ Elements(waiting) \subseteq Elements(windows)
  <2> DEFINE places == {i \in DOMAIN windows : windows[i].status # "ok"}
  <2>1. waiting = At(windows, places)
    BY DEF Only
  <2>2. places \in SUBSET (1..Len(windows))
    BY DEF List
  <2> HIDE DEF places, waiting
  <2>3. List(At(windows, places)) /\ Elements(At(windows, places)) = {windows[i] : i \in places}
    BY <2>2, AtOf
  <2>4. {windows[i] : i \in places} \subseteq Elements(windows)
    BY <2>2 DEF Elements, List
  <2> QED
    BY <2>1, <2>3, <2>4
<1> HIDE DEF waiting
<1>3. List(some) /\ some # <<>> /\ Elements(some) \subseteq Elements(windows)
  BY <1>2 DEF Or
<1> HIDE DEF some
<1>4. asked \in [1..Len(some) -> Int]
  <2>1. DOMAIN some = 1..Len(some) /\ \A i \in 1..Len(some) : some[i] \in Elements(some)
    BY <1>3 DEF List, Elements
  <2>2. \A i \in 1..Len(some) : some[i].price \in Int
    BY <1>3, <2>1 DEF Fair
  <2> QED
    BY <2>1, <2>2
<1> HIDE DEF asked
<1>5. List(cheap) /\ cheap # <<>> /\ Elements(cheap) \subseteq Elements(windows)
  <2>1. /\ List(Sorted(some, asked)) /\ Len(Sorted(some, asked)) = Len(some)
        /\ Elements(Sorted(some, asked)) \subseteq Elements(some)
    BY <1>3, <1>4, ChosenOf
  <2> QED
    BY <1>3, <2>1, LengthOf
<1> HIDE DEF cheap
<1>6. \A w \in Elements(windows) : far(w) \in Int
  <2> TAKE w \in Elements(windows)
  <2>1. PICK a \in Int : a = One(w.status # "warning")
    BY DEF One
  <2>2. PICK b \in Int : b = WindowGap(w)
    <3>1. w.price \in Int /\ w.target \in Int
      BY DEF Fair
    <3> QED
      BY <3>1 DEF WindowGap, NotBelow
  <2> QED
    BY <2>1, <2>2
<1> HIDE DEF far
<1>7. scores \in [1..Len(cheap) -> Int]
  <2>1. DOMAIN cheap = 1..Len(cheap) /\ \A i \in 1..Len(cheap) : cheap[i] \in Elements(cheap)
    BY <1>5 DEF List, Elements
  <2> QED
    BY <1>5, <1>6, <2>1
<1> HIDE DEF scores
<1>8. Sorted(cheap, scores)[1] \in Elements(cheap)
  BY <1>5, <1>7, ChosenOf
<1> QED
  BY <1>1, <1>5, <1>8

\* The kits of the price watch: what they judge sound is within the budget, and so are the targets.
LEMMA WatchSpends ==
    ASSUME NEW r, Accepted(r), r.kit \in {"timing", "watch"}, OrZero(r.budget) > 0
    PROVE  /\ ~(Over(CostOf(r), GoesBy(r)) /\ KitAnswer(r).verdict = "ok")
           /\ ~Over(Advised(r), 1000 * GoesBy(r))
           /\ r.kit = "watch" => AlertThreshold(Watched(Windows(r))) <= 1010 * GoesBy(r)
<1>1. PICK windows : windows = Windows(r)
  OBVIOUS
<1>2. PICK g \in Int : g = GoesBy(r) /\ g >= 30
  BY LimitIs
<1>3. PICK limit \in Int : limit = LimitOf(r) /\ limit <= 10 * g
  BY <1>2, LimitIs
<1>4. /\ List(windows) /\ windows # <<>>
      /\ \A w \in Elements(windows) : Fair(w, limit)
  BY <1>1, <1>3, WindowsOf
<1>5. PICK w : w = IF r.kit = "watch" THEN Watched(windows) ELSE Lead(windows)
  OBVIOUS
<1>6. Fair(w, limit)
  BY <1>4, <1>5, LeadOf, WatchedOf
<1>7. CostOf(r) = Rounded(w.price)
  BY <1>1, <1>5 DEF CostOf
<1>8. KitAnswer(r).verdict = w.status
  <2>1. CASE r.kit = "timing"
    <3>1. KitAnswer(r) = TimingKit(r)
      BY <2>1 DEF KitAnswer
    <3> QED
      BY <1>1, <1>5, <2>1, <3>1 DEF TimingKit, Answer
  <2>2. CASE r.kit = "watch"
    <3>1. KitAnswer(r) = WatchKit(r)
      BY <2>2 DEF KitAnswer
    <3> QED
      BY <1>1, <1>5, <2>2, <3>1 DEF WatchKit, Answer
  <2> QED
    BY <2>1, <2>2
<1>9. ~(Over(CostOf(r), g) /\ w.status = "ok")
  <2>1. PICK price \in Int : price = w.price
    BY <1>6 DEF Fair
  <2>2. w.status = "ok" => price <= limit
    BY <1>6, <2>1 DEF Fair
  <2>3. Over(Rounded(price), g) => price > 10 * g
    BY RoundedOf
  <2>4. w.status = "ok" => ~(price > 10 * g)
    BY <1>3, <2>2
  <2> QED
    BY <1>7, <2>1, <2>3, <2>4
<1>10. ~Over(Advised(r), 1000 * g)
  <2> DEFINE f == [i \in 1..Len(windows) |-> windows[i].target]
  <2>1. DOMAIN windows = 1..Len(windows) /\ \A i \in 1..Len(windows) : windows[i] \in Elements(windows)
    BY <1>4 DEF List, Elements
  <2>2. \A i \in 1..Len(windows) : windows[i].target \in Int /\ windows[i].target <= 100 * limit
    BY <1>4, <2>1 DEF Fair
  <2>3. {window.target : window \in Elements(windows)} = {f[i] : i \in 1..Len(windows)}
    BY <2>1 DEF Elements
  <2>4. Advised(r) = Max({f[i] : i \in 1..Len(windows)})
    <3>1. Advised(r) = Max({window.target : window \in Elements(windows)})
      BY <1>1 DEF Advised
    <3> QED
      BY <2>3, <3>1
  <2>5. PICK i \in 1..Len(windows) : Max({f[k] : k \in 1..Len(windows)}) = f[i]
    <3>1. f \in [1..Len(windows) -> Int]
      BY <2>2
    <3> HIDE DEF f
    <3> QED
      BY <1>4, <3>1, MaxOfList
  <2>6. PICK target \in Int : target = Advised(r) /\ target <= 100 * limit
    BY <2>2, <2>4, <2>5
  <2>7. target <= 1000 * g
    BY <1>3, <2>6
  <2> QED
    BY <2>6, <2>7 DEF Over
<1>11. AlertThreshold(w) <= 1010 * g
  <2>1. AlertThreshold(w) <= 101 * limit
    BY <1>6 DEF Fair
  <2>2. AlertThreshold(w) \in Int
    <3>1. PICK price \in Int : price = w.price
      BY <1>6 DEF Fair
    <3>2. PICK target \in Int : target = w.target
      BY <1>6 DEF Fair
    <3>3. (101 * target) \div 100 \in Int
      OBVIOUS
    <3> QED
      BY <3>1, <3>2, <3>3 DEF AlertThreshold, AtMost
  <2> QED
    BY <1>3, <2>1, <2>2
<1> QED
  BY <1>1, <1>2, <1>5, <1>8, <1>9, <1>10, <1>11

\* The agent's score of a product is a number.
LEMMA TotalScoreInt ==
    ASSUME NEW p, NEW r, p.price \in Int, p.trust \in Int, p.specs.slots \in Int, List(r.needs),
           Limit(r) \in Int, Limit(r) > 0
    PROVE  TotalScore(p, r) \in Int
<1>1. PICK fit \in Int : fit = PurposeFit(p, r)
  <2>1. PICK slots \in Int : slots = p.specs.slots
    OBVIOUS
  <2>2. PICK a \in Int : a = One("game" \in r.purpose) * (IF p.specs.gpu \in {"RTX4070", "RTX4080"} THEN 14 ELSE 8)
    BY DEF One
  <2>3. PICK b \in Int : b = (IF p.specs.ram >= 32 THEN 12 ELSE 3)
                             + (IF p.specs.gpu \in {"RX7600", "Arc", "integrated"} THEN 2 ELSE 10)
    OBVIOUS
  <2>4. PICK c \in Int : c = One("edit" \in r.purpose)
    BY DEF One
  <2>5. PICK d \in Int : d = IF p.specs.category = "laptop" THEN 6 * One(p.specs.weight <= 180)
                             ELSE 5 * One(p.specs.psu >= 650)
    BY DEF One
  <2>6. PICK e \in Int : e = One("upgrade" \in Elements(r.needs))
    BY DEF One
  <2>7. PICK f \in Int : f = One(p.specs.category = "laptop" /\ "portable" \in Elements(r.needs) /\ p.specs.weight <= 160)
    BY DEF One
  <2>8. PICK h \in Int : h = IF p.specs.gpu \in {"RTX4070", "RTX4080"} THEN 14 ELSE 8
    OBVIOUS
  <2>9. PICK i \in Int : i = One("game" \in r.purpose)
    BY DEF One
  <2>10. PurposeFit(p, r) = AtMost(70 + h * i + b * c + d + 2 * slots * e + 8 * f, 100)
    BY <2>1, <2>3, <2>4, <2>5, <2>6, <2>7, <2>8, <2>9 DEF PurposeFit
  <2>11. PICK x \in Int : x = 70 + h * i + b * c + d + 2 * slots * e + 8 * f
    OBVIOUS
  <2> QED
    BY <2>10, <2>11 DEF AtMost
<1>2. PICK stable \in Int : stable = PurchaseStability(p)
  BY StabilityInt
<1>3. PICK matching \in Int : matching = CompatibilityScore(p.specs)
  BY CompatibilityInt
<1>4. PICK budget \in Int : budget = Limit(r) /\ budget > 0
  OBVIOUS
<1>5. PICK good \in Int : good = PriceCompetitiveness(p.price, budget)
  BY CompetitivenessInt
<1>6. PICK trust \in Int : trust = p.trust
  OBVIOUS
<1>7. PICK preference \in Int : preference = 78 + AtMost(3 * Len(r.needs), 12)
  <2>1. PICK k \in Nat : k = Len(r.needs)
    BY LengthOf
  <2> QED
    BY <2>1 DEF AtMost
<1>8. PICK rest \in Int : rest = 35 * fit + 15 * trust + 10 * stable + 8 * preference + 10 * matching
  OBVIOUS
<1>9. TotalScore(p, r) = Round(budget * rest + 22 * good, 10 * budget)
  BY <1>1, <1>2, <1>3, <1>4, <1>5, <1>6, <1>7, <1>8 DEF TotalScore
<1>10. PICK x \in Int : x = budget * rest + 22 * good
  OBVIOUS
<1>11. PICK y \in Int : y = 10 * budget /\ y > 0
  BY <1>4
<1>12. Round(x, y) \in Int
  BY <1>11, RoundInt
<1> QED
  BY <1>9, <1>10, <1>11, <1>12

\* The agent doubts a pick over the budget, and its targets are below the budget.
LEMMA AgentSpends ==
    ASSUME NEW r, Accepted(r), r.kit = "analyze", OrZero(r.budget) > 0
    PROVE  /\ ~(Over(CostOf(r), r.budget) /\ KitAnswer(r).verdict = "ok")
           /\ ~Over(Advised(r), 1000 * r.budget)
<1>1. r.budget # None /\ OrZero(r.budget) = r.budget
  BY BudgetGiven
<1>2. PICK b \in Int : b = r.budget /\ b > 0
  <2>1. Model(r.kit) = AgentModel
    BY DEF Model
  <2>2. "budget" \in DOMAIN AgentModel /\ AgentModel["budget"] \subseteq Int
    BY DEF AgentModel
  <2>3. r["budget"] \in Int
    BY <1>1, <2>1, <2>2, NumberOf
  <2> QED
    BY <1>1, <2>3
<1>3. Limit(r) = 10 * b
  BY <1>1, <1>2 DEF Limit
<1>4. List(r.needs)
  <2>1. "needs" \in ListsOf(r.kit)
    BY DEF ListsOf
  <2> QED
    BY <2>1 DEF Accepted
<1> DEFINE products == Products(r.category)
           scores == [n \in 1..5 |-> TotalScore(products[n], r)]
           S == {p \in {products[n] : n \in 1..5} : p.price \in Int}
<1>5. /\ DOMAIN products = 1..5
      /\ \A n \in 1..5 : products[n].price \in Int /\ products[n].trust \in Int /\ products[n].specs.slots \in Int
  BY ProductsOf
<1>6. Ranked(r) = Sorted(products, scores)
  BY <1>5 DEF Ranked, ByScore, Each
<1>7. products = [n \in 1..5 |-> products[n]]
  BY DEF Products
<1> HIDE DEF products
<1>8. \A n \in 1..5 : TotalScore(products[n], r) \in Int
  <2> TAKE n \in 1..5
  <2>1. PICK p : p = products[n]
    OBVIOUS
  <2>2. p.price \in Int /\ p.trust \in Int /\ p.specs.slots \in Int
    BY <1>5, <2>1
  <2>3. Limit(r) \in Int /\ Limit(r) > 0
    BY <1>2, <1>3
  <2> QED
    BY <1>4, <2>1, <2>2, <2>3, TotalScoreInt
<1>9. scores \in [1..5 -> Int] /\ products \in [1..5 -> S]
  BY <1>5, <1>7, <1>8
<1>10. Ranked(r) \in [1..5 -> S]
  <2> HIDE DEF scores, S
  <2>1. PICK five \in Nat : five = 5
    OBVIOUS
  <2>2. PICK s : s = scores
    OBVIOUS
  <2>3. PICK t : t = products
    OBVIOUS
  <2>4. t \in [1..five -> S] /\ s \in [1..five -> Int]
    BY <1>9, <2>1, <2>2, <2>3
  <2>5. Sorted(t, s) \in [1..five -> S]
    BY <2>4, SortedOf
  <2> QED
    BY <1>6, <2>1, <2>2, <2>3, <2>5
<1>11. \A p \in S : p.price \in Int
  OBVIOUS
<1> HIDE DEF scores, S
<1>12. PICK pick \in S : pick = Ranked(r)[1]
  BY <1>10
<1>13. KitAnswer(r).verdict = Decision(r, pick)
  <2>1. KitAnswer(r) = AgentKit(r)
    BY DEF KitAnswer
  <2> QED
    BY <1>12, <2>1 DEF AgentKit, Answer
<1>14. Over(CostOf(r), r.budget) => Decision(r, pick) # "ok"
  <2>1. PICK price \in Int : price = pick.price
    BY <1>11
  <2>2. CostOf(r) = Rounded(price)
    BY <1>12, <2>1 DEF CostOf
  <2>3. Over(Rounded(price), b) => price > 10 * b
    BY RoundedOf
  <2>4. price > 10 * b => BudgetGap(pick, r) > 0
    BY <1>1, <1>2, <2>1 DEF BudgetGap
  <2>5. BudgetGap(pick, r) > 0 => Decision(r, pick) # "ok"
    <3>1. BudgetGap(pick, r) > 0 => ToWait(r, pick)
      BY DEF ToWait
    <3> QED
      BY <3>1 DEF Decision
  <2> QED
    BY <1>2, <2>2, <2>3, <2>4, <2>5
<1>15. ~Over(Advised(r), 1000 * r.budget)
  <2> DEFINE three == First(Ranked(r), 3)
             f == [i \in 1..Len(three) |-> AlertTarget(three[i], r)]
  <2>1. \A p \in S : AlertTarget(p, r) \in Int /\ AlertTarget(p, r) <= 970 * b
    <3> TAKE p \in S
    <3>1. PICK price \in Int : price = p.price
      BY <1>11
    <3>2. AlertTarget(p, r) = AtMost(96 * price, 97 * (10 * b))
      BY <1>3, <3>1 DEF AlertTarget
    <3> QED
      BY <3>2 DEF AtMost
  <2>2. List(three) /\ three # <<>> /\ Elements(three) \subseteq S
    <3>1. PICK all : all = Ranked(r)
      OBVIOUS
    <3>2. all \in Seq(S) /\ Len(all) = 5
      <4>1. PICK five \in Nat : five = 5
        OBVIOUS
      <4>2. all \in [1..five -> S]
        BY <1>10, <3>1, <4>1
      <4>3. all \in Seq(S) /\ Len(all) = five
        BY <4>2
      <4> QED
        BY <4>1, <4>3
    <3>3. List(all) /\ Elements(all) \subseteq S
      BY <3>2, ElementsOf
    <3>4. all # <<>>
      <4>1. Len(all) # 0
        BY <3>2
      <4> QED
        BY <3>3, <4>1, LengthOf
    <3>5. PICK n \in Nat : n = 3
      OBVIOUS
    <3>6. List(First(all, n)) /\ Elements(First(all, n)) \subseteq Elements(all) /\ First(all, n) # <<>>
      <4>1. n > 0
        BY <3>5
      <4> QED
        BY <3>3, <3>4, <4>1, FirstOf
    <3> QED
      BY <3>1, <3>3, <3>5, <3>6
  <2>3. Advised(r) = Max({AlertTarget(p, r) : p \in Elements(three)})
    BY DEF Advised
  <2> HIDE DEF three
  <2>4. DOMAIN three = 1..Len(three) /\ \A i \in 1..Len(three) : three[i] \in S
    BY <2>2 DEF List, Elements
  <2>5. f \in [1..Len(three) -> Int] /\ \A i \in 1..Len(three) : f[i] <= 970 * b
    BY <2>1, <2>4
  <2>6. {AlertTarget(p, r) : p \in Elements(three)} = {f[i] : i \in 1..Len(three)}
    BY <2>4 DEF Elements
  <2> HIDE DEF f
  <2>7. PICK i \in 1..Len(three) : Max({f[k] : k \in 1..Len(three)}) = f[i]
    BY <2>2, <2>5, MaxOfList
  <2>8. PICK target \in Int : target = Advised(r) /\ target <= 970 * b
    <3>1. Advised(r) = f[i]
      BY <2>3, <2>6, <2>7, Zenon
    <3>2. f[i] \in Int /\ f[i] <= 970 * b
      BY <2>5
    <3> QED
      BY <3>1, <3>2
  <2>9. target <= 1000 * b
    BY <1>2, <2>8
  <2> QED
    BY <1>2, <2>8, <2>9 DEF Over
<1> QED
  BY <1>13, <1>14, <1>15

-----------------------------------------------------------------------------
(* The kits that say how much to spend, and the buyers' own candidates.     *)

\* A price that is capped by an amount, if that is given.
LEMMA CappedOf ==
    ASSUME NEW price \in Int, NEW cap, cap = None \/ cap \in Int
    PROVE  Capped(price, cap) \in Int /\ (cap # None => Capped(price, cap) <= 100 * cap)
  BY DEF Capped, AtMost

\* The offers of the negotiation stay within the budget.
LEMMA NegotiationSpends ==
    ASSUME NEW r, Accepted(r), r.kit = "negotiation", OrZero(r.budget) > 0
    PROVE  ~Over(Advised(r), 1000 * r.budget)
<1>1. r.budget # None /\ OrZero(r.budget) = r.budget
  BY BudgetGiven
<1>2. \A field \in {"current", "wish", "budget", "competing", "ship", "bundle"} :
          field \in DOMAIN NegotiationModel /\ NegotiationModel[field] \subseteq Int
  <2>1. Amount \subseteq Int /\ Fee \subseteq Int /\ 0..1000 \subseteq Int
    BY SMT DEF Amount, Fee
  <2> QED
    BY <2>1 DEF NegotiationModel
<1>3. PICK current \in Int : current = r.current
  <2>1. r["current"] \in Int
    BY <1>2, NumberOf, SumModels
  <2> QED
    BY <2>1
<1>4. PICK b \in Int : b = r.budget /\ b > 0
  <2>1. r["budget"] \in Int
    BY <1>1, <1>2, NumberOf, SumModels
  <2> QED
    BY <1>1, <2>1
<1>5. r.wish = None \/ r.wish \in Int
  <2>1. r["wish"] = None \/ r["wish"] \in Int
    BY <1>2, NumberOf, SumModels
  <2> QED
    BY <2>1
<1>6. r.competing = None \/ r.competing \in Int
  <2>1. r["competing"] = None \/ r["competing"] \in Int
    BY <1>2, NumberOf, SumModels
  <2> QED
    BY <2>1
<1>7. PICK fees \in Int : fees = Fees(r)
  <2>1. r["ship"] \in Int /\ r["bundle"] \in Int
    BY <1>2, NumberOf, SumModels
  <2> QED
    BY <2>1 DEF Fees
<1>8. PICK anchor \in Int : anchor = Anchor(r)
  <2> DEFINE anchors == {p \in {r.wish, r.budget, r.competing} : OrZero(p) > 0}
  <2>1. b \in anchors /\ \A p \in anchors : p \in {r.wish, b, r.competing} /\ p \in Int
    BY <1>1, <1>4, <1>5, <1>6 DEF OrZero
  <2>2. Anchor(r) = Min(anchors)
    BY <2>1 DEF Anchor
  <2> HIDE DEF anchors
  <2>3. PICK a \in anchors : a = IF r.wish \in anchors THEN r.wish ELSE b
    BY <2>1
  <2>4. PICK c \in anchors : c = IF r.competing \in anchors THEN r.competing ELSE b
    BY <2>1
  <2>5. \A p \in anchors : p = a \/ p = b \/ p = c
    BY <2>1, <2>3, <2>4
  <2>6. \E x \in anchors : \A y \in anchors : x <= y
    <3>1. PICK i \in Int : i = a
      BY <2>1
    <3>2. PICK k \in Int : k = c
      BY <2>1
    <3>3. \E x \in {i, b, k} : x <= i /\ x <= b /\ x <= k
      BY <1>4
    <3> QED
      BY <2>1, <2>5, <3>1, <3>2, <3>3
  <2>7. Min(anchors) \in anchors
    BY <2>6 DEF Min
  <2> QED
    BY <2>1, <2>2, <2>7
<1>9. PICK fair \in Int : fair = FairOffer(r) /\ fair <= 100 * b
  <2> DEFINE condition == AtMost(NotBelow(100 * (current - anchor), 0), NotBelow(6 * current, 200))
             cut == AtMost(100 * fees, 4 * current)
             buffer == IF Pressed(r) THEN 0 ELSE 200
  <2>1. PICK x \in Int : x = 100 * current - condition - cut - buffer
    BY DEF AtMost, NotBelow
  <2>2. FairOffer(r) = NotBelow(Capped(Capped(x, r.wish), r.budget), 0)
    BY <1>3, <1>7, <1>8, <2>1 DEF FairOffer
  <2>3. PICK y \in Int : y = Capped(x, r.wish)
    BY <1>5, CappedOf
  <2>4. PICK z \in Int : z = Capped(y, r.budget) /\ z <= 100 * b
    BY <1>1, <1>4, CappedOf
  <2>5. FairOffer(r) = NotBelow(z, 0)
    BY <2>2, <2>3, <2>4
  <2> QED
    BY <1>4, <2>4, <2>5 DEF NotBelow
<1>10. PICK most \in Int : most = MaxAcceptable(r) /\ most <= 100 * b
  <2> DEFINE wished == IF r.wish = None THEN 100 * current ELSE 100 * r.wish + NotBelow(2 * current, 200)
  <2>1. PICK w \in Int : w = wished
    <3>1. CASE r.wish = None
      BY <3>1
    <3>2. CASE r.wish \in Int
      BY <3>2 DEF NotBelow
    <3> QED
      BY <1>5, <3>1, <3>2
  <2>2. PICK x \in Int : x = AtMost(100 * current, w)
    BY DEF AtMost
  <2>3. MaxAcceptable(r) = NotBelow(Capped(x, r.budget), fair)
    BY <1>3, <1>9, <2>1, <2>2 DEF MaxAcceptable
  <2>4. PICK z \in Int : z = Capped(x, r.budget) /\ z <= 100 * b
    BY <1>1, <1>4, CappedOf
  <2> QED
    BY <1>9, <2>3, <2>4 DEF NotBelow
<1>11. Advised(r) = 10 * NotBelow(most, fair)
  BY <1>9, <1>10 DEF Advised
<1>12. NotBelow(most, fair) \in Int /\ NotBelow(most, fair) <= 100 * b
  BY <1>9, <1>10 DEF NotBelow
<1> QED
  BY <1>4, <1>11, <1>12 DEF Over

\* A share of a budget that is cut down to an integer.
LEMMA ShareOf ==
    ASSUME NEW x \in Nat, NEW t \in Nat, t > 0
    PROVE  x \div t \in Nat /\ (x \div t) * t <= x
  OBVIOUS

\* A factor can be taken away.
LEMMA FactorOf ==
    ASSUME NEW q \in Int, NEW b \in Int, NEW t \in Int, t > 0, q * t <= b * t
    PROVE  q <= b
<1>1. CASE q >= b + 1
  <2>1. (q - b) * t >= t
    <3>1. PICK d \in Nat : d = q - b - 1
      BY <1>1
    <3>2. d * t >= 0
      OBVIOUS
    <3>3. (q - b) * t = d * t + t
      BY <3>1
    <3> QED
      BY <3>2, <3>3
  <2>2. (q - b) * t = q * t - b * t
    OBVIOUS
  <2> QED
    BY <2>1, <2>2
<1>2. CASE q < b + 1
  BY <1>2
<1> QED
  BY <1>1, <1>2

\* The parts of a blueprint are cut to the budget.
LEMMA FitOf ==
    ASSUME NEW parts, NEW budget \in Nat, \A p \in DOMAIN parts : parts[p].high \in Nat
    PROVE  PlannedTotal(FitBudget(parts, budget)) \in Int /\ PlannedTotal(FitBudget(parts, budget)) <= budget
<1> DEFINE high(p) == IF p \in DOMAIN parts THEN parts[p].high ELSE 0
           total == PlannedTotal(parts)
<1>1. \A p : high(p) \in Nat
  OBVIOUS
<1>2. total = high("gpu") + high("cpu") + high("mainboard") + high("power_case") + high("os_assembly")
              + high("memory") + high("storage")
              + high("cpu_gpu") + high("display") + high("mobility") + high("warranty")
  BY DEF PlannedTotal
<1> HIDE DEF total, high
<1>3. total \in Nat
  BY <1>1, <1>2
<1>4. CASE total <= budget
  <2>1. FitBudget(parts, budget) = parts
    BY <1>4 DEF FitBudget, total
  <2> QED
    BY <1>3, <1>4, <2>1 DEF total
<1>5. CASE total > budget
  <2> DEFINE fitted == FitBudget(parts, budget)
             q(p) == IF p \in DOMAIN parts THEN (parts[p].high * budget) \div total ELSE 0
  <2>1. fitted = [p \in DOMAIN parts |-> [low  |-> (parts[p].low * budget) \div total,
                                          high |-> (parts[p].high * budget) \div total]]
    BY <1>3, <1>5 DEF FitBudget, total
  <2>2. DOMAIN fitted = DOMAIN parts /\ \A p \in DOMAIN parts : fitted[p].high = (parts[p].high * budget) \div total
    BY <2>1
  <2> HIDE DEF fitted
  <2>3. PlannedTotal(fitted) = q("gpu") + q("cpu") + q("mainboard") + q("power_case") + q("os_assembly")
              + q("memory") + q("storage")
              + q("cpu_gpu") + q("display") + q("mobility") + q("warranty")
    BY <2>2 DEF PlannedTotal
  <2>4. \A p : q(p) \in Nat /\ q(p) * total <= high(p) * budget
    <3> TAKE p
    <3>1. CASE p \in DOMAIN parts
      <4>1. PICK h \in Nat : h = parts[p].high /\ h = high(p)
        BY <3>1 DEF high
      <4>2. PICK x \in Nat : x = h * budget
        OBVIOUS
      <4>3. x \div total \in Nat /\ (x \div total) * total <= x
        BY <1>3, <1>5, ShareOf
      <4> QED
        BY <3>1, <4>1, <4>2, <4>3
    <3>2. CASE p \notin DOMAIN parts
      BY <1>3, <3>2 DEF high
    <3> QED
      BY <3>1, <3>2
  <2> HIDE DEF q
  <2>5. PICK sum \in Int : sum = PlannedTotal(fitted)
    BY <2>3, <2>4
  <2>6. sum * total <= budget * total
    <3>1. PICK g \in Nat, g1 \in Nat : g = q("gpu") /\ g1 = high("gpu") /\ g * total <= g1 * budget
      BY <1>1, <2>4
    <3>2. PICK c \in Nat, c1 \in Nat : c = q("cpu") /\ c1 = high("cpu") /\ c * total <= c1 * budget
      BY <1>1, <2>4
    <3>3. PICK m \in Nat, m1 \in Nat : m = q("mainboard") /\ m1 = high("mainboard") /\ m * total <= m1 * budget
      BY <1>1, <2>4
    <3>4. PICK p \in Nat, p1 \in Nat : p = q("power_case") /\ p1 = high("power_case") /\ p * total <= p1 * budget
      BY <1>1, <2>4
    <3>5. PICK o \in Nat, o1 \in Nat : o = q("os_assembly") /\ o1 = high("os_assembly") /\ o * total <= o1 * budget
      BY <1>1, <2>4
    <3>6. PICK r \in Nat, r1 \in Nat : r = q("memory") /\ r1 = high("memory") /\ r * total <= r1 * budget
      BY <1>1, <2>4
    <3>7. PICK s \in Nat, s1 \in Nat : s = q("storage") /\ s1 = high("storage") /\ s * total <= s1 * budget
      BY <1>1, <2>4
    <3>8. PICK x \in Nat, x1 \in Nat : x = q("cpu_gpu") /\ x1 = high("cpu_gpu") /\ x * total <= x1 * budget
      BY <1>1, <2>4
    <3>9. PICK d \in Nat, d1 \in Nat : d = q("display") /\ d1 = high("display") /\ d * total <= d1 * budget
      BY <1>1, <2>4
    <3>10. PICK y \in Nat, y1 \in Nat : y = q("mobility") /\ y1 = high("mobility") /\ y * total <= y1 * budget
      BY <1>1, <2>4
    <3>11. PICK w \in Nat, w1 \in Nat : w = q("warranty") /\ w1 = high("warranty") /\ w * total <= w1 * budget
      BY <1>1, <2>4
    <3>12. sum = g + c + m + p + o + r + s + x + d + y + w
      BY <2>3, <2>5, <3>1, <3>2, <3>3, <3>4, <3>5, <3>6, <3>7, <3>8, <3>9, <3>10, <3>11
    <3>13. total = g1 + c1 + m1 + p1 + o1 + r1 + s1 + x1 + d1 + y1 + w1
      BY <1>2, <3>1, <3>2, <3>3, <3>4, <3>5, <3>6, <3>7, <3>8, <3>9, <3>10, <3>11
    <3>14. sum * total = g * total + c * total + m * total + p * total + o * total + r * total + s * total
                         + x * total + d * total + y * total + w * total
      BY <1>3, <3>12
    <3>15. total * budget = g1 * budget + c1 * budget + m1 * budget + p1 * budget + o1 * budget + r1 * budget
                            + s1 * budget + x1 * budget + d1 * budget + y1 * budget + w1 * budget
      BY <3>13
    <3>16. sum * total <= total * budget
      <4>1. PICK g2 \in Int, c2 \in Int, m2 \in Int, p2 \in Int, o2 \in Int, r2 \in Int :
               g2 = g * total /\ c2 = c * total /\ m2 = m * total /\ p2 = p * total /\ o2 = o * total /\ r2 = r * total
        BY <1>3
      <4>2. PICK s2 \in Int, x2 \in Int, d2 \in Int, y2 \in Int, w2 \in Int :
               s2 = s * total /\ x2 = x * total /\ d2 = d * total /\ y2 = y * total /\ w2 = w * total
        BY <1>3
      <4>3. PICK g3 \in Int, c3 \in Int, m3 \in Int, p3 \in Int, o3 \in Int, r3 \in Int :
               g3 = g1 * budget /\ c3 = c1 * budget /\ m3 = m1 * budget /\ p3 = p1 * budget /\ o3 = o1 * budget /\ r3 = r1 * budget
        OBVIOUS
      <4>4. PICK s3 \in Int, x3 \in Int, d3 \in Int, y3 \in Int, w3 \in Int :
               s3 = s1 * budget /\ x3 = x1 * budget /\ d3 = d1 * budget /\ y3 = y1 * budget /\ w3 = w1 * budget
        OBVIOUS
      <4>5. g2 <= g3 /\ c2 <= c3 /\ m2 <= m3 /\ p2 <= p3 /\ o2 <= o3 /\ r2 <= r3 /\ s2 <= s3 /\ x2 <= x3 /\ d2 <= d3 /\ y2 <= y3 /\ w2 <= w3
        BY <3>1, <3>2, <3>3, <3>4, <3>5, <3>6, <3>7, <3>8, <3>9, <3>10, <3>11, <4>1, <4>2, <4>3, <4>4
      <4>6. sum * total = g2 + c2 + m2 + p2 + o2 + r2 + s2 + x2 + d2 + y2 + w2
        BY <3>14, <4>1, <4>2
      <4>7. total * budget = g3 + c3 + m3 + p3 + o3 + r3 + s3 + x3 + d3 + y3 + w3
        BY <3>15, <4>3, <4>4
      <4> QED
        BY <4>5, <4>6, <4>7
    <3> QED
      BY <1>3, <3>16
  <2>7. sum <= budget
    BY <1>3, <1>5, <2>6, FactorOf
  <2> QED
    BY <2>5, <2>7 DEF fitted
<1> QED
  BY <1>3, <1>4, <1>5

\* A blueprint plans no more than the budget.
LEMMA BlueprintSpends ==
    ASSUME NEW r, Accepted(r), r.kit = "blueprint", OrZero(r.budget) > 0
    PROVE  ~Over(Advised(r), 1000 * r.budget)
<1>1. PICK b \in Nat : b = r.budget
  <2>1. "budget" \in DOMAIN BlueprintModel /\ BlueprintModel["budget"] \subseteq Int
    BY SMT DEF BlueprintModel, Budget
  <2>2. r["budget"] \in Int
    BY <2>1, BudgetGiven, NumberOf, SumModels
  <2> QED
    BY <2>2, BudgetGiven
<1>2. PICK budget \in Nat : budget = 10 * b
  OBVIOUS
<1> DEFINE shares == Shares(r)
           parts == [p \in DOMAIN shares |-> Component(budget, shares[p])]
<1>3. Components(r) = FitBudget(parts, budget)
  BY <1>1, <1>2 DEF Components
<1>4. \A p \in DOMAIN shares : shares[p] \in Nat
  <2>1. CASE r.category = "laptop"
    BY <2>1 DEF Shares, LaptopShares
  <2>2. CASE r.category # "laptop"
    <3>1. PICK modest \in 0..1 : modest = One(r.mode = "budget")
      BY DEF One
    <3>2. PICK fast \in 0..1 : fast = One(r.mode = "performance")
      BY DEF One
    <3>3. shares = [gpu |-> (IF Gaming(r) THEN 42 ELSE 34) - 4 * modest + 4 * fast,
                    cpu |-> (IF Gaming(r) THEN 18 ELSE 21) - modest,
                    memory |-> 7, storage |-> 6, mainboard |-> 9, power_case |-> 10, os_assembly |-> 8]
      BY <2>2, <3>1, <3>2 DEF Shares, DesktopShares
    <3> HIDE DEF shares
    <3> QED
      BY <3>3
  <2> QED
    BY <2>1, <2>2
<1> HIDE DEF shares
<1>5. \A p \in DOMAIN parts : parts[p].high \in Nat
  <2> SUFFICES ASSUME NEW p \in DOMAIN shares PROVE Component(budget, shares[p]).high \in Nat
    OBVIOUS
  <2>1. PICK share \in Nat : share = shares[p]
    BY <1>4
  <2>2. PICK center \in Nat : center = Percent(budget, share)
    BY DEF Percent
  <2>3. PICK low \in Nat : low = NotBelow(Percent(center, 82), 30)
    BY DEF NotBelow, Percent
  <2>4. PICK high \in Nat : high = NotBelow(Percent(center, 118), low + 10)
    BY DEF NotBelow, Percent
  <2> QED
    BY <2>1, <2>2, <2>3, <2>4 DEF Component
<1> HIDE DEF parts
<1>6. PICK sum \in Int : sum = PlannedTotal(Components(r)) /\ sum <= budget
  BY <1>3, <1>5, FitOf
<1>7. Advised(r) = 100 * sum
  BY <1>6 DEF Advised
<1> QED
  BY <1>1, <1>2, <1>6, <1>7 DEF Over

\* What a candidate costs is a number.
LEMMA CustomPriceInt ==
    ASSUME NEW c, NEW optional, Fits(c, OfferModel, optional), optional = {"ram", "storage", "warranty", "returns"}
    PROVE  CustomPrice(c) \in Int
<1>1. \A field \in {"listed", "fees", "discount"} : field \in DOMAIN OfferModel /\ OfferModel[field] \subseteq Int
  <2>1. Amount \subseteq Int /\ Discount \subseteq Int /\ 0..1500 \subseteq Int
    BY SMT DEF Amount, Discount
  <2> QED
    BY <2>1 DEF OfferModel
<1>2. \A field \in {"listed", "fees", "discount"} : c[field] \in OfferModel[field]
  BY <1>1 DEF Fits
<1>3. c["listed"] \in Int /\ c["fees"] \in Int /\ c["discount"] \in Int
  BY <1>1, <1>2
<1> QED
  BY <1>3 DEF CustomPrice, NotBelow

\* The risks of a candidate are a list.
LEMMA CustomRisksOf == ASSUME NEW c, List(c.risks) PROVE List(CustomRisks(c))
<1> DEFINE found == (c.title \cup c.evidence \cup AllOf(c.risks))
           label(word) == When(word \in found /\ ~Contains(c.risks, Label(word)), Label(word))
           sold == When(c.stock = "sold_out", {"soldOut"})
<1>1. \A word : List(label(word))
  BY WhenOf
<1>2. List(sold)
  BY WhenOf
<1>3. CustomRisks(c) = First(c.risks \o label("used") \o label("imported") \o label("noReturn") \o label("noSupport")
                             \o label("FreeDOS") \o sold, 8)
  BY DEF CustomRisks
<1> HIDE DEF label, sold
<1>4. List(c.risks \o label("used"))
  BY <1>1, ElementsOfBoth
<1>5. List(c.risks \o label("used") \o label("imported"))
  BY <1>1, <1>4, ElementsOfBoth
<1>6. List(c.risks \o label("used") \o label("imported") \o label("noReturn"))
  BY <1>1, <1>5, ElementsOfBoth
<1>7. List(c.risks \o label("used") \o label("imported") \o label("noReturn") \o label("noSupport"))
  BY <1>1, <1>6, ElementsOfBoth
<1>8. List(c.risks \o label("used") \o label("imported") \o label("noReturn") \o label("noSupport") \o label("FreeDOS"))
  BY <1>1, <1>7, ElementsOfBoth
<1>9. List(c.risks \o label("used") \o label("imported") \o label("noReturn") \o label("noSupport")
           \o label("FreeDOS") \o sold)
  BY <1>2, <1>8, ElementsOfBoth
<1>10. PICK eight \in Nat : eight = 8
  OBVIOUS
<1> QED
  BY <1>3, <1>9, <1>10, FirstOf

\* The fit of a candidate is a number.
LEMMA CustomFitInt == ASSUME NEW c, NEW purpose PROVE CustomFit(c, purpose) \in Int
<1>1. PICK a \in Int : a = CASE c.gpu \in NewCards -> 30 [] c.gpu \in {"RTX4060", "RX7600"} -> 16 [] OTHER -> -8
  OBVIOUS
<1>2. PICK b \in Int : b = 14 * One(OrZero(c.ram) >= 32) + 10 * One(OrZero(c.storage) >= 1000)
                           + 12 * One(c.gpu \in {"RTX4070", "RTX4080", "RTX4060"})
  BY DEF One
<1>3. PICK d \in Int : d = 22 * One("laptop" \in c.title) + 8 * One(OrZero(c.ram) >= 16)
  BY DEF One
<1>4. PICK e \in Int : e = 14 * One(OrZero(c.warranty) >= 24) + 8 * One(OrZero(c.returns) >= 7)
  BY DEF One
<1>5. PICK f \in Int : f = One("game" \in purpose)
  BY DEF One
<1>6. PICK g \in Int : g = One("edit" \in purpose)
  BY DEF One
<1>7. PICK h \in Int : h = One("portable" \in purpose)
  BY DEF One
<1>8. PICK i \in Int : i = One("office" \in purpose)
  BY DEF One
<1>9. CustomFit(c, purpose) = Score(44 + a * f + b * g + d * h + e * i)
  BY <1>1, <1>2, <1>3, <1>4, <1>5, <1>6, <1>7, <1>8 DEF CustomFit
<1>10. PICK x \in Int : x = 44 + a * f + b * g + d * h + e * i
  OBVIOUS
<1> QED
  BY <1>9, <1>10, ScoreOf

\* The score of a candidate is a number.
LEMMA CustomScoreInt ==
    ASSUME NEW c, NEW budget \in Int, budget > 0, NEW purpose, CustomPrice(c) \in Int, List(c.risks)
    PROVE  CustomScore(c, budget, purpose) \in Int
<1>1. PICK fit \in Int : fit = CustomFit(c, purpose)
  BY CustomFitInt
<1>2. PICK evidence \in Int : evidence = CustomEvidence(c)
  <2>1. 35 + 12 * One("url" \in c.given) + 8 * One("seller" \in c.given) + 8 * One("cpu" \in c.given)
          + 8 * One(c.gpu # None) + 7 * One(OrZero(c.ram) > 0) + 7 * One(OrZero(c.storage) > 0)
          + 5 * One("os" \in c.given) + 10 * One(c.evidence # {}) \in Int
    BY DEF One
  <2>2. CustomEvidence(c) \in Int
    BY <2>1 DEF CustomEvidence, AtMost
  <2> QED
    BY <2>2
<1>3. PICK protection \in Int : protection = CustomProtection(c)
  <2>1. PICK w \in Int : w = IF c.warranty = None THEN 0 ELSE IF c.warranty >= 24 THEN 22
                             ELSE IF c.warranty >= 12 THEN 12 ELSE -8
    OBVIOUS
  <2>2. PICK t \in Int : t = IF c.returns = None THEN 0 ELSE IF c.returns >= 7 THEN 18 ELSE -8
    OBVIOUS
  <2>3. PICK n \in Int : n = One(c.risks = <<>>)
    BY DEF One
  <2>4. CustomProtection(c) = 45 + w + t + 10 * n
    BY <2>1, <2>2, <2>3 DEF CustomProtection
  <2> QED
    BY <2>4
<1>4. PICK stock \in Int : stock = StockScore(c.stock)
  BY DEF StockScore
<1>5. PICK room \in Int : room = CustomRoom(CustomPrice(c), budget)
  <2>1. PICK price \in Int : price = CustomPrice(c)
    OBVIOUS
  <2>2. PICK x \in Int : x = AtMost(5500 * (budget - price), 1540 * budget)
    BY DEF AtMost
  <2>3. PICK y \in Int : y = NotBelow(7600 * budget - 15000 * (price - budget), 1200 * budget)
    <3>1. PICK m \in Int : m = 7600 * budget - 15000 * (price - budget)
      OBVIOUS
    <3>2. PICK k \in Int : k = 1200 * budget
      OBVIOUS
    <3>3. NotBelow(m, k) \in Int
      BY DEF NotBelow
    <3> QED
      BY <3>1, <3>2, <3>3
  <2>4. CustomRoom(price, budget) = IF price <= budget THEN 8200 * budget + x ELSE y
    BY <2>2, <2>3 DEF CustomRoom
  <2> QED
    BY <2>1, <2>4
<1>6. PICK many \in Int : many = Len(CustomRisks(c))
  BY CustomRisksOf, LengthOf
<1>7. PICK hard \in Int : hard = One(\E risk \in Elements(CustomRisks(c)) : Hard(risk))
  BY DEF One
<1>8. PICK penalty \in Int : penalty = AtMost(7 * many, 26) + 18 * hard
  BY DEF AtMost
<1>9. PICK known \in Int : known = 34 * fit + 18 * evidence + 12 * protection + 8 * stock
  OBVIOUS
<1>10. PICK x \in Int : x = 25 * budget * known + 7 * room - 2500 * budget * penalty
  OBVIOUS
<1>11. PICK y \in Int : y = 250 * budget /\ y > 0
  OBVIOUS
<1>12. CustomScore(c, budget, purpose) = Clamp(Round(x, y), 0, 1000)
  BY <1>1, <1>2, <1>3, <1>4, <1>5, <1>6, <1>7, <1>8, <1>9, <1>10, <1>11 DEF CustomScore
<1>13. PICK z \in Int : z = Round(x, y)
  BY <1>11, RoundInt
<1> QED
  BY <1>12, <1>13 DEF Clamp, AtMost, NotBelow

\* The candidate that the buyers are told to buy costs no more than the budget.
LEMMA CustomSpends ==
    ASSUME NEW r, Accepted(r), r.kit = "custom", OrZero(r.budget) > 0, Over(CostOf(r), r.budget)
    PROVE  KitAnswer(r).verdict # "ok"
<1>1. PICK b \in Int : b = r.budget /\ b > 0
  <2>1. "budget" \in DOMAIN CustomModel /\ CustomModel["budget"] \subseteq Int
    BY SMT DEF CustomModel, Budget
  <2>2. r["budget"] \in Int
    BY <2>1, NumberOf, SumModels
  <2> QED
    BY <2>2, BudgetGiven
<1> DEFINE offers == r.offers
           purpose == IF r.purpose # {} THEN r.purpose
                      ELSE {"edit"} \cup {IF r.category = "laptop" THEN "portable" ELSE "game"}
           score(c) == CustomScore(c, r.budget, purpose)
           item(i) == [number |-> i, price |-> CustomPrice(offers[i]), score |-> score(offers[i]),
                       status |-> CustomStatus(offers[i], score(offers[i]), r.budget)]
           items == [i \in DOMAIN offers |-> item(i)]
           scores == [i \in DOMAIN offers |-> items[i].score]
<1>2. CustomItems(r) = Sorted(items, scores)
  BY DEF CustomItems, ByScore, Each
<1>3. /\ List(offers) /\ Len(offers) \in 2..6
      /\ \A offer \in Elements(offers) : Fits(offer, OfferModel, {"ram", "storage", "warranty", "returns"}) /\ List(offer.risks)
  <2>1. "offers" \in ListsOf(r.kit)
    BY DEF ListsOf
  <2>2. List(r["offers"])
    BY <2>1 DEF Accepted
  <2> QED
    BY <2>2 DEF Accepted
<1> HIDE DEF offers, purpose
<1>4. DOMAIN offers = 1..Len(offers) /\ \A i \in 1..Len(offers) : offers[i] \in Elements(offers)
  BY <1>3 DEF List, Elements
<1>5. \A c \in Elements(offers) : CustomPrice(c) \in Int /\ score(c) \in Int
  <2> TAKE c \in Elements(offers)
  <2>1. CustomPrice(c) \in Int
    BY <1>3, CustomPriceInt
  <2>2. CustomScore(c, b, purpose) \in Int
    BY <1>1, <1>3, <2>1, CustomScoreInt
  <2> QED
    BY <1>1, <2>1, <2>2
<1> HIDE DEF score
<1>6. PICK n \in Nat : n = Len(offers) /\ n > 0
  <2>1. PICK k \in 2..6 : k = Len(offers)
    BY <1>3
  <2>2. k \in Nat /\ k > 0
    OBVIOUS
  <2> QED
    BY <2>1, <2>2
<1>7. scores \in [1..n -> Int] /\ items \in [1..n -> {item(i) : i \in 1..n}]
  BY <1>4, <1>5, <1>6
<1>8. PICK i \in 1..n : CustomItems(r)[1] = item(i)
  <2>1. PICK s \in [1..n -> Int] : s = scores
    BY <1>7
  <2>2. PICK S : S = {item(i) : i \in 1..n}
    OBVIOUS
  <2>3. PICK t \in [1..n -> S] : t = items
    BY <1>7, <2>2
  <2> HIDE DEF items, scores, item
  <2>4. Sorted(t, s) \in [1..n -> S]
    BY SortedOf
  <2>5. 1 \in 1..n
    BY <1>6
  <2> QED
    BY <1>2, <2>1, <2>2, <2>3, <2>4, <2>5
<1>9. PICK c \in Elements(offers) : c = offers[i]
  BY <1>4, <1>6
<1>10. CustomItems(r)[1].price = CustomPrice(c) /\ CustomItems(r)[1].status = CustomStatus(c, score(c), r.budget)
  BY <1>8, <1>9
<1>11. CustomPrice(c) > r.budget
  BY <1>10 DEF CostOf, Over
<1>12. CustomStatus(c, score(c), r.budget) # "ok"
  BY <1>11 DEF CustomStatus
<1>13. CustomStatus(c, score(c), r.budget) \in {"warning", "blocker"}
  BY <1>12 DEF CustomStatus
<1>14. CustomDecision(CustomItems(r)) # "ok"
  BY <1>10, <1>13 DEF CustomDecision
<1>15. KitAnswer(r) = CustomKit(r)
  BY DEF KitAnswer
<1> QED
  <2>1. CustomKit(r).verdict = CustomDecision(CustomItems(r))
    BY VerdictOf, Zenon DEF CustomKit
  <2> QED
    BY <1>14, <1>15, <2>1

-----------------------------------------------------------------------------
\* A kit that weighs the price keeps to the budget, whichever it is.
LEMMA KitSpends ==
    ASSUME NEW r, Accepted(r), "budget" \in DOMAIN Model(r.kit), OrZero(r.budget) > 0
    PROVE  /\ ~(Over(CostOf(r), GoesBy(r)) /\ KitAnswer(r).verdict = "ok")
           /\ ~Over(Advised(r), 1000 * GoesBy(r))
           /\ r.kit = "watch" => AlertThreshold(Watched(Windows(r))) <= 1010 * GoesBy(r)
<1>0. ~Over(None, GoesBy(r)) /\ ~Over(None, 1000 * GoesBy(r)) /\ r.budget # None
  BY BudgetGiven DEF Over
<1>1. CASE r.kit \in {"timing", "watch"}
  BY <1>1, WatchSpends
<1>2. CASE r.kit = "compare"
  <2>1. Advised(r) = None
    BY <1>2 DEF Advised
  <2> QED
    BY <1>0, <1>2, <2>1, CompareSpends
<1>3. CASE r.kit \notin {"timing", "watch", "compare"}
  <2>1. GoesBy(r) = r.budget
    BY <1>3 DEF GoesBy
  <2>2. CASE r.kit = "analyze"
    BY <2>1, <2>2, AgentSpends
  <2>3. CASE r.kit = "negotiation"
    <3>1. CostOf(r) = None
      BY <2>3 DEF CostOf
    <3> QED
      BY <1>0, <2>1, <2>3, <3>1, NegotiationSpends
  <2>4. CASE r.kit = "blueprint"
    <3>1. CostOf(r) = None
      BY <2>4 DEF CostOf
    <3> QED
      BY <1>0, <2>1, <2>4, <3>1, BlueprintSpends
  <2>5. CASE r.kit \in {"reply", "journey", "final", "lock", "execution", "triage", "scanner", "cart", "page",
                        "deal", "breakdown", "stress", "custom"}
    <3>1. Advised(r) = None
      BY <2>5 DEF Advised
    <3>2. ASSUME Over(CostOf(r), r.budget) PROVE KitAnswer(r).verdict # "ok"
      <4>1. CASE r.kit \in {"reply", "journey", "final", "lock"}
        <5>1. Over(r.price, r.budget)
          BY <3>2, <4>1 DEF CostOf
        <5> QED
          BY <4>1, <5>1, ReplySpends, JourneySpends, FinalSpends, LockSpends
      <4>2. CASE r.kit \in {"execution", "triage", "scanner", "cart", "page"}
        BY <1>0, <3>2, <4>2, PlainSpends
      <4>3. CASE r.kit = "deal"
        <5>1. Over(DealPrice(r), r.budget)
          BY <3>2, <4>3 DEF CostOf
        <5> QED
          BY <1>0, <4>3, <5>1, DealSpends
      <4>4. CASE r.kit = "breakdown"
        <5>1. Over(Paid(r), r.budget)
          BY <3>2, <4>4 DEF CostOf
        <5> QED
          BY <1>0, <4>4, <5>1, BreakdownSpends
      <4>5. CASE r.kit = "stress"
        <5>1. Over(r.target, r.budget)
          BY <3>2, <4>5 DEF CostOf
        <5> QED
          BY <4>5, <5>1, StressSpends
      <4>6. CASE r.kit = "custom"
        BY <3>2, <4>6, CustomSpends
      <4> QED
        BY <2>5, <4>1, <4>2, <4>3, <4>4, <4>5, <4>6
    <3> QED
      BY <1>0, <1>3, <2>1, <3>1, <3>2
  <2>6. CASE r.kit \notin {"analyze", "negotiation", "blueprint", "reply", "journey", "final", "lock", "execution",
                           "triage", "scanner", "cart", "page", "deal", "breakdown", "stress", "custom"}
    <3>1. CostOf(r) = None /\ Advised(r) = None
      BY <1>3, <2>6 DEF CostOf, Advised
    <3> QED
      BY <1>0, <1>3, <2>1, <3>1
  <2> QED
    BY <2>2, <2>3, <2>4, <2>5, <2>6
<1> QED
  BY <1>1, <1>2, <1>3

\* No kit whose price is in CostOf recommends a purchase over the budget, and none whose advice is in
\* Advised advises to spend more: for every accepted request, whatever else it says, and so for every request
\* that another kit fills in.
THEOREM BudgetsAreKept == Spec => []SpendsWithinBudget
<1>1. ASSUME RequestAccepted PROVE SpendsWithinBudget
  <2>1. PICK r : r = request
    OBVIOUS
  <2>2. Accepted(r)
    BY <1>1, <2>1 DEF RequestAccepted
  <2>3. ASSUME "budget" \in DOMAIN Model(r.kit), OrZero(r.budget) > 0
        PROVE  /\ ~(Over(CostOf(r), GoesBy(r)) /\ AnswerTo(r).verdict = "ok")
               /\ ~Over(Advised(r), 1000 * GoesBy(r))
               /\ r.kit = "watch" => AlertThreshold(Watched(Windows(r))) <= 1010 * GoesBy(r)
    BY <2>2, <2>3, KitSpends, AnswersOk
  <2> QED
    BY <2>1, <2>3 DEF SpendsWithinBudget, Answers
<1>2. Spec => []RequestAccepted
  BY RequestsAreAccepted
<1> QED
  BY <1>1, <1>2, PTL

\* No verdict that the kits put together says that a kit has failed.
LEMMA VerdictWords ==
    /\ \A verdicts : Worst(verdicts) # "failed"
    /\ \A p : FoundVerdict(p) # "failed" /\ MatchVerdict(p) # "failed"
    /\ \A value, warning, ok : AtLeast(value, warning, ok) # "failed"
  BY DEF Worst, FoundVerdict, MatchVerdict, AtLeast

\* The kits of the checkout answer.
LEMMA CheckoutAnswers ==
    ASSUME NEW r
    PROVE  /\ ReplyKit(r).verdict # "failed" /\ JourneyKit(r).verdict # "failed"
           /\ FinalKit(r).verdict # "failed" /\ LockKit(r).verdict # "failed"
           /\ ExecutionKit(r).verdict # "failed" /\ ReviewerKit(r).verdict # "failed"
<1>1. ReplyVerdict(r) # "failed"
  BY DEF ReplyVerdict
<1>2. JourneyVerdict(r) # "failed"
  BY DEF JourneyVerdict, Mark
<1>3. FinalVerdict(r) # "failed"
  BY DEF FinalVerdict
<1>4. LockVerdict(r) # "failed"
  BY DEF LockVerdict
<1>5. ExecutionVerdict(r) # "failed"
  BY DEF ExecutionVerdict
<1>6. ReviewerVerdict(r) # "failed"
  BY DEF ReviewerVerdict
<1> QED
  BY <1>1, <1>2, <1>3, <1>4, <1>5, <1>6, VerdictOf
     DEF ReplyKit, JourneyKit, FinalKit, LockKit, ExecutionKit, ReviewerKit

\* The kits of a listing answer, the scanner when it is told the total.
LEMMA ListingAnswers ==
    ASSUME NEW r
    PROVE  /\ TriageKit(r).verdict # "failed" /\ ReviewKit(r).verdict # "failed"
           /\ r.total # None => ScannerKit(r).verdict # "failed"
           /\ DecoderKit(r).verdict # "failed" /\ NudgeKit(r).verdict # "failed"
           /\ TermKit(r).verdict # "failed" /\ CartKit(r).verdict # "failed"
<1>1. ReviewVerdict(r) # "failed" /\ NudgeVerdict(r) # "failed"
  BY VerdictWords DEF ReviewVerdict, NudgeVerdict
<1>2. CartVerdict(CartBlockers(r), CartWarnings(r)) # "failed"
  BY VerdictWords DEF CartVerdict
<1>3. TriageKit(r).verdict # "failed" /\ DecoderKit(r).verdict # "failed" /\ TermKit(r).verdict # "failed"
  BY VerdictWords, VerdictOf DEF TriageKit, DecoderKit, TermKit
<1>4. r.total # None => ScannerKit(r).verdict # "failed"
  BY VerdictWords, VerdictOf DEF ScannerKit
<1> QED
  BY <1>1, <1>2, <1>3, <1>4, VerdictOf DEF ReviewKit, NudgeKit, CartKit

\* The kits of an offer answer.
LEMMA OfferAnswers ==
    ASSUME NEW r
    PROVE  /\ PageKit(r).verdict # "failed" /\ SellerKit(r).verdict # "failed"
           /\ ApprovalKit(r).verdict # "failed" /\ DealKit(r).verdict # "failed"
           /\ BreakdownKit(r).verdict # "failed"
<1>1. PageVerdict(r) # "failed" /\ SellerPriority(r) # "failed" /\ ApprovalPriority(r) # "failed"
  BY VerdictWords DEF PageVerdict, SellerPriority, ApprovalPriority
<1>2. DealVerdict(r) # "failed" /\ BreakdownVerdict(r) # "failed"
  BY VerdictWords DEF DealVerdict, BreakdownVerdict
<1>3. DealKit(r).verdict = DealVerdict(r)
  BY VerdictOf DEF DealKit
<1> QED
  BY <1>1, <1>2, <1>3, VerdictOf DEF PageKit, SellerKit, ApprovalKit, BreakdownKit

\* The kits of a build answer.
LEMMA BuildAnswers ==
    ASSUME NEW r
    PROVE  /\ SetupKit(r).verdict # "failed" /\ BlueprintKit(r).verdict # "failed"
           /\ UpgradeKit(r).verdict # "failed" /\ BenchmarkKit(r).verdict # "failed"
<1>1. SetupKit(r).verdict # "failed"
  BY VerdictWords, VerdictOf DEF SetupKit
<1>2. BlueprintStatus(r) # "failed" /\ UpgradePriority(r) # "failed" /\ BenchmarkStatus(r) # "failed"
  BY VerdictWords DEF BlueprintStatus, UpgradePriority, BenchmarkStatus
<1> QED
  BY <1>1, <1>2, VerdictOf DEF BlueprintKit, UpgradeKit, BenchmarkKit

\* The kits of an owner answer.
LEMMA OwnerAnswers ==
    ASSUME NEW r
    PROVE  /\ WarrantyKit(r).verdict # "failed" /\ OwnershipKit(r).verdict # "failed"
           /\ AftercareKit(r).verdict # "failed" /\ FirstBootKit(r).verdict # "failed"
           /\ DefectKit(r).verdict # "failed" /\ OutcomeKit(r).verdict # "failed"
<1>1. WarrantyPriority(r) # "failed" /\ OwnershipPriority(r) # "failed" /\ AftercarePriority(r) # "failed"
  BY VerdictWords DEF WarrantyPriority, OwnershipPriority, AftercarePriority
<1>2. FirstBootPriority(r) # "failed" /\ ClaimStatus(r) # "failed" /\ ProofStatus(r) # "failed"
  BY VerdictWords DEF FirstBootPriority, ClaimStatus, ProofStatus
<1> QED
  BY <1>1, <1>2, VerdictOf DEF WarrantyKit, OwnershipKit, AftercareKit, FirstBootKit, DefectKit, OutcomeKit

\* The kits of a price answer.
LEMMA PriceAnswers ==
    ASSUME NEW r
    PROVE  /\ NegotiationKit(r).verdict # "failed" /\ StressKit(r).verdict # "failed"
           /\ TrustKit(r).verdict # "failed" /\ MistakeKit(r).verdict # "failed"
<1>1. NegotiationPriority(r) # "failed" /\ BaselineStatus(r) # "failed"
  BY VerdictWords DEF NegotiationPriority, BaselineStatus
<1>2. TrustStatus(r) # "failed" /\ MistakeLevel(r) # "failed"
  BY VerdictWords DEF TrustStatus, MistakeLevel
<1> QED
  BY <1>1, <1>2, VerdictOf DEF NegotiationKit, StressKit, TrustKit, MistakeKit

\* The kits that decide among buyers and their choices answer.
LEMMA BuyerAnswers ==
    ASSUME NEW r
    PROVE  /\ CustomKit(r).verdict # "failed" /\ ConsensusKit(r).verdict # "failed"
           /\ DefenseKit(r).verdict # "failed" /\ AgentKit(r).verdict # "failed"
           /\ RescueKit(r).verdict # "failed" /\ ChecklistKit(r).verdict # "failed"
           /\ QuizKit(r).verdict # "failed"
<1>1. CustomKit(r).verdict # "failed"
  BY VerdictOf DEF CustomKit, CustomDecision
<1>2. ConsensusStatus(r) # "failed" /\ DefenseStatus(r) # "failed"
  BY VerdictWords DEF ConsensusStatus, DefenseStatus
<1>3. AgentKit(r).verdict # "failed"
  BY VerdictOf DEF AgentKit, Decision
<1>4. RescuePriority(r) # "failed" /\ MarketStatus(r) # "failed"
  BY VerdictWords DEF RescuePriority, MarketStatus
<1>5. RescueKit(r).verdict # "failed" /\ QuizKit(r).verdict # "failed"
  BY <1>4, VerdictOf DEF RescueKit, QuizKit
<1> QED
  BY <1>1, <1>2, <1>3, <1>4, <1>5, VerdictOf DEF ConsensusKit, DefenseKit, ChecklistKit

\* The kits that choose from the catalog answer, with the verdict of the product they judge.
LEMMA CatalogAnswers ==
    ASSUME NEW r, Accepted(r), r.kit \in {"compare", "timing", "watch"}
    PROVE  KitAnswer(r).verdict # "failed"
<1>1. CASE r.kit = "compare"
  <2>1. PICK i \in 1..5, score \in Int :
            /\ Compared(r)[1].price = Products(r.category)[i].price
            /\ Compared(r)[1].status = CompareStatus(Products(r.category)[i], score, LimitOf(r))
    BY <1>1, ComparedOf
  <2>2. PICK p : p = Products(r.category)[i] /\ p.price \in Int
    BY ProductsOf
  <2>3. PICK limit \in Int : limit = LimitOf(r)
    BY LimitGiven
  <2>4. PICK price \in Int : price = p.price
    BY <2>2
  <2>5. CompareStatus(p, score, limit) # "failed"
    BY <2>4 DEF CompareStatus
  <2>6. KitAnswer(r) = CompareKit(r)
    BY <1>1 DEF KitAnswer
  <2> QED
    BY <2>1, <2>2, <2>3, <2>5, <2>6 DEF CompareKit, Answer
<1>2. CASE r.kit \in {"timing", "watch"}
  <2>1. PICK windows : windows = Windows(r)
    OBVIOUS
  <2>2. PICK limit : limit = LimitOf(r)
    OBVIOUS
  <2>3. Fair(Lead(windows), limit) /\ Fair(Watched(windows), limit)
    BY <1>2, <2>1, <2>2, WindowsOf, LeadOf, WatchedOf
  <2>4. Lead(windows).status # "failed" /\ Watched(windows).status # "failed"
    BY <2>3 DEF Fair, Verdict
  <2>5. KitAnswer(r) = IF r.kit = "timing" THEN TimingKit(r) ELSE WatchKit(r)
    BY <1>2 DEF KitAnswer
  <2> QED
    BY <2>1, <2>4, <2>5 DEF TimingKit, WatchKit, Answer
<1> QED
  BY <1>1, <1>2

\* Every kit of a route gives a verdict, the scanner when it is told the total.
LEMMA KitsAnswer ==
    ASSUME NEW r, Accepted(r), r.kit = "scanner" => r.total # None
    PROVE  KitAnswer(r).verdict # "failed"
<1>1. CASE r.kit \in {"reply", "journey", "final", "lock", "execution", "reviewer"}
  <2>1. KitAnswer(r) \in {ReplyKit(r), JourneyKit(r), FinalKit(r), LockKit(r), ExecutionKit(r), ReviewerKit(r)}
    BY <1>1 DEF KitAnswer
  <2> QED
    BY <2>1, CheckoutAnswers
<1>2. CASE r.kit \in {"triage", "review", "scanner", "decoder", "nudge", "terms", "cart"}
  <2>1. \/ KitAnswer(r) \in {TriageKit(r), ReviewKit(r), DecoderKit(r), NudgeKit(r), TermKit(r), CartKit(r)}
        \/ r.kit = "scanner" /\ KitAnswer(r) = ScannerKit(r)
    BY <1>2 DEF KitAnswer
  <2> QED
    BY <2>1, ListingAnswers
<1>3. CASE r.kit \in {"page", "seller", "approval", "deal", "breakdown"}
  <2>1. KitAnswer(r) \in {PageKit(r), SellerKit(r), ApprovalKit(r), DealKit(r), BreakdownKit(r)}
    BY <1>3 DEF KitAnswer
  <2> QED
    BY <2>1, OfferAnswers
<1>4. CASE r.kit \in {"setup", "blueprint", "upgrade", "benchmark"}
  <2>1. KitAnswer(r) \in {SetupKit(r), BlueprintKit(r), UpgradeKit(r), BenchmarkKit(r)}
    BY <1>4 DEF KitAnswer
  <2> QED
    BY <2>1, BuildAnswers
<1>5. CASE r.kit \in {"warranty", "ownership", "aftercare", "boot", "defect", "outcome"}
  <2>1. KitAnswer(r) \in {WarrantyKit(r), OwnershipKit(r), AftercareKit(r), FirstBootKit(r), DefectKit(r), OutcomeKit(r)}
    BY <1>5 DEF KitAnswer
  <2> QED
    BY <2>1, OwnerAnswers
<1>6. CASE r.kit \in {"negotiation", "stress", "trust", "mistake"}
  <2>1. KitAnswer(r) \in {NegotiationKit(r), StressKit(r), TrustKit(r), MistakeKit(r)}
    BY <1>6 DEF KitAnswer
  <2> QED
    BY <2>1, PriceAnswers
<1>7. CASE r.kit \in {"analyze", "rescue", "checklist", "quiz", "custom", "consensus", "defense"}
  <2>1. KitAnswer(r) \in {AgentKit(r), RescueKit(r), ChecklistKit(r), QuizKit(r), CustomKit(r), ConsensusKit(r),
                         DefenseKit(r)}
    BY <1>7 DEF KitAnswer
  <2> QED
    BY <2>1, BuyerAnswers
<1>8. CASE r.kit \in {"compare", "timing", "watch"}
  BY <1>8, CatalogAnswers
<1> QED
  BY <1>1, <1>2, <1>3, <1>4, <1>5, <1>6, <1>7, <1>8 DEF Accepted, Kits

-----------------------------------------------------------------------------
(* What an ordinary request hands over is accepted.                         *)

\* A request of a kit without lists and conditions of its own is accepted when its amounts fit.
LEMMA AcceptsPlain ==
    ASSUME NEW r, r.kit \in {"scanner", "breakdown", "seller", "setup", "checklist"}
    PROVE  /\ r.kit = "scanner" /\ Fits(r, ScannerModel, Optional("scanner")) => Accepted(r)
           /\ r.kit = "breakdown" /\ Fits(r, BreakdownModel, Optional("breakdown")) => Accepted(r)
           /\ r.kit = "seller" /\ Fits(r, SellerModel, Optional("seller")) => Accepted(r)
           /\ r.kit = "setup" /\ Fits(r, SetupModel, Optional("setup")) => Accepted(r)
           /\ r.kit = "checklist" /\ Fits(r, CatalogModel, Optional("checklist")) => Accepted(r)
<1>1. /\ r.kit = "scanner" => Model(r.kit) = ScannerModel
      /\ r.kit = "breakdown" => Model(r.kit) = BreakdownModel
      /\ r.kit = "seller" => Model(r.kit) = SellerModel
      /\ r.kit = "setup" => Model(r.kit) = SetupModel
      /\ r.kit = "checklist" => Model(r.kit) = CatalogModel
  BY DEF Model
<1>2. ListsOf(r.kit) = {} /\ r.kit \in Kits
  BY DEF ListsOf, Kits
<1>3. r.kit \notin {"final", "cart", "trust", "lock", "custom", "page", "consensus", "defense"}
  OBVIOUS
<1>4. Fits(r, Model(r.kit), Optional(r.kit)) => Accepted(r)
  BY <1>2, <1>3 DEF Accepted
<1> QED
  BY <1>1, <1>4

\* What an amount that is bounded and within the smallest model is.
LEMMA SmallOf ==
    ASSUME NEW r, NEW kit, Accepted(r), Ordinary(r), r.kit = kit,
           NEW field \in DOMAIN Model(kit) \cap DOMAIN Smallest
    PROVE  /\ r[field] \in Model(kit)[field] \/ (field \in Optional(kit) /\ r[field] = None)
           /\ r[field] # None => ~(r[field] > Smallest[field])
  BY GivenOf DEF Ordinary, Over

\* The requests that the kits fill in, amount by amount.
LEMMA AcceptsScanner ==
    ASSUME NEW n, n.kit = "scanner", n.budget \in Budget, n.total \in Total \cup {None},
           n.ram \in RamSize \cup {None}, n.storage \in DiskSize \cup {None}
    PROVE  Accepted(n)
<1>1. {"total", "ram", "storage"} \subseteq Optional("scanner")
  BY DEF Optional
<1>2. Fits(n, ScannerModel, Optional("scanner"))
  BY <1>1 DEF Fits, ScannerModel
<1> QED
  BY <1>2, AcceptsPlain

\* The triage accepts a request with a budget and a total that it knows.
LEMMA AcceptsTriage ==
    ASSUME NEW n, n.kit = "triage", n.budget \in Budget, n.total \in Total \cup {None}
    PROVE  Accepted(n)
<1>1. Fits(n, TriageModel, Optional("triage"))
  BY OptionalOf DEF Fits, TriageModel
<1> QED
  BY <1>1, Accepts

\* The review check accepts a request without a rating.
LEMMA AcceptsReview ==
    ASSUME NEW n, n.kit = "review", n.budget \in Budget, n.rating = None, n.count = None
    PROVE  Accepted(n)
<1>1. Fits(n, ReviewModel, Optional("review"))
  BY OptionalOf DEF Fits, ReviewModel
<1> QED
  BY <1>1, Accepts

\* The execution plan accepts a request with a price, and counts of up to twenty.
LEMMA AcceptsExecution ==
    ASSUME NEW n, n.kit = "execution", n.budget \in Amount, n.price \in Amount \cup {None},
           n.blockers \in Count, n.warnings \in Count
    PROVE  Accepted(n)
<1>1. Fits(n, ExecutionModel, Optional("execution"))
  BY OptionalOf DEF Fits, ExecutionModel
<1> QED
  BY <1>1, Accepts

\* The reviewer accepts a request with a confidence as well.
LEMMA AcceptsReviewer ==
    ASSUME NEW n, n.kit = "reviewer", n.budget \in Amount, n.price \in Amount \cup {None},
           n.confidence \in 0..100, n.blockers \in Count, n.warnings \in Count
    PROVE  Accepted(n)
<1>1. Fits(n, ReviewerModel, Optional("reviewer"))
  BY OptionalOf DEF Fits, ReviewerModel
<1> QED
  BY <1>1, Accepts

\* The approval accepts a request with counts of up to twenty.
LEMMA AcceptsApproval ==
    ASSUME NEW n, n.kit = "approval", n.budget \in Budget, n.total \in Total \cup {None},
           n.blockers \in Count, n.warnings \in Count
    PROVE  Accepted(n)
<1>1. Fits(n, ApprovalModel, Optional("approval"))
  BY OptionalOf DEF Fits, ApprovalModel
<1> QED
  BY <1>1, Accepts

\* The journey accepts a request of the scanner's size, with its lists.
LEMMA AcceptsJourney ==
    ASSUME NEW n, n.kit = "journey", n.budget \in Budget, n.price \in Total \cup {None},
           List(n.reviews), List(n.ready), List(n.missing)
    PROVE  Accepted(n)
<1>1. Model(n.kit) = JourneyModel /\ ListsOf(n.kit) = {"reviews", "ready", "missing"}
  BY DEF Model, ListsOf
<1>2. Budget \subseteq WideBudget /\ Total \subseteq Amount
  <2>1. \A x \in Budget : x \in WideBudget
    BY DEF Budget, WideBudget
  <2>2. \A x \in Total : x \in Amount
    BY DEF Total, Amount
  <2> QED
    BY <2>1, <2>2
<1>3. Fits(n, JourneyModel, Optional("journey"))
  BY <1>2, OptionalOf DEF Fits, JourneyModel
<1> QED
  BY <1>1, <1>3 DEF Accepted, Kits

\* The questions to the seller are accepted with a budget and a total.
LEMMA AcceptsSeller ==
    ASSUME NEW n, n.kit = "seller", n.budget \in Budget, n.total \in Total \cup {None}
    PROVE  Accepted(n)
<1>1. Fits(n, SellerModel, Optional("seller"))
  BY OptionalOf DEF Fits, SellerModel
<1> QED
  BY <1>1, AcceptsPlain

\* The cost breakdown accepts one item without fees, and what is deducted within its bounds.
LEMMA AcceptsBreakdown ==
    ASSUME NEW n, n.kit = "breakdown", n.budget \in Amount \cup {None}, n.listed \in Cost,
           n.reference \in Amount \cup {None}, n.quantity = 1, n.shipping \in Fee, n.fees = 0,
           n.coupon \in 0..4000, n.points \in 0..2000, n.hours \in Hours \cup {None},
           n.stock \in Stock \cup {None}
    PROVE  Accepted(n)
<1>1. {"budget", "reference", "hours", "stock"} \subseteq Optional("breakdown")
  BY DEF Optional
<1>2. 0 \in 0..1000 /\ 1 \in 1..200
  OBVIOUS
<1>3. Fits(n, BreakdownModel, Optional("breakdown"))
  BY <1>1, <1>2 DEF Fits, BreakdownModel
<1> QED
  BY <1>3, AcceptsPlain

-----------------------------------------------------------------------------
\* What an ordinary request carries on.
LEMMA SmallPurchase ==
    ASSUME NEW r, Accepted(r), Ordinary(r), r.kit \in {"reply", "journey", "final"}
    PROVE  r.budget \in Budget /\ r.price \in Total \cup {None}
<1>1. Model(r.kit) \in {ReplyModel, JourneyModel, FinalModel}
  BY DEF Model
<1>2. Model(r.kit) = [budget |-> WideBudget, price |-> Amount]
  BY <1>1 DEF ReplyModel, JourneyModel, FinalModel
<1>3. /\ {"budget", "price"} \subseteq DOMAIN Model(r.kit) \cap DOMAIN Smallest
      /\ Smallest["budget"] = 3000 /\ Smallest["price"] = 3000
      /\ Model(r.kit)["budget"] = WideBudget /\ Model(r.kit)["price"] = Amount
  BY <1>2 DEF Smallest
<1>4. "budget" \notin Optional(r.kit)
  BY DEF Optional
<1>5. PICK b : b = r["budget"]
  OBVIOUS
<1>6. PICK p : p = r["price"]
  OBVIOUS
<1>7. b \in WideBudget /\ (b # None => ~(b > 3000))
  BY <1>3, <1>4, <1>5, SmallOf
<1>8. p # None => p \in Amount /\ ~(p > 3000)
  BY <1>3, <1>6, SmallOf
<1>9. b \in Int /\ b # None
  <2>1. \A x \in WideBudget : x \in Int
    BY DEF WideBudget
  <2> QED
    BY <1>7, <2>1, NoneAssumption
<1>10. b \in Budget
  <2>1. PICK c \in Int : c = b
    BY <1>9
  <2>2. c >= 30 /\ ~(c > 3000)
    <3>1. \A x \in WideBudget : x >= 30
      BY DEF WideBudget
    <3> QED
      BY <1>7, <1>9, <2>1, <3>1
  <2>3. c \in Budget
    BY <2>2 DEF Budget
  <2> QED
    BY <2>1, <2>3
<1>11. p # None => p \in Total
  <2>1. \A x \in Amount : x \in Int /\ x >= 0
    BY DEF Amount
  <2>2. \A x \in Int : x >= 0 /\ ~(x > 3000) => x \in Total
    BY DEF Total
  <2> QED
    BY <1>8, <2>1, <2>2
<1>12. r.budget = b /\ r.price = p
  BY <1>5, <1>6
<1> QED
  BY <1>10, <1>11, <1>12

\* The narrow kits have a budget of the narrow range.
LEMMA BudgetOf ==
    ASSUME NEW r, Accepted(r),
           r.kit \in {"lock", "triage", "review", "decoder", "terms", "cart", "page", "seller", "setup", "blueprint"}
    PROVE  r.budget \in Budget
<1>1. "budget" \in DOMAIN Model(r.kit) /\ Model(r.kit)["budget"] = Budget
  BY DEF Model, LockModel, TriageModel, ReviewModel, DecoderModel, TermsModel, CartModel, PageModel, SellerModel,
         SetupModel, BlueprintModel
<1>2. "budget" \notin Optional(r.kit)
  BY DEF Optional
<1> QED
  BY <1>1, <1>2, GivenOf

\* The kits of a listing that are told a total are told one of the narrow range.
LEMMA TotalOf ==
    ASSUME NEW r, Accepted(r), r.kit \in {"triage", "decoder", "seller"}
    PROVE  r.total \in Total \cup {None}
<1>1. "total" \in DOMAIN Model(r.kit) /\ Model(r.kit)["total"] = Total
  BY DEF Model, TriageModel, DecoderModel, SellerModel
<1> QED
  BY <1>1, GivenOf

\* Amounts are numbers that are not negative, and those of the narrow range are at most 3000.
LEMMA Ranges ==
    /\ \A x \in Amount : x \in Int /\ x >= 0
    /\ \A x \in Budget : x \in Int /\ x >= 0 /\ x <= 3000
    /\ \A x \in Total : x \in Int /\ x >= 0 /\ x <= 3000
<1>1. PICK none \in Int : none = 0
  OBVIOUS
<1>2. PICK least \in Int : least = 30 /\ least >= none
  BY <1>1
<1>3. PICK narrow \in Int : narrow = 3000
  OBVIOUS
<1>4. PICK wide \in Int : wide = 20000
  OBVIOUS
<1>5. Amount = none..wide /\ Budget = least..narrow /\ Total = none..narrow
  BY <1>1, <1>2, <1>3, <1>4 DEF Amount, Budget, Total
<1>6. \A x \in none..wide : x \in Int /\ x >= none
  OBVIOUS
<1>7. \A x \in least..narrow : x \in Int /\ x >= none /\ x <= narrow
  BY <1>2
<1>8. \A x \in none..narrow : x \in Int /\ x >= none /\ x <= narrow
  OBVIOUS
<1> QED
  BY <1>1, <1>3, <1>5, <1>6, <1>7, <1>8

\* A budget or total of the narrow range is an amount.
LEMMA Wider ==
    /\ \A x \in Budget : x \in Amount
    /\ \A x \in Total : x \in Amount
<1>1. \A x \in Budget : x \in Int /\ x >= 0 /\ x <= 3000
  BY Ranges
<1>2. \A x \in Total : x \in Int /\ x >= 0 /\ x <= 3000
  BY Ranges
<1>3. \A x \in Int : x >= 0 /\ x <= 3000 => x \in Amount
  <2>1. PICK high \in Int : high = 20000
    OBVIOUS
  <2>2. high >= 3000
    BY <2>1
  <2>3. \A x \in Int : x >= 0 /\ x <= 3000 => x \in 0..high
    BY <2>2
  <2>4. Amount = 0..high
    BY <2>1 DEF Amount
  <2> QED
    BY <2>3, <2>4
<1> QED
  BY <1>1, <1>2, <1>3

\* What the community reply hands over is accepted.
LEMMA ReplyHands ==
    ASSUME NEW r, Accepted(r), Ordinary(r), r.kit = "reply", NEW n \in ReplyKit(r).handoffs
    PROVE  Accepted(n)
<1>1. r.budget \in Budget /\ r.price \in Total \cup {None}
  BY SmallPurchase
<1>2. List(r.notes) /\ List(r.ready) /\ List(r.missing)
  BY AcceptedOf
<1>3. n = ReplyToTriage(r) \/ n = ReplyToJourney(r)
  BY DEF ReplyKit, Answer
<1>4. CASE n = ReplyToTriage(r)
  <2>1. n.kit = "triage" /\ n.budget = r.budget /\ n.total = r.price
    BY <1>4 DEF ReplyToTriage
  <2> QED
    BY <1>1, <2>1, AcceptsTriage
<1>5. CASE n = ReplyToJourney(r)
  <2>1. /\ n.kit = "journey" /\ n.budget = r.budget /\ n.price = r.price
        /\ n.reviews = First(r.notes, 10) /\ n.ready = r.ready
        /\ n.missing = Or(r.missing, First(ReplyFlags(r), 3))
    BY <1>5 DEF ReplyToJourney
  <2>2. List(First(r.notes, 10))
    BY <1>2, TenOf
  <2>3. List(ReplyFlags(r))
    <3> DEFINE text == ReplyText(r)
               far == When(FarOver(r.price, r.budget), {"far over budget"})
               over == When(Over(r.price, r.budget) /\ ~FarOver(r.price, r.budget), {"over budget"})
               all == First(r.notes, 10) \o RiskTerms(text) \o far \o over \o ReviewFlag(text)
    <3>1. ReplyFlags(r) = First(Distinct(all), 8)
      BY DEF ReplyFlags
    <3>2. List(RiskTerms(text)) /\ List(far) /\ List(over) /\ List(ReviewFlag(text))
      BY RiskTermsOf, WhenOf, ReviewFlagOf
    <3> HIDE DEF text, far, over
    <3>3. List(First(r.notes, 10) \o RiskTerms(text))
      BY <2>2, <3>2, ElementsOfBoth
    <3>4. List(First(r.notes, 10) \o RiskTerms(text) \o far)
      BY <3>2, <3>3, ElementsOfBoth
    <3>5. List(First(r.notes, 10) \o RiskTerms(text) \o far \o over)
      BY <3>2, <3>4, ElementsOfBoth
    <3>6. List(all)
      BY <3>2, <3>5, ElementsOfBoth
    <3> HIDE DEF all
    <3>7. PICK eight \in Nat \ {0} : eight = 8
      OBVIOUS
    <3>8. List(First(Distinct(all), eight))
      BY <3>6, CutOf
    <3> QED
      BY <3>1, <3>7, <3>8
  <2>4. List(First(ReplyFlags(r), 3))
    <3>1. PICK three \in Nat : three = 3
      OBVIOUS
    <3> QED
      BY <2>3, <3>1, FirstOf
  <2>5. List(n.missing)
    BY <1>2, <2>1, <2>4 DEF Or
  <2> QED
    BY <1>1, <1>2, <2>1, <2>2, <2>5, AcceptsJourney
<1> QED
  BY <1>3, <1>4, <1>5

\* What the journey hands over is accepted.
LEMMA JourneyHands ==
    ASSUME NEW r, Accepted(r), Ordinary(r), r.kit = "journey", NEW n \in JourneyKit(r).handoffs
    PROVE  Accepted(n)
<1>1. r.budget \in Budget /\ r.price \in Total \cup {None}
  BY SmallPurchase
<1>2. List(r.reviews) /\ List(r.ready) /\ List(r.missing)
  BY AcceptedOf
<1>3. n = JourneyToTriage(r) \/ n = JourneyToReview(r) \/ n = JourneyToFinal(r)
  BY DEF JourneyKit, Answer
<1>4. CASE n = JourneyToTriage(r)
  <2>1. n.kit = "triage" /\ n.budget = r.budget /\ n.total = r.price
    BY <1>4 DEF JourneyToTriage
  <2> QED
    BY <1>1, <2>1, AcceptsTriage
<1>5. CASE n = JourneyToReview(r)
  <2>1. n.kit = "review" /\ n.budget = r.budget /\ n.rating = None /\ n.count = None
    BY <1>5 DEF JourneyToReview
  <2> QED
    BY <1>1, <2>1, AcceptsReview
<1>6. CASE n = JourneyToFinal(r)
  <2>1. /\ n.kit = "final" /\ n.budget = r.budget /\ n.price = r.price
        /\ n.status = JourneyStatuses(r) /\ n.score = JourneyScores(r) /\ n.ready = r.ready
        /\ n.missing = Or(r.missing, First(JourneyWarnings(r), 4))
        /\ n.blocking = JourneyBlockers(r) /\ n.doubts = JourneyWarnings(r)
    BY <1>6 DEF JourneyToFinal
  <2>2. List(n.blocking) /\ List(n.doubts)
    BY <1>2, <2>1, JourneyListsOf
  <2>3. List(n.missing)
    <3>1. PICK four \in Nat : four = 4
      OBVIOUS
    <3>2. List(First(JourneyWarnings(r), four))
      BY <2>1, <2>2, FirstOf
    <3> QED
      BY <1>2, <2>1, <3>1, <3>2 DEF Or
  <2>4. r.budget \in WideBudget /\ r.price \in Amount \cup {None}
    <3>1. Model("journey") = JourneyModel
      BY DEF Model
    <3> QED
      BY <3>1, GivenOf, OptionalOf, <1>1, Wider DEF JourneyModel
  <2>5. Fits(n, FinalModel, Optional("final"))
    BY <2>1, <2>4, OptionalOf DEF Fits, FinalModel
  <2>6. n.status \in [Signals -> Verdict] /\ n.score \in [Signals \ {"evidence"} -> 0..100]
    BY <2>1, JourneySignals
  <2> QED
    BY <1>2, <2>1, <2>2, <2>3, <2>5, <2>6, AcceptsFinal
<1> QED
  BY <1>3, <1>4, <1>5, <1>6

\* What the final decision hands over is accepted.
LEMMA FinalHands ==
    ASSUME NEW r, Accepted(r), Ordinary(r), r.kit = "final", NEW n \in FinalKit(r).handoffs
    PROVE  Accepted(n)
<1>1. r.budget \in Amount /\ r.price \in Amount \cup {None}
  BY SmallPurchase, Wider
<1>2. /\ List(r.ready) /\ List(r.missing) /\ List(r.blocking) /\ List(r.doubts)
      /\ r.score \in [Signals \ {"evidence"} -> 0..100]
  BY AcceptedOf
<1>3. n = FinalToExecution(r) \/ n = FinalToReviewer(r)
  BY DEF FinalKit, Answer
<1>4. Len(FinalBlockers(r)) \in Count /\ Len(FinalWarnings(r)) \in Count
  <2>1. Len(FinalBlockers(r)) \in 0..8 /\ Len(FinalWarnings(r)) \in 0..10
    BY <1>2, FinalListsOf
  <2> QED
    BY <2>1 DEF Count
<1>5. FinalScore(r) \in 0..100
  BY <1>2, FinalScoreOf
<1>6. CASE n = FinalToExecution(r)
  <2>1. /\ n.kit = "execution" /\ n.budget = r.budget /\ n.price = r.price
        /\ n.blockers = Len(FinalBlockers(r)) /\ n.warnings = Len(FinalWarnings(r))
    BY <1>6 DEF FinalToExecution
  <2> QED
    BY <1>1, <1>4, <2>1, AcceptsExecution
<1>7. CASE n = FinalToReviewer(r)
  <2>1. /\ n.kit = "reviewer" /\ n.budget = r.budget /\ n.price = r.price /\ n.confidence = FinalScore(r)
        /\ n.blockers = Len(FinalBlockers(r)) /\ n.warnings = Len(FinalWarnings(r))
    BY <1>7 DEF FinalToReviewer
  <2> QED
    BY <1>1, <1>4, <1>5, <2>1, AcceptsReviewer
<1> QED
  BY <1>3, <1>6, <1>7

\* Some names are at most as many as they are listed.
LEMMA Listed ==
    ASSUME NEW a, NEW b, NEW c, NEW d, NEW e, NEW f, NEW g, NEW h, NEW i, NEW j, NEW k, NEW l,
           NEW S \in SUBSET {a, b, c, d, e, f, g, h, i, j, k, l}
    PROVE  /\ IsFiniteSet(S) /\ Cardinality(S) \in 0..12
           /\ S \subseteq {a, b, c, d, e, f, g, h, i, j, k} => Cardinality(S) \in 0..11
<1> DEFINE T1 == {} \cup {a}
           T2 == T1 \cup {b}
           T3 == T2 \cup {c}
           T4 == T3 \cup {d}
           T5 == T4 \cup {e}
           T6 == T5 \cup {f}
           T7 == T6 \cup {g}
           T8 == T7 \cup {h}
           T9 == T8 \cup {i}
           T10 == T9 \cup {j}
           T11 == T10 \cup {k}
           T12 == T11 \cup {l}
<1>1. T12 = {a, b, c, d, e, f, g, h, i, j, k, l}
  OBVIOUS
<1>0. T11 = {a, b, c, d, e, f, g, h, i, j, k}
  OBVIOUS
<1>3. IsFiniteSet({}) /\ Cardinality({}) \in Int /\ Cardinality({}) <= 0
  BY FS_EmptySet
<1>4. IsFiniteSet(T1) /\ Cardinality(T1) \in Int /\ Cardinality(T1) <= 1
  BY <1>3, FS_AddElement
<1> HIDE DEF T1
<1>5. IsFiniteSet(T2) /\ Cardinality(T2) \in Int /\ Cardinality(T2) <= 2
  BY <1>4, FS_AddElement
<1> HIDE DEF T2
<1>6. IsFiniteSet(T3) /\ Cardinality(T3) \in Int /\ Cardinality(T3) <= 3
  BY <1>5, FS_AddElement
<1> HIDE DEF T3
<1>7. IsFiniteSet(T4) /\ Cardinality(T4) \in Int /\ Cardinality(T4) <= 4
  BY <1>6, FS_AddElement
<1> HIDE DEF T4
<1>8. IsFiniteSet(T5) /\ Cardinality(T5) \in Int /\ Cardinality(T5) <= 5
  BY <1>7, FS_AddElement
<1> HIDE DEF T5
<1>9. IsFiniteSet(T6) /\ Cardinality(T6) \in Int /\ Cardinality(T6) <= 6
  BY <1>8, FS_AddElement
<1> HIDE DEF T6
<1>10. IsFiniteSet(T7) /\ Cardinality(T7) \in Int /\ Cardinality(T7) <= 7
  BY <1>9, FS_AddElement
<1> HIDE DEF T7
<1>11. IsFiniteSet(T8) /\ Cardinality(T8) \in Int /\ Cardinality(T8) <= 8
  BY <1>10, FS_AddElement
<1> HIDE DEF T8
<1>12. IsFiniteSet(T9) /\ Cardinality(T9) \in Int /\ Cardinality(T9) <= 9
  BY <1>11, FS_AddElement
<1> HIDE DEF T9
<1>13. IsFiniteSet(T10) /\ Cardinality(T10) \in Int /\ Cardinality(T10) <= 10
  BY <1>12, FS_AddElement
<1> HIDE DEF T10
<1>14. IsFiniteSet(T11) /\ Cardinality(T11) \in Int /\ Cardinality(T11) <= 11
  BY <1>13, FS_AddElement
<1> HIDE DEF T11
<1>15. IsFiniteSet(T12) /\ Cardinality(T12) \in Int /\ Cardinality(T12) <= 12
  BY <1>14, FS_AddElement
<1>16. S \in SUBSET T12
  BY <1>1
<1> HIDE DEF T12
<1>17. IsFiniteSet(S) /\ Cardinality(S) <= Cardinality(T12)
  BY <1>15, <1>16, FS_Subset
<1>18. Cardinality(S) \in Nat
  BY <1>17, FS_CardinalityType
<1>19. S \subseteq T11 => Cardinality(S) <= Cardinality(T11)
  <2>1. S \subseteq T11 => S \in SUBSET T11
    OBVIOUS
  <2> QED
    BY <1>14, <2>1, FS_Subset
<1> QED
  BY <1>0, <1>14, <1>15, <1>17, <1>18, <1>19

\* What the purchase lock hands over is accepted: it checks at most twelve things.
LEMMA LockHands ==
    ASSUME NEW r, Accepted(r), r.kit = "lock", NEW n \in LockKit(r).handoffs
    PROVE  Accepted(n)
<1>1. r.budget \in Amount /\ r.price \in Amount \cup {None}
  <2>1. "price" \in DOMAIN Model("lock") /\ Model("lock")["price"] = Amount
    BY DEF Model, LockModel
  <2>2. r["price"] \in Amount \cup {None}
    BY <2>1, GivenOf
  <2> QED
    BY <2>2, BudgetOf, Wider
<1>2. n = LockToExecution(r)
  BY DEF LockKit, Answer
<1>3. \A verdict : LockCount(r, verdict) \in Count
  <2> TAKE verdict
  <2> DEFINE checks == LockChecks(r)
             some == {c \in DOMAIN checks : checks[c] = verdict}
  <2>1. r.locked.parts \subseteq {"cpu", "gpu", "os", "warranty", "return"}
    BY DEF Accepted
  <2>2. DOMAIN checks = {"title", "seller", "quantity", "price", "delivery_stock"} \cup r.locked.parts
                            \cup {c \in {"ram", "storage"} : r.locked[c] # None}
    BY DEF LockChecks
  <2>3. DOMAIN checks \subseteq {"title", "seller", "quantity", "price", "delivery_stock", "cpu", "gpu", "os",
                                "warranty", "return", "ram", "storage"}
    BY <2>1, <2>2
  <2>4. LockCount(r, verdict) = Cardinality(some)
    BY DEF LockCount
  <2> HIDE DEF checks
  <2>5. Cardinality(some) \in 0..12
    <3>1. some \in SUBSET {"title", "seller", "quantity", "price", "delivery_stock", "cpu", "gpu", "os",
                           "warranty", "return", "ram", "storage"}
      BY <2>3
    <3> HIDE DEF some
    <3> QED
      BY <3>1, Listed
  <2> QED
    BY <2>4, <2>5 DEF Count
<1>4. /\ n.kit = "execution" /\ n.budget = r.budget /\ n.price = r.price
      /\ n.blockers = LockCount(r, "blocker") /\ n.warnings = LockCount(r, "warning")
  BY <1>2 DEF LockToExecution
<1> QED
  BY <1>1, <1>3, <1>4, AcceptsExecution

-----------------------------------------------------------------------------
\* The first of the items at some places is one of them.
LEMMA FirstAt ==
    ASSUME NEW items, List(items), NEW places \in SUBSET (1..Len(items)), places # {}
    PROVE  \E i \in places : At(items, places)[1] = items[i]
<1>1. PICK some : some = At(items, places)
  OBVIOUS
<1>2. List(some) /\ Elements(some) = {items[i] : i \in places} /\ some # <<>>
  BY <1>1, AtOf
<1>3. some[1] \in Elements(some)
  <2>1. Len(some) \in Nat /\ Len(some) # 0
    BY <1>2, LengthOf
  <2>2. DOMAIN some = 1..Len(some)
    BY <1>2 DEF List
  <2> QED
    BY <2>1, <2>2 DEF Elements
<1> QED
  BY <1>1, <1>2, <1>3

\* A size that is read from texts is one of the sizes that are known.
LEMMA FirstSizeOf ==
    ASSUME NEW texts, NEW sizes, List(texts), List(sizes), Elements(sizes) \subseteq DOMAIN Size
    PROVE  FirstSize(texts, sizes) \in {8, 16, 32, 512, 1, None}
<1> DEFINE places == {i \in DOMAIN texts : texts[i] \cap Elements(sizes) # {}}
           with == At(texts, places)
           found == {i \in DOMAIN sizes : sizes[i] \in with[1]}
           words == At(sizes, found)
<1>1. FirstSize(texts, sizes) = IF with = <<>> THEN None ELSE Size[words[1]]
  BY DEF FirstSize, Only
<1>2. CASE with # <<>>
  <2>1. places \in SUBSET (1..Len(texts)) /\ DOMAIN sizes = 1..Len(sizes)
    BY DEF List
  <2>2. places # {}
    <3> HIDE DEF places
    <3>1. Elements(with) = {texts[i] : i \in places} /\ List(with)
      BY <2>1, AtOf
    <3>2. with \in Seq(Elements(with)) /\ with # <<>>
      BY <1>2, <3>1 DEF List
    <3> HIDE DEF with
    <3>3. Elements(with) # {}
      BY <3>2, ElementsOf
    <3> QED
      BY <3>1, <3>3
  <2>3. PICK i \in places : with[1] = texts[i]
    <3> HIDE DEF places
    <3> QED
      BY <2>1, <2>2, FirstAt
  <2>4. with[1] \cap Elements(sizes) # {}
    BY <2>3
  <2> HIDE DEF with
  <2>5. found \in SUBSET (1..Len(sizes)) /\ found # {}
    BY <2>1, <2>4 DEF Elements
  <2> HIDE DEF found
  <2>6. PICK k \in found : words[1] = sizes[k]
    BY <2>5, FirstAt
  <2>7. words[1] \in DOMAIN Size
    BY <2>1, <2>5, <2>6 DEF Elements
  <2>8. Size[words[1]] \in {8, 16, 32, 512, 1}
    <3> HIDE DEF words
    <3> QED
      BY <2>7 DEF Size
  <2> QED
    BY <1>1, <1>2, <2>8
<1> QED
  BY <1>1, <1>2

\* The sizes that a text names are sizes of memory, and those of disks are sizes of disks.
LEMMA SizesFit ==
    /\ \A size \in {8, 16, 32, 512, 1, None} : size \in RamSize \cup {None}
    /\ \A size \in {1000, 512, None} : size \in DiskSize \cup {None}
<1>1. 8 \in RamSize /\ 16 \in RamSize /\ 32 \in RamSize /\ 512 \in RamSize /\ 1 \in RamSize
  BY DEF RamSize
<1>2. 1000 \in DiskSize /\ 512 \in DiskSize
  <2>1. PICK high \in Int : high = 16384
    OBVIOUS
  <2>2. high >= 1000
    BY <2>1
  <2>3. 1000 \in 0..high /\ 512 \in 0..high
    BY <2>2
  <2> QED
    BY <2>1, <2>3 DEF DiskSize
<1> QED
  BY <1>1, <1>2

\* Three words, and three texts.
LEMMA ThreeOf ==
    ASSUME NEW x, NEW y, NEW z
    PROVE  List(<<x, y, z>>) /\ Elements(<<x, y, z>>) = {x, y, z}
<1> DEFINE S == {x, y, z}
           t == <<x, y, z>>
<1>1. t \in Seq(S) /\ Len(t) = 3
  OBVIOUS
<1>2. t[1] = x /\ t[2] = y /\ t[3] = z
  OBVIOUS
<1> HIDE DEF t
<1>3. Elements(t) = {t[i] : i \in 1..Len(t)} /\ List(t)
  <2> HIDE DEF S
  <2> QED
    BY <1>1, ElementsOf
<1>4. Elements(t) = {t[1], t[2], t[3]}
  BY <1>1, <1>3
<1> QED
  BY <1>2, <1>3, <1>4 DEF t

\* The first memory that one of three texts names is one that the scanner takes.
LEMMA KnownSizes ==
    ASSUME NEW x, NEW y, NEW z
    PROVE  /\ FirstSize(<<x, y, z>>, Memories) \in RamSize \cup {None}
           /\ FirstSize(<<x, y, z>>, <<"RAM16", "RAM32", "SSD512">>) \in RamSize \cup {None}
<1>1. PICK texts : texts = <<x, y, z>>
  OBVIOUS
<1>2. List(texts)
  BY <1>1, ThreeOf
<1>3. \A a, b, c : {a, b, c} \subseteq DOMAIN Size =>
          FirstSize(texts, <<a, b, c>>) \in {8, 16, 32, 512, 1, None}
  <2> TAKE a, b, c
  <2>1. PICK sizes : sizes = <<a, b, c>>
    OBVIOUS
  <2>2. List(sizes) /\ Elements(sizes) = {a, b, c}
    BY <2>1, ThreeOf
  <2> QED
    BY <1>2, <2>1, <2>2, FirstSizeOf
<1>4. {"RAM8", "RAM16", "RAM32", "SSD512"} \subseteq DOMAIN Size
  BY DEF Size
<1>5. FirstSize(texts, <<"RAM8", "RAM16", "RAM32">>) \in {8, 16, 32, 512, 1, None}
  BY <1>3, <1>4
<1>6. FirstSize(texts, <<"RAM16", "RAM32", "SSD512">>) \in {8, 16, 32, 512, 1, None}
  BY <1>3, <1>4
<1> QED
  BY <1>1, <1>5, <1>6, SizesFit DEF Memories

\* What the triage hands over is accepted.
LEMMA TriageHands ==
    ASSUME NEW r, Accepted(r), r.kit = "triage", NEW n \in TriageKit(r).handoffs
    PROVE  Accepted(n)
<1>1. n = TriageToScanner(r)
  BY DEF TriageKit, Answer
<1>2. PICK disk : disk = IF "SSD1TB" \in TriageText(r) THEN 1000 ELSE None
  OBVIOUS
<1>3. PICK ram : ram = FirstSize(<<r.question, r.title, r.listing>>, Memories)
  OBVIOUS
<1>4. n.kit = "scanner" /\ n.budget = r.budget /\ n.total = r.total /\ n.ram = ram /\ n.storage = disk
  BY <1>1, <1>2, <1>3 DEF TriageToScanner, ToScanner
<1>5. ram \in RamSize \cup {None} /\ disk \in DiskSize \cup {None}
  BY <1>2, <1>3, KnownSizes, SizesFit
<1> QED
  BY <1>4, <1>5, BudgetOf, TotalOf, AcceptsScanner

\* What the review check hands over is accepted.
LEMMA ReviewHands ==
    ASSUME NEW r, Accepted(r), r.kit = "review", NEW n \in ReviewKit(r).handoffs
    PROVE  Accepted(n)
<1>1. n = ReviewToScanner(r)
  BY DEF ReviewKit, Answer
<1>2. n.kit = "scanner" /\ n.budget = r.budget /\ n.total = None /\ n.ram = None /\ n.storage = None
  BY <1>1 DEF ReviewToScanner, ToScanner
<1> QED
  BY <1>2, BudgetOf, AcceptsScanner

\* What is decoded from an option is a memory and a disk that the scanner takes.
LEMMA DecodedOf ==
    ASSUME NEW text
    PROVE  DecodedRam(text) \in RamSize \cup {None} /\ DecodedStorage(text) \in DiskSize \cup {None}
<1>1. DecodedStorage(text) \in {1000, 512, None}
  BY DEF DecodedStorage
<1>2. DecodedRam(text) \in {8, 16, 32, 512, None}
  <2>1. PICK sizes : sizes = Sizes(text \ {"SSD1TB"})
    OBVIOUS
  <2>2. sizes \subseteq {8, 16, 32, 512}
    BY <2>1 DEF Sizes, Size
  <2>3. ASSUME sizes # {} PROVE \E x \in sizes : \A y \in sizes : x >= y
    <3>1. CASE 512 \in sizes
      BY <2>2, <3>1
    <3>2. CASE 512 \notin sizes /\ 32 \in sizes
      BY <2>2, <3>2
    <3>3. CASE 512 \notin sizes /\ 32 \notin sizes /\ 16 \in sizes
      BY <2>2, <3>3
    <3>4. CASE 512 \notin sizes /\ 32 \notin sizes /\ 16 \notin sizes
      <4>1. \A x \in sizes : x = 8
        BY <2>2, <3>4
      <4>2. PICK x \in sizes : x = 8
        BY <2>3, <4>1
      <4> QED
        BY <4>1, <4>2
    <3> QED
      BY <3>1, <3>2, <3>3, <3>4
  <2>4. sizes # {} => Max(sizes) \in sizes
    BY <2>3 DEF Max
  <2> QED
    BY <2>1, <2>2, <2>4 DEF DecodedRam, Largest
<1> QED
  BY <1>1, <1>2, SizesFit

\* What the option decoder hands over is accepted.
LEMMA DecoderHands ==
    ASSUME NEW r, Accepted(r), r.kit = "decoder", NEW n \in DecoderKit(r).handoffs
    PROVE  Accepted(n)
<1>1. n = DecoderToScanner(r)
  BY DEF DecoderKit, Answer
<1>2. PICK text : text = r.title \cup r.option
  OBVIOUS
<1>3. /\ n.kit = "scanner" /\ n.budget = r.budget /\ n.total = r.total
      /\ n.ram = DecodedRam(text) /\ n.storage = DecodedStorage(text)
  BY <1>1, <1>2 DEF DecoderToScanner, ToScanner
<1> QED
  BY <1>3, DecodedOf, BudgetOf, TotalOf, AcceptsScanner

\* What the glossary hands over is accepted.
LEMMA TermsHand ==
    ASSUME NEW r, Accepted(r), r.kit = "terms", NEW n \in TermKit(r).handoffs
    PROVE  Accepted(n)
<1>1. n = TermToScanner(r)
  BY DEF TermKit, Answer
<1>2. PICK text : text = r.title \cup r.option \cup r.terms
  OBVIOUS
<1>3. PICK ram : ram = FirstSize(<<r.title, r.option, r.terms>>, <<"RAM16", "RAM32", "SSD512">>)
  OBVIOUS
<1>4. /\ n.kit = "scanner" /\ n.budget = r.budget /\ n.total = None
      /\ n.ram = ram /\ n.storage = DecodedStorage(text)
  BY <1>1, <1>2, <1>3 DEF TermToScanner, ToScanner
<1>5. ram \in RamSize \cup {None}
  BY <1>3, KnownSizes
<1> QED
  BY <1>4, <1>5, DecodedOf, BudgetOf, AcceptsScanner

\* What the questions to the seller hand over is accepted.
LEMMA SellerHands ==
    ASSUME NEW r, Accepted(r), r.kit = "seller", NEW n \in SellerKit(r).handoffs
    PROVE  Accepted(n)
<1>1. n = SellerToApproval(r)
  BY DEF SellerKit, Answer
<1>2. /\ n.kit = "approval" /\ n.budget = r.budget /\ n.total = r.total
      /\ n.blockers = One(SellerPriority(r) = "blocker") + One(AnswerStatus(r) = "blocker")
      /\ n.warnings = One(SellerPriority(r) = "warning") + One(AnswerStatus(r) = "warning")
  BY <1>1 DEF SellerToApproval
<1>3. n.blockers \in Count /\ n.warnings \in Count
  <2>1. One(SellerPriority(r) = "blocker") \in 0..1 /\ One(AnswerStatus(r) = "blocker") \in 0..1
    BY DEF One
  <2>2. One(SellerPriority(r) = "warning") \in 0..1 /\ One(AnswerStatus(r) = "warning") \in 0..1
    BY DEF One
  <2> QED
    BY <1>2, <2>1, <2>2 DEF Count
<1> QED
  BY <1>2, <1>3, BudgetOf, TotalOf, AcceptsApproval

\* What the setup check hands over is accepted.
LEMMA SetupHands ==
    ASSUME NEW r, Accepted(r), r.kit = "setup", NEW n \in SetupKit(r).handoffs
    PROVE  Accepted(n)
<1>1. n = SetupToScanner(r)
  BY DEF SetupKit, Answer
<1>2. /\ n.kit = "scanner" /\ n.budget = r.budget /\ n.total = None
      /\ n.ram = r.ram /\ n.storage = r.storage
  BY <1>1 DEF SetupToScanner
<1>3. r["ram"] \in RamSize \cup {None} /\ r["storage"] \in DiskSize \cup {None}
  <2>1. /\ {"ram", "storage"} \subseteq DOMAIN Model("setup")
        /\ Model("setup")["ram"] = RamSize /\ Model("setup")["storage"] = DiskSize
    BY DEF Model, SetupModel
  <2> QED
    BY <2>1, GivenOf
<1> QED
  BY <1>2, <1>3, BudgetOf, AcceptsScanner

\* A number between bounds.
LEMMA Within == ASSUME NEW x \in Int, NEW high \in Int, x >= 0, ~(x > high) PROVE x \in 0..high
  OBVIOUS

\* What the blueprint hands over is accepted: it plans parts that the setup check knows.
LEMMA BlueprintHands ==
    ASSUME NEW r, Accepted(r), r.kit = "blueprint", NEW n \in BlueprintKit(r).handoffs
    PROVE  Accepted(n)
<1>1. n = BlueprintToSetup(r)
  BY DEF BlueprintKit, Answer
<1>2. PICK ram \in {16, 32} : ram = IF r.budget >= (IF r.category = "laptop" THEN 140 ELSE 150) \/ Creator(r) THEN 32 ELSE 16
  OBVIOUS
<1>3. PICK disk \in {512, 1000} :
          disk = IF r.budget >= (IF r.category = "laptop" THEN 120 ELSE 140) THEN 1000 ELSE 512
  OBVIOUS
<1>4. PICK psu \in {650, 750} : psu = IF r.budget >= 180 THEN 750 ELSE 650
  OBVIOUS
<1>5. PICK weight \in {15, 19} : weight = IF CarriedLight(r) THEN 15 ELSE 19
  OBVIOUS
<1>6. PICK battery \in {70, None} : battery = IF r.category = "laptop" THEN 70 ELSE None
  OBVIOUS
<1>9. /\ n.kit = "setup" /\ n.budget = r.budget /\ n.ram = ram /\ n.storage = disk /\ n.battery = battery
      /\ n.psu \in {psu, None} /\ n.weight \in {weight, None}
  BY <1>1, <1>2, <1>3, <1>4, <1>5, <1>6 DEF BlueprintToSetup
<1>10. {"ram", "storage", "psu", "weight", "battery"} \subseteq Optional("setup")
  BY DEF Optional
<1>11. ram \in RamSize /\ disk \in DiskSize
  BY SizesFit DEF RamSize, DiskSize
<1>12. \A x \in {650, 750} : x \in 0..3000
  OBVIOUS
<1>13. Fits(n, SetupModel, Optional("setup"))
  BY <1>9, <1>10, <1>11, <1>12, BudgetOf DEF Fits, SetupModel
<1> QED
  BY <1>9, <1>13, AcceptsPlain

\* What an ordinary deal hands over is accepted: the breakdown takes smaller deductions than the deal.
LEMMA DealHands ==
    ASSUME NEW r, Accepted(r), Ordinary(r), r.kit = "deal", NEW n \in DealKit(r).handoffs
    PROVE  Accepted(n)
<1>1. n = DealToBreakdown(r)
  BY DEF DealKit, Answer
<1>2. /\ n.kit = "breakdown" /\ n.listed = r.listed /\ n.quantity = 1 /\ n.shipping = r.shipping
      /\ n.fees = 0 /\ n.coupon = r.coupon /\ n.points = r.points /\ n.budget = r.budget
      /\ n.reference = r.reference /\ n.hours = r.hours /\ n.stock = r.stock
  BY <1>1 DEF DealToBreakdown
<1>3. Model("deal") = DealModel
  BY DEF Model
<1>4. /\ DealModel["listed"] = Amount /\ DealModel["shipping"] = 0..1000 /\ DealModel["coupon"] = Discount
      /\ DealModel["points"] = Discount /\ DealModel["budget"] = Amount /\ DealModel["reference"] = Amount
      /\ DealModel["hours"] = Hours /\ DealModel["stock"] = Stock
      /\ {"listed", "shipping", "coupon", "points", "budget", "reference", "hours", "stock"} \subseteq DOMAIN DealModel
  BY DEF DealModel
<1>5. /\ {"listed", "shipping", "coupon", "points"} \subseteq DOMAIN Smallest
      /\ Smallest["listed"] = 5000 /\ Smallest["shipping"] = 500
      /\ Smallest["coupon"] = 4000 /\ Smallest["points"] = 2000
  BY DEF Smallest
<1>6. {"listed", "shipping", "coupon", "points"} \cap Optional("deal") = {}
  BY DEF Optional
<1>7. /\ r["budget"] \in Amount \cup {None} /\ r["reference"] \in Amount \cup {None}
      /\ r["hours"] \in Hours \cup {None} /\ r["stock"] \in Stock \cup {None}
  BY <1>3, <1>4, GivenOf
<1>8. \A x \in Int : x # None
  BY NoneAssumption
<1>9. PICK listed \in Int : listed = r["listed"] /\ listed >= 0 /\ ~(listed > 5000)
  <2>1. PICK x : x = r["listed"]
    OBVIOUS
  <2>2. x \in Amount /\ (x # None => ~(x > 5000))
    BY <1>3, <1>4, <1>5, <1>6, <2>1, SmallOf
  <2>3. \A y \in Amount : y \in Int /\ y >= 0
    BY Ranges
  <2> QED
    BY <1>8, <2>1, <2>2, <2>3
<1>10. PICK shipping \in Int : shipping = r["shipping"] /\ shipping >= 0 /\ ~(shipping > 500)
  <2>1. PICK x : x = r["shipping"]
    OBVIOUS
  <2>2. x \in 0..1000 /\ (x # None => ~(x > 500))
    BY <1>3, <1>4, <1>5, <1>6, <2>1, SmallOf
  <2>3. \A y \in 0..1000 : y \in Int /\ y >= 0
    OBVIOUS
  <2> QED
    BY <1>8, <2>1, <2>2, <2>3
<1>11. \A y \in Discount : y \in Int /\ y >= 0
  BY DEF Discount
<1>12. PICK coupon \in Int : coupon = r["coupon"] /\ coupon >= 0 /\ ~(coupon > 4000)
  <2>1. PICK x : x = r["coupon"]
    OBVIOUS
  <2>2. x \in Discount /\ (x # None => ~(x > 4000))
    BY <1>3, <1>4, <1>5, <1>6, <2>1, SmallOf
  <2> QED
    BY <1>8, <1>11, <2>1, <2>2
<1>13. PICK points \in Int : points = r["points"] /\ points >= 0 /\ ~(points > 2000)
  <2>1. PICK x : x = r["points"]
    OBVIOUS
  <2>2. x \in Discount /\ (x # None => ~(x > 2000))
    BY <1>3, <1>4, <1>5, <1>6, <2>1, SmallOf
  <2> QED
    BY <1>8, <1>11, <2>1, <2>2
<1>14. listed \in Cost
  <2>1. PICK high \in Int : high = 5000
    OBVIOUS
  <2>2. ~(listed > high)
    BY <1>9, <2>1
  <2>3. listed \in 0..high
    BY <1>9, <2>2, Within
  <2> QED
    BY <2>1, <2>3 DEF Cost
<1>15. shipping \in Fee
  BY <1>10 DEF Fee
<1>16. coupon \in 0..4000
  <2>1. PICK high \in Int : high = 4000
    OBVIOUS
  <2>2. ~(coupon > high)
    BY <1>12, <2>1
  <2>3. coupon \in 0..high
    BY <1>12, <2>2, Within
  <2> QED
    BY <2>1, <2>3
<1>17. points \in 0..2000
  BY <1>13
<1> QED
  BY <1>2, <1>7, <1>9, <1>10, <1>12, <1>13, <1>14, <1>15, <1>16, <1>17, AcceptsBreakdown

\* The winner of a quiz is one of its four personas.
LEMMA WinnerOf ==
    ASSUME NEW answers, List(answers)
    PROVE  QuizWinner(answers) \in 1..4
<1> DEFINE four == <<1, 2, 3, 4>>
           scores == [p \in DOMAIN four |-> PersonaScore(answers, four[p])]
<1>1. QuizWinner(answers) = IF ValidWeights(answers) = 0 THEN 2 ELSE Sorted(four, scores)[1]
  BY DEF QuizWinner, ByScore, Each
<1>2. four \in [1..4 -> 1..4] /\ DOMAIN four = 1..4
  OBVIOUS
<1>3. \A persona : PersonaScore(answers, persona) \in Int
  <2> TAKE persona
  <2> DEFINE all == (DOMAIN answers) \X (1..4)
             some == {w \in all : w[2] <= OptionWeights(answers[w[1]])[persona]}
  <2>1. PICK m \in Nat : DOMAIN answers = 1..m
    BY DEF List
  <2>2. IsFiniteSet(DOMAIN answers) /\ IsFiniteSet(1..4)
    <3>1. PICK last \in Int : last = 4
      OBVIOUS
    <3>2. IsFiniteSet(1..m) /\ IsFiniteSet(1..last)
      BY FS_Interval
    <3> QED
      BY <2>1, <3>1, <3>2
  <2>3. IsFiniteSet(all)
    BY <2>2, FS_Product
  <2>4. some \in SUBSET all
    OBVIOUS
  <2>5. PersonaScore(answers, persona) = Cardinality(some)
    BY DEF PersonaScore
  <2> HIDE DEF all, some
  <2>6. Cardinality(some) \in Nat
    BY <2>3, <2>4, FS_Subset, FS_CardinalityType
  <2> QED
    BY <2>5, <2>6
<1> HIDE DEF four
<1>4. scores \in [1..4 -> Int]
  BY <1>2, <1>3
<1> HIDE DEF scores
<1>5. Sorted(four, scores) \in [1..4 -> 1..4]
  <2>1. PICK n \in Nat : n = 4
    OBVIOUS
  <2>2. PICK S : S = 1..4
    OBVIOUS
  <2>3. four \in [1..n -> S] /\ scores \in [1..n -> Int]
    BY <1>2, <1>4, <2>1, <2>2
  <2>4. Sorted(four, scores) \in [1..n -> S]
    BY <2>3, SortedOf
  <2> QED
    BY <2>1, <2>2, <2>4
<1> QED
  BY <1>1, <1>5

\* What the quiz hands over is accepted.
LEMMA QuizHands ==
    ASSUME NEW r, Accepted(r), r.kit = "quiz", NEW n \in QuizKit(r).handoffs
    PROVE  Accepted(n)
<1>1. List(r.answers)
  <2>1. ListsOf("quiz") = {"answers"}
    BY DEF ListsOf
  <2>2. List(r["answers"])
    BY <2>1 DEF Accepted
  <2> QED
    BY <2>2
<1>2. PICK persona \in 1..4 : persona = QuizWinner(r.answers)
  BY <1>1, WinnerOf
<1>3. n = [kit |-> "checklist", category |-> QuizProfile(persona).category, budget |-> QuizProfile(persona).budget]
  BY <1>2 DEF QuizKit, Answer
<1>4. QuizProfile(persona).budget \in Int
  BY DEF QuizProfile
<1>5. Fits(n, CatalogModel, Optional("checklist"))
  BY <1>3, <1>4 DEF Fits, CatalogModel
<1> QED
  BY <1>3, <1>5, AcceptsPlain

\* The lowest of some numbers is one of them.
LEMMA MinOf ==
    ASSUME NEW m \in Nat, NEW S \in SUBSET (1..m), S # {}
    PROVE  Min(S) \in S
<1>1. PICK i \in S : \A j \in S : i <= j
  BY FirstPlace
<1> QED
  BY <1>1 DEF Min

\* What the extraction finds on a page, and what the purchase costs with it.
LEMMA ExtractedOf ==
    ASSUME NEW r, Accepted(r), r.kit = "page"
    PROVE  /\ ExtractedPrice(r) # None => ExtractedPrice(r) \in 1..2000
           /\ OrZero(ShippingFee(r)) \in 0..30 /\ OrZero(r.discount) \in 0..500
           /\ EffectivePrice(r) \in Total \cup {None}
<1>1. ExtractedPrice(r) # None => ExtractedPrice(r) \in 1..2000
  <2> DEFINE reasonable == {p \in r.amounts : p \in 5..2000}
  <2>1. PICK high \in Nat : high = 2000
    OBVIOUS
  <2>2. \A p \in 5..2000 : p \in 1..high
    BY <2>1
  <2>3. reasonable \in SUBSET (1..high)
    BY <2>2
  <2>4. ExtractedPrice(r) = IF reasonable = {} THEN None ELSE Min(reasonable)
    BY DEF ExtractedPrice
  <2> HIDE DEF reasonable
  <2>5. reasonable # {} => Min(reasonable) \in 1..high
    BY <2>3, MinOf
  <2> QED
    BY <2>1, <2>4, <2>5
<1>2. r["shipping"] \in (0..30) \cup {None} /\ r["discount"] \in (1..500) \cup {None}
  <2>1. Model("page") = PageModel
    BY DEF Model
  <2>2. /\ {"shipping", "discount"} \subseteq DOMAIN PageModel
        /\ PageModel["shipping"] = 0..30 /\ PageModel["discount"] = 1..500
    BY DEF PageModel
  <2> QED
    BY <2>1, <2>2, GivenOf
<1>3. OrZero(ShippingFee(r)) \in 0..30
  BY <1>2 DEF OrZero, ShippingFee
<1>4. OrZero(r.discount) \in 0..500
  <2>1. \A x \in 1..500 : x \in 0..500
    OBVIOUS
  <2> QED
    BY <1>2, <2>1 DEF OrZero
<1>5. EffectivePrice(r) \in Total \cup {None}
  <2>1. CASE ExtractedPrice(r) = None
    BY <2>1 DEF EffectivePrice
  <2>2. CASE ExtractedPrice(r) # None
    <3>1. PICK price \in Int : price = ExtractedPrice(r) /\ price >= 1 /\ price <= 2000
      <4>1. \A x \in 1..2000 : x \in Int /\ x >= 1 /\ x <= 2000
        OBVIOUS
      <4> QED
        BY <1>1, <2>2, <4>1
    <3>2. PICK fee \in Int : fee = OrZero(ShippingFee(r)) /\ fee >= 0 /\ fee <= 30
      BY <1>3
    <3>3. PICK discount \in Int : discount = OrZero(r.discount) /\ discount >= 0
      BY <1>4
    <3>4. EffectivePrice(r) = NotBelow(price + fee - discount, 0)
      BY <2>2, <3>1, <3>2, <3>3 DEF EffectivePrice
    <3>5. PICK paid \in Int : paid = EffectivePrice(r) /\ paid >= 0 /\ ~(paid > 3000)
      BY <3>1, <3>2, <3>3, <3>4 DEF NotBelow
    <3>6. PICK high \in Int : high = 3000
      OBVIOUS
    <3>7. ~(paid > high)
      BY <3>5, <3>6
    <3>8. paid \in 0..high
      BY <3>5, <3>7, Within
    <3> QED
      BY <3>5, <3>6, <3>8 DEF Total
  <2> QED
    BY <2>1, <2>2
<1> QED
  BY <1>1, <1>3, <1>4, <1>5

\* What the page extraction hands over is accepted, whatever it found on the page.
LEMMA PageHands ==
    ASSUME NEW r, Accepted(r), r.kit = "page", NEW n \in PageKit(r).handoffs
    PROVE  Accepted(n)
<1>1. n = PageToScanner(r) \/ n = PageToBreakdown(r) \/ n = PageToSeller(r)
  BY DEF PageKit, Answer
<1>2. r.budget \in Budget /\ EffectivePrice(r) \in Total \cup {None}
  BY BudgetOf, ExtractedOf
<1>3. CASE n = PageToScanner(r)
  <2>1. /\ n.kit = "scanner" /\ n.total = EffectivePrice(r) /\ n.budget = r.budget
        /\ n.ram = r.ram /\ n.storage = r.storage
    BY <1>3 DEF PageToScanner
  <2>2. Model("page") = PageModel
    BY DEF Model
  <2>3. {"ram", "storage"} \subseteq DOMAIN PageModel /\ PageModel["ram"] = RamSize /\ PageModel["storage"] = DiskSize
    BY DEF PageModel
  <2>4. r["ram"] \in RamSize \cup {None} /\ r["storage"] \in DiskSize \cup {None}
    BY <2>2, <2>3, GivenOf
  <2> QED
    BY <1>2, <2>1, <2>4, AcceptsScanner
<1>4. CASE n = PageToBreakdown(r)
  <2>1. PICK listed : listed = IF ExtractedPrice(r) = None THEN r.budget ELSE ExtractedPrice(r)
    OBVIOUS
  <2>2. /\ n.kit = "breakdown" /\ n.listed = listed /\ n.quantity = 1 /\ n.shipping = OrZero(ShippingFee(r))
        /\ n.fees = 0 /\ n.coupon = OrZero(r.discount) /\ n.points = 0 /\ n.budget = r.budget
        /\ n.reference = EffectivePrice(r) /\ n.hours = None /\ n.stock = None
    BY <1>4, <2>1 DEF PageToBreakdown
  <2>3. PICK price \in Int : price = listed /\ price >= 0 /\ ~(price > 3000)
    <3>1. \A x \in Budget : x \in Int /\ x >= 0 /\ x <= 3000
      BY Ranges
    <3>2. \A x \in 1..2000 : x \in Int /\ x >= 0 /\ x <= 3000
      OBVIOUS
    <3>3. \A x \in Int : x <= 3000 => ~(x > 3000)
      OBVIOUS
    <3>4. listed \in Budget \/ listed \in 1..2000
      BY <1>2, <2>1, ExtractedOf
    <3> QED
      BY <3>1, <3>2, <3>3, <3>4
  <2>4. listed \in Cost
    <3>1. PICK high \in Int : high = 5000
      OBVIOUS
    <3>2. ~(price > high)
      BY <2>3, <3>1
    <3>3. price \in 0..high
      BY <2>3, <3>2, Within
    <3> QED
      BY <2>3, <3>1, <3>3 DEF Cost
  <2>5. n.shipping \in Fee
    <3>1. \A x \in 0..30 : x \in Fee
      BY DEF Fee
    <3> QED
      BY <2>2, <3>1, ExtractedOf
  <2>6. n.coupon \in 0..4000 /\ n.points \in 0..2000
    <3>1. PICK coupon \in Int : coupon = OrZero(r.discount) /\ coupon >= 0 /\ ~(coupon > 500)
      BY ExtractedOf
    <3>2. PICK high \in Int : high = 4000
      OBVIOUS
    <3>3. ~(coupon > high)
      BY <3>1, <3>2
    <3>4. coupon \in 0..high
      BY <3>1, <3>3, Within
    <3>5. 0 \in 0..2000
      OBVIOUS
    <3> QED
      BY <2>2, <3>1, <3>2, <3>4, <3>5
  <2>7. n.budget \in Amount /\ n.reference \in Amount \cup {None}
    BY <1>2, <2>2, Wider
  <2> QED
    BY <2>2, <2>4, <2>5, <2>6, <2>7, AcceptsBreakdown
<1>5. CASE n = PageToSeller(r)
  <2>1. n.kit = "seller" /\ n.budget = r.budget /\ n.total = EffectivePrice(r)
    BY <1>5 DEF PageToSeller
  <2> QED
    BY <1>2, <2>1, AcceptsSeller
<1> QED
  BY <1>1, <1>3, <1>4, <1>5

\* The weight of what some buyers have said is a count, and what is said weighs something.
LEMMA WeightOf ==
    ASSUME NEW all, NEW said, IsFiniteSet(said)
    PROVE  TotalWeight(all, said) \in Nat /\ (said # {} => TotalWeight(all, said) >= 1)
<1> DEFINE W == {w \in said \X (1..3) : w[2] <= PriorityWeight(all[w[1][1]].priority)}
<1>1. IsFiniteSet(1..3)
  <2>1. PICK three \in Int : three = 3
    OBVIOUS
  <2>2. IsFiniteSet(1..three)
    BY FS_Interval
  <2> QED
    BY <2>1, <2>2
<1>2. IsFiniteSet(said \X (1..3))
  BY <1>1, FS_Product
<1>3. W \in SUBSET (said \X (1..3))
  OBVIOUS
<1>4. said # {} => W # {}
  <2>1. SUFFICES ASSUME NEW s \in said PROVE <<s, 1>> \in W
    OBVIOUS
  <2>2. 1 <= PriorityWeight(all[s[1]].priority)
    BY DEF PriorityWeight
  <2> QED
    BY <2>2
<1>5. TotalWeight(all, said) = Cardinality(W)
  BY DEF TotalWeight
<1> HIDE DEF W
<1>6. IsFiniteSet(W)
  BY <1>2, <1>3, FS_Subset
<1>7. Cardinality(W) \in Nat /\ (W # {} => Cardinality(W) # 0)
  BY <1>6, FS_CardinalityType, FS_EmptySet
<1> QED
  BY <1>4, <1>5, <1>7

\* The buyers who have a say: as many as are named, up to eight, each with a budget that is not
\* negative, and with conditions in lists.
LEMMA BuyersOf ==
    ASSUME NEW r, Accepted(r), r.kit = "consensus"
    PROVE  /\ List(Stakeholders(r))
           /\ \A i \in DOMAIN Stakeholders(r) :
                  /\ Stakeholders(r)[i].budget \in Amount \cup {None}
                  /\ List(Stakeholders(r)[i].musts) /\ List(Stakeholders(r)[i].breakers)
<1>1. r["budget"] \in Amount \cup {None}
  <2>1. Model("consensus") = ConsensusModel
    BY DEF Model
  <2>2. "budget" \in DOMAIN ConsensusModel /\ ConsensusModel["budget"] = Amount
    BY DEF ConsensusModel
  <2> QED
    BY <2>1, <2>2, GivenOf
<1>2. CASE r.stakeholders # <<>>
  <2>1. List(r.stakeholders)
    <3>1. "stakeholders" \in ListsOf(r.kit)
      BY DEF ListsOf
    <3>2. List(r["stakeholders"])
      BY <3>1 DEF Accepted
    <3> QED
      BY <3>2
  <2>2. Stakeholders(r) = First(r.stakeholders, 8)
    BY <1>2 DEF Stakeholders
  <2>3. List(Stakeholders(r)) /\ Elements(Stakeholders(r)) \subseteq Elements(r.stakeholders)
    BY <2>1, <2>2, FirstOf
  <2>4. \A s \in Elements(r.stakeholders) :
            s.budget \in Amount \cup {None} /\ List(s.musts) /\ List(s.breakers)
    <3>1. \A s \in Elements(r.stakeholders) :
              Fits(s, StakeholderModel, {"budget"}) /\ List(s.musts) /\ List(s.breakers)
      BY DEF Accepted
    <3> QED
      BY <3>1 DEF Fits, StakeholderModel
  <2>5. \A i \in DOMAIN Stakeholders(r) : Stakeholders(r)[i] \in Elements(Stakeholders(r))
    BY DEF Elements
  <2> QED
    BY <2>3, <2>4, <2>5
<1>3. CASE r.stakeholders = <<>>
  <2>1. PICK s : s = [priority |-> "high", budget |-> r.budget, musts |-> <<"fit", "support">>, nices |-> <<>>,
                      breakers |-> <<"noReturn", "mismatch">>, timeline |-> r.timing, risk |-> "medium"]
    OBVIOUS
  <2>2. Stakeholders(r) = <<s>>
    BY <1>3, <2>1 DEF Stakeholders
  <2>3. s.budget = r.budget /\ List(s.musts) /\ List(s.breakers)
    <3>1. s.musts = <<"fit", "support">> /\ s.breakers = <<"noReturn", "mismatch">> /\ s.budget = r.budget
      BY <2>1
    <3> QED
      BY <3>1, TwoOf
  <2>4. List(<<s>>) /\ DOMAIN <<s>> = {1} /\ <<s>>[1] = s
    BY OneOf
  <2> QED
    BY <1>1, <2>2, <2>3, <2>4
<1> QED
  BY <1>2, <1>3

\* The budget that the buyers agree on is a budget that the purchase agent takes.
LEMMA AgreedOf ==
    ASSUME NEW r, Accepted(r), r.kit = "consensus"
    PROVE  AgreedBudget(r) \in Nat
<1> DEFINE all == Stakeholders(r)
           paying == {i \in DOMAIN all : OrZero(all[i].budget) > 0}
           upTo(amount) == TotalWeight(all, {i \in paying : all[i].budget <= amount} \X {1})
           half == TotalWeight(all, paying \X {1}) \div 2
           enough == {all[i].budget : i \in {j \in paying : upTo(all[j].budget) > half}}
<1>1. \A x \in Amount : x \in Nat
  BY Ranges
<1>2. PICK b : b = r["budget"]
  OBVIOUS
<1>3. b \in Amount \cup {None}
  <2>1. Model("consensus") = ConsensusModel
    BY DEF Model
  <2>2. "budget" \in DOMAIN ConsensusModel /\ ConsensusModel["budget"] = Amount
    BY DEF ConsensusModel
  <2> QED
    BY <1>2, <2>1, <2>2, GivenOf
<1>4. OrZero(b) > 0 => b \in Nat
  BY <1>1, <1>3 DEF OrZero
<1>5. OrZero(b) > 0 \/ OrZero(b) = 0
  BY <1>1, <1>3 DEF OrZero
<1>6. AgreedBudget(r) =
          CASE OrZero(b) > 0 -> b
            [] OrZero(b) = 0 /\ paying # {} -> Min(enough)
            [] OTHER -> IF r.category = "laptop" THEN 160 ELSE 220
  BY <1>2 DEF AgreedBudget
<1>7. paying # {} => Min(enough) \in Nat
  <2> SUFFICES ASSUME paying # {} PROVE Min(enough) \in Nat
    OBVIOUS
  <2>1. PICK n \in Nat : DOMAIN all = 1..n
    BY BuyersOf DEF List
  <2>2. paying \in SUBSET (1..n)
    BY <2>1
  <2>3. \A i \in paying : all[i].budget \in Int /\ all[i].budget > 0 /\ all[i].budget \in Amount
    BY <1>1, BuyersOf DEF OrZero
  <2>4. PICK f \in [1..n -> Int] : f = [i \in 1..n |-> IF i \in paying THEN all[i].budget ELSE -1]
    <3>1. \A i \in 1..n : (IF i \in paying THEN all[i].budget ELSE -1) \in Int
      BY <2>3
    <3> HIDE DEF all, paying
    <3> QED
      BY <3>1
  <2>5. n # 0
    BY <2>2
  <2>6. PICK top \in 1..n : \A j \in 1..n : f[top] >= f[j]
    <3>1. \E i \in 1..n : \A j \in 1..n : f[i] >= f[j]
      BY <2>5, HighestOf
    <3> QED
      BY <3>1
  <2>7. top \in paying
    BY <2>2, <2>3, <2>4, <2>6
  <2>8. {i \in paying : all[i].budget <= all[top].budget} = paying
    BY <2>2, <2>4, <2>6, <2>7
  <2>9. upTo(all[top].budget) > half
    <3>1. PICK said : said = paying \X {1}
      OBVIOUS
    <3>2. IsFiniteSet(paying) /\ IsFiniteSet({1})
      <4>1. IsFiniteSet(1..n)
        BY FS_Interval
      <4>2. IsFiniteSet(paying)
        BY <2>2, <4>1, FS_Subset
      <4> QED
        BY <4>2, FS_Singleton
    <3>3. IsFiniteSet(said)
      BY <3>1, <3>2, FS_Product
    <3>4. said # {}
      <4>1. <<top, 1>> \in paying \X {1}
        BY <2>7
      <4> QED
        BY <3>1, <4>1
    <3>5. PICK weight \in Nat : weight = TotalWeight(all, said) /\ weight >= 1
      BY <3>3, <3>4, WeightOf
    <3>6. weight > weight \div 2
      BY <3>5
    <3> QED
      BY <2>8, <3>1, <3>5, <3>6
  <2>10. enough # {}
    BY <2>7, <2>9
  <2>11. PICK high \in Nat : high = 20000
    OBVIOUS
  <2>12. \A x \in Amount : x \in 0..high
    BY <2>11 DEF Amount
  <2>13. \A x \in enough : x \in 1..high
    <3> SUFFICES ASSUME NEW i \in paying PROVE all[i].budget \in 1..high
      OBVIOUS
    <3>1. PICK x \in 0..high : x = all[i].budget /\ x > 0
      BY <2>3, <2>12
    <3> QED
      BY <3>1
  <2> HIDE DEF enough
  <2>14. Min(enough) \in enough
    BY <2>10, <2>13, MinOf
  <2> QED
    BY <2>13, <2>14
<1> HIDE DEF paying, enough
<1> QED
  BY <1>4, <1>5, <1>6, <1>7

\* Eight lists, one after another, are a list.
LEMMA EightOf ==
    ASSUME NEW a, NEW b, NEW c, NEW d, NEW e, NEW f, NEW g, NEW h,
           List(a), List(b), List(c), List(d), List(e), List(f), List(g), List(h)
    PROVE  List(a \o b \o c \o d \o e \o f \o g \o h)
<1>1. PICK two : two = a \o b /\ List(two)
  BY ElementsOfBoth
<1>2. PICK three : three = two \o c /\ List(three)
  BY <1>1, ElementsOfBoth
<1>3. PICK four : four = three \o d /\ List(four)
  BY <1>2, ElementsOfBoth
<1>4. PICK five : five = four \o e /\ List(five)
  BY <1>3, ElementsOfBoth
<1>5. PICK six : six = five \o f /\ List(six)
  BY <1>4, ElementsOfBoth
<1>6. PICK seven : seven = six \o g /\ List(seven)
  BY <1>5, ElementsOfBoth
<1>7. List(seven \o h)
  BY <1>6, ElementsOfBoth
<1> QED
  BY <1>1, <1>2, <1>3, <1>4, <1>5, <1>6, <1>7

\* What the buyers agree on is a list.
LEMMA MustsOf ==
    ASSUME NEW r, Accepted(r), r.kit = "consensus"
    PROVE  List(AgreedMusts(r))
<1> DEFINE all == Stakeholders(r)
           terms(i) == IF i \in DOMAIN all THEN all[i].musts ELSE <<>>
           named == terms(1) \o terms(2) \o terms(3) \o terms(4) \o terms(5) \o terms(6) \o terms(7) \o terms(8)
           places(i, term) == {j \in DOMAIN all[i].musts : all[i].musts[j] = term}
           said(term) == UNION {{i} \X places(i, term) : i \in DOMAIN all}
           weight(term) == TotalWeight(all, said(term))
           distinct == Distinct(named)
           weights == [i \in DOMAIN distinct |-> weight(distinct[i])]
           sorted == Sorted(distinct, weights)
           heavy == At(sorted, {i \in DOMAIN sorted : weight(sorted[i]) >= 2})
<1>1. AgreedMusts(r) = First(heavy, 10)
  BY DEF AgreedMusts, Named, ByScore, Each, Only
<1>2. \A i : List(terms(i))
  BY BuyersOf, NoneOf
<1>3. \A term : weight(term) \in Int
  <2>1. PICK n \in Nat : DOMAIN all = 1..n
    BY BuyersOf DEF List
  <2> TAKE term
  <2>2. ASSUME NEW i \in DOMAIN all PROVE IsFiniteSet({i} \X places(i, term))
    <3>1. PICK m \in Nat : DOMAIN all[i].musts = 1..m
      BY BuyersOf DEF List
    <3>2. places(i, term) \in SUBSET (1..m)
      BY <3>1
    <3>3. IsFiniteSet(1..m) /\ IsFiniteSet({i})
      BY FS_Interval, FS_Singleton
    <3>4. IsFiniteSet(places(i, term))
      BY <3>2, <3>3, FS_Subset
    <3> QED
      BY <3>3, <3>4, FS_Product
  <2> DEFINE f == [i \in DOMAIN all |-> {i} \X places(i, term)]
             T == {{i} \X places(i, term) : i \in DOMAIN all}
  <2>3. f \in Surjection(DOMAIN all, T)
    BY DEF Surjection
  <2>4. \A S \in T : IsFiniteSet(S)
    BY <2>2
  <2>5. said(term) = UNION T
    OBVIOUS
  <2> HIDE DEF f, T
  <2>6. IsFiniteSet(T)
    <3>1. IsFiniteSet(1..n)
      BY FS_Interval
    <3>2. IsFiniteSet(DOMAIN all)
      BY <2>1, <3>1
    <3> QED
      BY <2>3, <3>2, FS_Surjection
  <2>7. IsFiniteSet(said(term))
    BY <2>4, <2>5, <2>6, FS_UNION
  <2> HIDE DEF said
  <2> QED
    BY <2>7, WeightOf
<1> HIDE DEF weight, terms
<1>4. List(named)
  BY <1>2, EightOf
<1> HIDE DEF named
<1>5. List(distinct)
  BY <1>4, DistinctOf
<1> HIDE DEF distinct
<1>6. weights \in [1..Len(distinct) -> Int]
  BY <1>3, <1>5 DEF List
<1> HIDE DEF weights
<1>7. List(sorted)
  BY <1>5, <1>6, ChosenOf
<1> HIDE DEF sorted
<1>8. {i \in DOMAIN sorted : weight(sorted[i]) >= 2} \in SUBSET (1..Len(sorted))
  BY <1>7 DEF List
<1>9. List(heavy)
  BY <1>7, <1>8, AtOf
<1> HIDE DEF heavy
<1> QED
  BY <1>1, <1>9, TenOf

\* What the consensus hands over is accepted by the purchase agent.
LEMMA ConsensusHands ==
    ASSUME NEW r, Accepted(r), r.kit = "consensus", NEW n \in ConsensusKit(r).handoffs
    PROVE  Accepted(n)
<1>1. n = RecommendedRequest(r)
  BY DEF ConsensusKit, Answer
<1>2. n.kit = "analyze" /\ n.budget = AgreedBudget(r) /\ n.needs = AgreedMusts(r)
  BY <1>1 DEF RecommendedRequest
<1>3. Model(n.kit) = AgentModel /\ ListsOf(n.kit) = {"needs"} /\ n.kit \in Kits
  BY <1>2 DEF Model, ListsOf, Kits
<1>4. Fits(n, AgentModel, Optional("analyze"))
  BY <1>2, AgreedOf DEF Fits, AgentModel
<1>5. \A list \in ListsOf(n.kit) : List(n[list])
  BY <1>2, <1>3, MustsOf
<1> QED
  BY <1>2, <1>3, <1>4, <1>5 DEF Accepted

\* The roles that a line of a cart can have.
RoleNames == {"laptop", "desktop_build", "cpu", "gpu", "ram", "storage", "motherboard", "psu", "case", "monitor", "os"}

\* A line has one of the roles, or none that is known.
LEMMA RoleOf ==
    ASSUME NEW item
    PROVE  Role(item) \in RoleNames \cup {"unknown"}
<1> DEFINE places == {i \in DOMAIN RoleOrder : Needles[RoleOrder[i]] \cap item.text # {}}
           named == At(RoleOrder, places)
<1>1. RoleOrder \in Seq(RoleNames)
  BY DEF RoleOrder, RoleNames
<1>2. List(RoleOrder) /\ Elements(RoleOrder) \subseteq RoleNames
  BY <1>1, ElementsOf
<1>3. Role(item) = IF named = <<>> THEN "unknown" ELSE named[1]
  BY DEF Role, Only
<1>4. places \in SUBSET (1..Len(RoleOrder))
  BY <1>1
<1> HIDE DEF places
<1>5. ASSUME named # <<>> PROVE named[1] \in RoleNames
  <2>1. places # {}
    <3>1. SUFFICES ASSUME places = {} PROVE FALSE
      OBVIOUS
    <3>2. List(named) /\ Elements(named) = {RoleOrder[i] : i \in places}
      BY <1>2, <1>4, AtOf
    <3>3. Elements(named) = {}
      BY <3>1, <3>2
    <3>4. named \in Seq({})
      BY <3>2, <3>3 DEF List
    <3> QED
      BY <1>5, <3>3, <3>4, ElementsOf
  <2>2. PICK i \in places : named[1] = RoleOrder[i]
    BY <1>2, <1>4, <2>1, FirstAt
  <2>3. RoleOrder[i] \in RoleNames
    BY <1>1, <1>4, <2>2
  <2> QED
    BY <2>2, <2>3
<1> HIDE DEF named
<1> QED
  BY <1>3, <1>5

\* What is missing in a cart and what it has twice are different roles: eleven at most.
LEMMA RolesCounted ==
    ASSUME NEW r
    PROVE  /\ Cardinality(MissingSlots(r)) \in Nat /\ Cardinality(Duplicates(r)) \in Nat
           /\ Cardinality(MissingSlots(r)) + Cardinality(Duplicates(r)) <= 11
<1>1. Roles(r) \subseteq RoleNames
  BY RoleOf DEF Roles
<1>2. MissingSlots(r) \subseteq RoleNames /\ MissingSlots(r) \cap Roles(r) = {}
  BY DEF MissingSlots, RoleNames
<1>3. Duplicates(r) \subseteq Roles(r)
  BY DEF Duplicates
<1>4. \A S \in SUBSET RoleNames : IsFiniteSet(S) /\ Cardinality(S) \in 0..11
  <2> TAKE S \in SUBSET RoleNames
  <2>1. S \in SUBSET {"laptop", "desktop_build", "cpu", "gpu", "ram", "storage", "motherboard", "psu", "case",
                      "monitor", "os", "os"}
    BY DEF RoleNames
  <2>2. S \subseteq {"laptop", "desktop_build", "cpu", "gpu", "ram", "storage", "motherboard", "psu", "case",
                     "monitor", "os"}
    BY DEF RoleNames
  <2> QED
    BY <2>1, <2>2, Listed
<1> HIDE DEF RoleNames
<1>5. PICK M \in SUBSET RoleNames : M = MissingSlots(r)
  BY <1>2
<1>6. PICK D \in SUBSET RoleNames : D = Duplicates(r)
  BY <1>1, <1>3
<1>7. M \cap D = {} /\ M \cup D \in SUBSET RoleNames
  BY <1>2, <1>3, <1>5, <1>6
<1>8. IsFiniteSet(M) /\ IsFiniteSet(D) /\ Cardinality(M) \in Nat /\ Cardinality(D) \in Nat
  BY <1>4
<1>9. Cardinality(M \cup D) = Cardinality(M) + Cardinality(D) - Cardinality({})
  BY <1>7, <1>8, FS_Union
<1>10. Cardinality({}) = 0
  BY FS_EmptySet
<1>11. PICK x \in 0..11 : x = Cardinality(M \cup D)
  BY <1>4, <1>7
<1> QED
  BY <1>5, <1>6, <1>8, <1>9, <1>10, <1>11

\* What an ordinary cart hands over is accepted: at most nine doubtful lines and eleven roles.
LEMMA CartHands ==
    ASSUME NEW r, Accepted(r), Ordinary(r), r.kit = "cart", NEW n \in CartKit(r).handoffs
    PROVE  Accepted(n)
<1>1. n = CartToScanner(r) \/ n = CartToApproval(r)
  BY DEF CartKit, Answer
<1>2. r.budget \in Budget /\ CartTotal(r) \in Total \cup {None}
  BY BudgetOf DEF Ordinary
<1>3. List(r.items)
  <2>1. "items" \in ListsOf(r.kit)
    BY DEF ListsOf
  <2>2. List(r["items"])
    BY <2>1 DEF Accepted
  <2> QED
    BY <2>2
<1>4. CASE n = CartToScanner(r)
  <2>1. PICK texts : texts = [i \in DOMAIN r.items |-> r.items[i].text]
    OBVIOUS
  <2>2. PICK text : text = CartWords(r) \cup {"long30"}
    OBVIOUS
  <2>3. /\ n.kit = "scanner" /\ n.budget = r.budget /\ n.total = CartTotal(r)
        /\ n.ram = FirstSize(texts, Memories) /\ n.storage = DecodedStorage(text)
    BY <1>4, <2>1, <2>2 DEF CartToScanner, ToScanner, Each
  <2>4. List(texts)
    BY <1>3, <2>1, MappedOf
  <2>5. List(Memories) /\ Elements(Memories) \subseteq DOMAIN Size
    BY ThreeOf DEF Memories, Size
  <2>6. FirstSize(texts, Memories) \in {8, 16, 32, 512, 1, None}
    BY <2>4, <2>5, FirstSizeOf
  <2>7. n.ram \in RamSize \cup {None} /\ n.storage \in DiskSize \cup {None}
    BY <2>3, <2>6, SizesFit, DecodedOf
  <2> QED
    BY <1>2, <2>3, <2>7, AcceptsScanner
<1>5. CASE n = CartToApproval(r)
  <2>1. /\ n.kit = "approval" /\ n.budget = r.budget /\ n.total = CartTotal(r)
        /\ n.blockers = CartBlockers(r) /\ n.warnings = CartWarnings(r)
    BY <1>5 DEF CartToApproval
  <2>2. CartBlockers(r) \in Count
    <3>1. \A p : One(p) \in {0, 1}
      BY DEF One
    <3>2. PICK x \in {0, 1} : x = One(Over(CartTotal(r), r.budget))
      BY <3>1
    <3>3. PICK y \in {0, 1} : y = One(r.category = "desktop_pc" /\ {"cpu", "gpu"} \cap MissingSlots(r) # {})
      BY <3>1
    <3>4. PICK z \in {0, 1} : z = One(\A i \in DOMAIN r.items : LineStatus(r.items[i]) = "warning")
      BY <3>1
    <3>5. CartBlockers(r) = x + y + z
      BY <3>2, <3>3, <3>4 DEF CartBlockers
    <3> QED
      BY <3>5 DEF Count
  <2>3. CartWarnings(r) \in Count
    <3>1. PICK places : places = {i \in DOMAIN r.items : LineStatus(r.items[i]) = "warning"}
      OBVIOUS
    <3>2. PICK many \in Nat : many = Len(r.items) /\ many <= 9 /\ DOMAIN r.items = 1..many
      BY <1>3 DEF List, Ordinary
    <3>3. IsFiniteSet(1..many) /\ Cardinality(1..many) = many
      <4> HIDE <3>1, <3>2
      <4>1. Cardinality(1..many) = IF 1 > many THEN 0 ELSE many - 1 + 1
        BY FS_Interval
      <4>2. IsFiniteSet(1..many)
        BY FS_Interval
      <4> QED
        BY <4>1, <4>2
    <3>4. places \in SUBSET (1..many)
      BY <3>1, <3>2
    <3>5. PICK x \in Nat : x = Cardinality(places) /\ x <= 9
      <4>1. Cardinality(places) <= many /\ Cardinality(places) \in Nat
        BY <3>3, <3>4, FS_Subset, FS_CardinalityType
      <4> QED
        BY <3>2, <4>1
    <3>6. PICK y \in Nat : y = Cardinality(MissingSlots(r))
      BY RolesCounted
    <3>7. PICK z \in Nat : z = Cardinality(Duplicates(r))
      BY RolesCounted
    <3>8. y + z <= 11
      BY <3>6, <3>7, RolesCounted
    <3>9. CartWarnings(r) = x + y + z
      BY <3>1, <3>5, <3>6, <3>7 DEF CartWarnings
    <3> QED
      BY <3>5, <3>8, <3>9 DEF Count
  <2> QED
    BY <1>2, <2>1, <2>2, <2>3, AcceptsApproval
<1> QED
  BY <1>1, <1>4, <1>5

\* An answer fills in the requests that it says it does.
LEMMA HandoffsOf == \A verdict, score, checks, handoffs : Answer(verdict, score, checks, handoffs).handoffs = handoffs
  BY DEF Answer

\* The kits that fill in a request for another.
Handing == {"reply", "journey", "final", "lock", "triage", "review", "decoder", "terms", "cart", "page", "seller",
            "deal", "setup", "blueprint", "quiz", "consensus"}

\* The other kits fill in none.
LEMMA LastKits ==
    ASSUME NEW r, r.kit \in Kits \ (Handing \cup {"scanner"})
    PROVE  KitAnswer(r).handoffs = {}
<1>1. CASE r.kit \in {"execution", "reviewer", "nudge", "approval", "breakdown"}
  <2>1. KitAnswer(r) \in {ExecutionKit(r), ReviewerKit(r), NudgeKit(r), ApprovalKit(r), BreakdownKit(r)}
    BY <1>1 DEF KitAnswer
  <2> QED
    BY <2>1, HandoffsOf DEF ExecutionKit, ReviewerKit, NudgeKit, ApprovalKit, BreakdownKit
<1>2. CASE r.kit \in {"upgrade", "benchmark", "warranty", "ownership", "aftercare", "boot"}
  <2>1. KitAnswer(r) \in {UpgradeKit(r), BenchmarkKit(r), WarrantyKit(r), OwnershipKit(r), AftercareKit(r),
                         FirstBootKit(r)}
    BY <1>2 DEF KitAnswer
  <2> QED
    BY <2>1, HandoffsOf DEF UpgradeKit, BenchmarkKit, WarrantyKit, OwnershipKit, AftercareKit, FirstBootKit
<1>3. CASE r.kit \in {"defect", "outcome", "negotiation", "stress", "trust", "mistake"}
  <2>1. KitAnswer(r) \in {DefectKit(r), OutcomeKit(r), NegotiationKit(r), StressKit(r), TrustKit(r), MistakeKit(r)}
    BY <1>3 DEF KitAnswer
  <2> QED
    BY <2>1, HandoffsOf DEF DefectKit, OutcomeKit, NegotiationKit, StressKit, TrustKit, MistakeKit
<1>4. CASE r.kit \in {"analyze", "rescue", "checklist", "custom", "defense"}
  <2>1. KitAnswer(r) \in {AgentKit(r), RescueKit(r), ChecklistKit(r), CustomKit(r), DefenseKit(r)}
    BY <1>4 DEF KitAnswer
  <2>2. AgentKit(r).handoffs = {}
    BY HandoffsOf DEF AgentKit
  <2>3. RescueKit(r).handoffs = {} /\ ChecklistKit(r).handoffs = {}
    BY HandoffsOf DEF RescueKit, ChecklistKit
  <2>4. CustomKit(r).handoffs = {} /\ DefenseKit(r).handoffs = {}
    BY HandoffsOf DEF CustomKit, DefenseKit
  <2> QED
    BY <2>1, <2>2, <2>3, <2>4
<1>5. CASE r.kit \in {"compare", "timing", "watch"}
  <2>1. KitAnswer(r) \in {CompareKit(r), TimingKit(r), WatchKit(r)}
    BY <1>5 DEF KitAnswer
  <2>2. CompareKit(r).handoffs = {}
    BY HandoffsOf DEF CompareKit
  <2>3. TimingKit(r).handoffs = {} /\ WatchKit(r).handoffs = {}
    BY HandoffsOf DEF TimingKit, WatchKit
  <2> QED
    BY <2>1, <2>2, <2>3
<1> QED
  BY <1>1, <1>2, <1>3, <1>4, <1>5 DEF Kits, Handing

\* The scanner hands nothing over.
LEMMA ScannerLast ==
    ASSUME NEW r, r.kit = "scanner"
    PROVE  KitAnswer(r).handoffs = {}
<1>1. KitAnswer(r) = ScannerKit(r)
  BY DEF KitAnswer
<1> QED
  BY <1>1, HandoffsOf DEF ScannerKit, Failed

\* Whatever an ordinary request hands over is accepted.
LEMMA OrdinaryHands ==
    ASSUME NEW r, Accepted(r), Ordinary(r), NEW n \in KitAnswer(r).handoffs
    PROVE  Accepted(n)
<1>1. r.kit \in Kits
  BY DEF Accepted
<1>2. r.kit \in Handing
  BY <1>1, LastKits, ScannerLast
<1>3. CASE r.kit \in {"reply", "journey", "final", "lock"}
  <2>1. /\ r.kit = "reply" => KitAnswer(r) = ReplyKit(r)
        /\ r.kit = "journey" => KitAnswer(r) = JourneyKit(r)
        /\ r.kit = "final" => KitAnswer(r) = FinalKit(r)
        /\ r.kit = "lock" => KitAnswer(r) = LockKit(r)
    BY DEF KitAnswer
  <2> QED
    BY <1>3, <2>1, ReplyHands, JourneyHands, FinalHands, LockHands
<1>4. CASE r.kit \in {"triage", "review", "decoder", "terms", "cart"}
  <2>1. /\ r.kit = "triage" => KitAnswer(r) = TriageKit(r)
        /\ r.kit = "review" => KitAnswer(r) = ReviewKit(r)
        /\ r.kit = "decoder" => KitAnswer(r) = DecoderKit(r)
        /\ r.kit = "terms" => KitAnswer(r) = TermKit(r)
        /\ r.kit = "cart" => KitAnswer(r) = CartKit(r)
    BY DEF KitAnswer
  <2> QED
    BY <1>4, <2>1, TriageHands, ReviewHands, DecoderHands, TermsHand, CartHands
<1>5. CASE r.kit \in {"page", "seller", "deal"}
  <2>1. /\ r.kit = "page" => KitAnswer(r) = PageKit(r)
        /\ r.kit = "seller" => KitAnswer(r) = SellerKit(r)
        /\ r.kit = "deal" => KitAnswer(r) = DealKit(r)
    BY DEF KitAnswer
  <2> QED
    BY <1>5, <2>1, PageHands, SellerHands, DealHands
<1>6. CASE r.kit \in {"setup", "blueprint", "quiz", "consensus"}
  <2>1. /\ r.kit = "setup" => KitAnswer(r) = SetupKit(r)
        /\ r.kit = "blueprint" => KitAnswer(r) = BlueprintKit(r)
        /\ r.kit = "quiz" => KitAnswer(r) = QuizKit(r)
        /\ r.kit = "consensus" => KitAnswer(r) = ConsensusKit(r)
    BY DEF KitAnswer
  <2> QED
    BY <1>6, <2>1, SetupHands, BlueprintHands, QuizHands, ConsensusHands
<1> QED
  BY <1>2, <1>3, <1>4, <1>5, <1>6 DEF Handing

\* An ordinary request is answered, whatever the buyer posts and wherever the answers lead.
THEOREM OrdinaryAreAnswered == Spec => []OrdinaryIsAnswered
<1>1. ASSUME RequestAccepted PROVE OrdinaryIsAnswered
  <2>1. PICK r : r = request
    OBVIOUS
  <2>2. Accepted(r)
    BY <1>1, <2>1 DEF RequestAccepted
  <2>3. ASSUME Ordinary(r) PROVE AnswerTo(r).verdict # "failed"
    <3>1. \A n \in KitAnswer(r).handoffs : Accepted(n)
      BY <2>2, <2>3, OrdinaryHands
    <3>2. r.kit = "scanner" => r.total # None
      BY <2>3 DEF Ordinary
    <3>3. KitAnswer(r).verdict # "failed"
      BY <2>2, <3>2, KitsAnswer
    <3> QED
      BY <3>1, <3>3, AnswersItself
  <2> QED
    BY <2>1, <2>3 DEF OrdinaryIsAnswered, Answers
<1>2. Spec => []RequestAccepted
  BY RequestsAreAccepted
<1> QED
  BY <1>1, <1>2, PTL
=============================================================================
