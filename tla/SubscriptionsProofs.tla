------------------------- MODULE SubscriptionsProofs -------------------------
(***************************************************************************)
(* Proofs about Subscriptions, for any number of threads, handles and      *)
(* listen() calls: the gauge is exact, every registration has exactly one  *)
(* owner, and the listeners are called in the order asked for.             *)
(***************************************************************************)
EXTENDS Subscriptions, SequenceTheorems, FiniteSetTheorems, TLAPS

Entry == [id : 1..MaxId, priority : Int, route : Route, asked : Int, after : SUBSET (1..MaxId)]
RegType == [id : 0..MaxId, priority : Int, route : Route, asked : Int, after : SUBSET (1..MaxId)]
Active(t) == pc[t] # "idle"
Entered(t) == pc[t] \notin {"idle", "insert"}

\* The types, with what a thread is about to insert: an entry whose id is in use
\* by nobody else, and larger than none that listen() has handed out.
RegTypes ==
    /\ reg \in [Threads -> RegType]
    /\ \A t \in Threads : Active(t) => reg[t].id \in 1..next_id
    /\ \A t, u \in Threads : Active(t) /\ Active(u) /\ reg[t].id = reg[u].id => t = u
    /\ \A h \in Handles : handle[h].active => handle[h].id \in 1..next_id
    /\ detached \subseteq 1..next_id
    /\ \A i \in 1..Len(listeners) : listeners[i].id \in 1..next_id

\* Ids are unique, and priorities ascend.
ListSorted ==
    \A i, j \in 1..Len(listeners) :
        /\ listeners[i].id = listeners[j].id => i = j
        /\ i < j => listeners[i].priority <= listeners[j].priority

\* An id belongs to at most one of: a handle, a listen() under way, detach().
Exclusive ==
    /\ \A g, h \in Handles :
          handle[g].active /\ handle[h].active /\ handle[g].id = handle[h].id => g = h
    /\ \A h \in Handles, t \in Threads :
          handle[h].active /\ Active(t) => handle[h].id # reg[t].id
    /\ \A h \in Handles : handle[h].active => handle[h].id \notin detached /\ handle[h].backref
    /\ \A t \in Threads : Active(t) => reg[t].id \notin detached

\* While the bus lives, what is owned is registered, and what is registered owned.
Owned ==
    alive =>
      /\ \A h \in Handles : handle[h].active => handle[h].id \in Ids
      /\ \A t \in Threads : Entered(t) => reg[t].id \in Ids
      /\ \A t \in Threads : pc[t] = "insert" => reg[t].id \notin Ids
      /\ detached \subseteq Ids
      /\ \A id \in Ids : \/ \E h \in Handles : handle[h].active /\ handle[h].id = id
                         \/ \E t \in Threads : Entered(t) /\ reg[t].id = id
                         \/ id \in detached

\* The bus is destroyed when nobody is inside it and no handle is active.
Quiet ==
    ~alive => /\ \A t \in Threads : pc[t] = "idle"
              /\ \A h \in Handles : ~handle[h].active

IndInv == TypeOK /\ RegTypes /\ ListSorted /\ Exclusive /\ Owned /\ Quiet /\ GaugeExact

\* What the order of calls rests on: the stored priority is the one asked for,
\* but for subscribers; nobody began after a listener that is not yet inserted;
\* and among equals nobody stands before one that it began after.
AsAsked(e) == e.route # "subscriber" => e.asked = e.priority
Ordered ==
    /\ \A i \in 1..Len(listeners) : AsAsked(listeners[i])
    /\ \A t \in Threads : Active(t) => AsAsked(reg[t])
    /\ \A i \in 1..Len(listeners) : listeners[i].after \subseteq 1..next_id
    /\ \A t \in Threads : Active(t) => reg[t].after \subseteq 1..next_id
    /\ \A t \in Threads : pc[t] = "insert" =>
          /\ \A i \in 1..Len(listeners) : reg[t].id \notin listeners[i].after
          /\ \A u \in Threads : Active(u) => reg[t].id \notin reg[u].after
    /\ \A i, j \in 1..Len(listeners) :
          i < j /\ listeners[i].priority = listeners[j].priority
              => listeners[j].id \notin listeners[i].after

-----------------------------------------------------------------------------
(* The container *)

\* InsertAt, which models comms::PrioritizedSet::insert: one element longer, with
\* the elements from position i on moved up by one.
LEMMA InsertAtProperties ==
    ASSUME NEW S, NEW s \in Seq(S), NEW x \in S, NEW i \in 1..Len(s) + 1
    PROVE  /\ InsertAt(s, i, x) \in Seq(S)
           /\ Len(InsertAt(s, i, x)) = Len(s) + 1
           /\ \A j \in 1..Len(s) + 1 :
                 InsertAt(s, i, x)[j] = IF j < i THEN s[j] ELSE IF j = i THEN x ELSE s[j - 1]
<1> DEFINE a == SubSeq(s, 1, i - 1)
           c == SubSeq(s, i, Len(s))
           t == InsertAt(s, i, x)
<1>1. Len(s) \in Nat /\ i \in Nat
  BY LenProperties
<1>2. a \in Seq(S) /\ Len(a) = i - 1 /\ \A j \in 1..i - 1 : a[j] = s[j]
  BY <1>1, SubSeqProperties
<1>3. c \in Seq(S) /\ Len(c) = Len(s) - i + 1 /\ \A j \in 1..Len(s) - i + 1 : c[j] = s[i + j - 1]
  BY <1>1, SubSeqProperties
<1>4. t = (a \o <<x>>) \o c
  BY DEF InsertAt
<1> HIDE DEF a, c, t
<1>5. t \in Seq(S)
  BY <1>2, <1>3, <1>4
<1>6. Len(t) = Len(s) + 1
  <2>1. a \in Seq(S) /\ c \in Seq(S)
    BY <1>2, <1>3
  <2>2. Len(t) = (Len(a) + 1) + Len(c)
    BY <2>1, <1>4
  <2> QED  BY <2>2, <1>1, <1>2, <1>3
<1>7. ASSUME NEW j \in 1..Len(s) + 1
      PROVE  t[j] = IF j < i THEN s[j] ELSE IF j = i THEN x ELSE s[j - 1]
  <2>1. CASE j < i
    BY <2>1, <1>1, <1>2, <1>3, <1>4
  <2>2. CASE j = i
    BY <2>2, <1>1, <1>2, <1>3, <1>4
  <2>3. CASE j > i
    <3>1. t[j] = c[j - i]
      BY <2>3, <1>1, <1>2, <1>3, <1>4
    <3>2. c[j - i] = s[j - 1]
      BY <2>3, <1>1, <1>3
    <3> QED  BY <2>3, <3>1, <3>2, <1>1
  <2> QED  BY <2>1, <2>2, <2>3, <1>1
<1> QED  BY <1>5, <1>6, <1>7 DEF t

\* RemoveAt, which models an erase: one element shorter, with the elements
\* behind position i moved down by one.
LEMMA RemoveAtProperties ==
    ASSUME NEW S, NEW s \in Seq(S), NEW i \in 1..Len(s)
    PROVE  /\ RemoveAt(s, i) \in Seq(S)
           /\ Len(RemoveAt(s, i)) = Len(s) - 1
           /\ \A j \in 1..Len(s) - 1 : RemoveAt(s, i)[j] = IF j < i THEN s[j] ELSE s[j + 1]
<1> DEFINE a == SubSeq(s, 1, i - 1)
           c == SubSeq(s, i + 1, Len(s))
           t == RemoveAt(s, i)
<1>1. Len(s) \in Nat /\ i \in Nat
  BY LenProperties
<1>2. a \in Seq(S) /\ Len(a) = i - 1 /\ \A j \in 1..i - 1 : a[j] = s[j]
  BY <1>1, SubSeqProperties
<1>3. c \in Seq(S) /\ Len(c) = Len(s) - i /\ \A j \in 1..Len(s) - i : c[j] = s[i + j]
  BY <1>1, SubSeqProperties
<1>4. t = a \o c
  BY DEF RemoveAt
<1> HIDE DEF a, c, t
<1>5. t \in Seq(S)
  BY <1>2, <1>3, <1>4
<1>6. Len(t) = Len(s) - 1
  <2>1. a \in Seq(S) /\ c \in Seq(S)
    BY <1>2, <1>3
  <2>2. Len(t) = Len(a) + Len(c)
    BY <2>1, <1>4
  <2> QED  BY <2>2, <1>1, <1>2, <1>3
<1>7. ASSUME NEW j \in 1..Len(s) - 1
      PROVE  t[j] = IF j < i THEN s[j] ELSE s[j + 1]
  <2>1. CASE j < i
    BY <2>1, <1>1, <1>2, <1>3, <1>4
  <2>2. CASE j >= i
    <3>1. t[j] = c[j - i + 1]
      BY <2>2, <1>1, <1>2, <1>3, <1>4
    <3>2. c[j - i + 1] = s[j + 1]
      BY <2>2, <1>1, <1>3
    <3> QED  BY <2>2, <3>1, <3>2, <1>1
  <2> QED  BY <2>1, <2>2, <1>1
<1> QED  BY <1>5, <1>6, <1>7 DEF t

IdsOf(s) == {s[i].id : i \in 1..Len(s)}
Sorted(s) ==
    \A i, j \in 1..Len(s) : /\ s[i].id = s[j].id => i = j
                            /\ i < j => s[i].priority <= s[j].priority

\* PrioritizedSet::insert keeps the order, and adds the new id only.
LEMMA InsertSorted ==
    ASSUME NEW s \in Seq(Entry), Sorted(s), NEW x \in Entry, x.id \notin IdsOf(s),
           NEW n \in 1..Len(s) + 1,
           \A i \in 1..n - 1 : s[i].priority <= x.priority,
           \A i \in n..Len(s) : s[i].priority > x.priority
    PROVE  /\ InsertAt(s, n, x) \in Seq(Entry) /\ Sorted(InsertAt(s, n, x))
           /\ Len(InsertAt(s, n, x)) = Len(s) + 1
           /\ IdsOf(InsertAt(s, n, x)) = IdsOf(s) \cup {x.id}
<1> DEFINE r == InsertAt(s, n, x)
<1>1. /\ r \in Seq(Entry) /\ Len(r) = Len(s) + 1
      /\ \A j \in 1..Len(s) + 1 : r[j] = IF j < n THEN s[j] ELSE IF j = n THEN x ELSE s[j - 1]
  BY InsertAtProperties
<1>2. Len(s) \in Nat /\ n \in Nat /\ n <= Len(s) + 1 /\ \A i \in 1..Len(s) : s[i] \in Entry
  BY LenProperties, ElementOfSeq
<1> HIDE DEF r
<1>3. IdsOf(r) \subseteq IdsOf(s) \cup {x.id}
  BY <1>1, <1>2 DEF IdsOf
<1>4. x.id \in IdsOf(r)
  BY <1>1, <1>2 DEF IdsOf
<1>5. ASSUME NEW i \in 1..Len(s)  PROVE s[i].id \in IdsOf(r)
  <2>1. CASE i < n
    BY <2>1, <1>1, <1>2 DEF IdsOf
  <2>2. CASE i >= n
    <3>1. i + 1 \in 1..Len(r) /\ r[i + 1] = s[i]
      BY <2>2, <1>1, <1>2
    <3> QED  BY <3>1 DEF IdsOf
  <2> QED  BY <2>1, <2>2, <1>2
<1>6. Sorted(r)
  <2> SUFFICES ASSUME NEW i \in 1..Len(r), NEW j \in 1..Len(r)
               PROVE  /\ r[i].id = r[j].id => i = j
                      /\ i < j => r[i].priority <= r[j].priority
    BY DEF Sorted
  <2>1. \A k \in 1..Len(s) : s[k].id # x.id
    BY DEF IdsOf
  <2>2. \A k \in 1..Len(s) : s[k].priority \in Int /\ x.priority \in Int
    BY <1>2 DEF Entry
  <2> DEFINE Src(k) == IF k < n THEN k ELSE k - 1
  <2>3. ASSUME NEW k \in 1..Len(r), k # n  PROVE Src(k) \in 1..Len(s) /\ r[k] = s[Src(k)]
    BY <2>3, <1>1, <1>2
  <2>4. r[n] = x /\ n \in 1..Len(r)
    BY <1>1, <1>2
  <2>5. CASE i = n /\ j # n
    <3>1. r[j] = s[Src(j)] /\ Src(j) \in 1..Len(s) /\ (i < j => Src(j) \in n..Len(s))
      BY <2>3, <2>5, <1>1, <1>2
    <3> QED  BY <3>1, <2>1, <2>2, <2>4, <2>5
  <2>6. CASE i # n /\ j = n
    <3>1. r[i] = s[Src(i)] /\ Src(i) \in 1..Len(s) /\ (i < j => Src(i) \in 1..n - 1)
      BY <2>3, <2>6, <1>1, <1>2
    <3> QED  BY <3>1, <2>1, <2>2, <2>4, <2>6
  <2>7. CASE i # n /\ j # n
    <3>1. /\ r[i] = s[Src(i)] /\ Src(i) \in 1..Len(s) /\ r[j] = s[Src(j)] /\ Src(j) \in 1..Len(s)
          /\ Src(i) = Src(j) => i = j
          /\ i < j => Src(i) < Src(j)
      BY <2>3, <2>7, <1>1, <1>2
    <3> QED  BY <3>1 DEF Sorted
  <2>8. CASE i = n /\ j = n
    BY <2>8
  <2> QED  BY <2>5, <2>6, <2>7, <2>8
<1> QED  BY <1>1, <1>3, <1>4, <1>5, <1>6 DEF r, IdsOf

\* erase() keeps the order, and takes out one id only.
LEMMA RemoveSorted ==
    ASSUME NEW s \in Seq(Entry), Sorted(s), NEW n \in 1..Len(s)
    PROVE  /\ RemoveAt(s, n) \in Seq(Entry) /\ Sorted(RemoveAt(s, n))
           /\ Len(RemoveAt(s, n)) = Len(s) - 1
           /\ IdsOf(RemoveAt(s, n)) = IdsOf(s) \ {s[n].id}
<1> DEFINE r == RemoveAt(s, n)
<1>1. /\ r \in Seq(Entry) /\ Len(r) = Len(s) - 1
      /\ \A j \in 1..Len(s) - 1 : r[j] = IF j < n THEN s[j] ELSE s[j + 1]
  BY RemoveAtProperties
<1>2. Len(s) \in Nat /\ n \in Nat /\ n <= Len(s)
  BY LenProperties
<1> HIDE DEF r
<1>3. IdsOf(r) \subseteq IdsOf(s) \ {s[n].id}
  <2> SUFFICES ASSUME NEW j \in 1..Len(r)  PROVE r[j].id \in IdsOf(s) /\ r[j].id # s[n].id
    BY DEF IdsOf
  <2>1. CASE j < n
    BY <2>1, <1>1, <1>2 DEF IdsOf, Sorted
  <2>2. CASE j >= n
    <3>1. r[j] = s[j + 1] /\ j + 1 \in 1..Len(s) /\ j + 1 # n
      BY <2>2, <1>1, <1>2
    <3> QED  BY <3>1 DEF IdsOf, Sorted
  <2> QED  BY <2>1, <2>2, <1>2
<1>4. ASSUME NEW i \in 1..Len(s), i # n  PROVE s[i].id \in IdsOf(r)
  <2>1. CASE i < n
    BY <2>1, <1>1, <1>2 DEF IdsOf
  <2>2. CASE i > n
    <3>1. i - 1 \in 1..Len(r) /\ r[i - 1] = s[i]
      BY <2>2, <1>1, <1>2
    <3> QED  BY <3>1 DEF IdsOf
  <2> QED  BY <2>1, <2>2, <1>2, <1>4
<1>5. Sorted(r)
  <2> SUFFICES ASSUME NEW i \in 1..Len(r), NEW j \in 1..Len(r)
               PROVE  /\ r[i].id = r[j].id => i = j
                      /\ i < j => r[i].priority <= r[j].priority
    BY DEF Sorted
  <2> DEFINE Src(k) == IF k < n THEN k ELSE k + 1
  <2>1. ASSUME NEW k \in 1..Len(r)  PROVE Src(k) \in 1..Len(s) /\ r[k] = s[Src(k)]
    BY <1>1, <1>2
  <2>2. (Src(i) = Src(j) => i = j) /\ (i < j => Src(i) < Src(j))
    BY <1>1, <1>2
  <2> HIDE DEF Src
  <2> QED  BY <2>1, <2>2 DEF Sorted
<1> QED  BY <1>1, <1>3, <1>4, <1>5 DEF r, IdsOf
-----------------------------------------------------------------------------
(* The inductive invariant *)

Counting == {t \in Threads : pc[t] = "count"}

\* Threads that neither enter nor leave "count" do not move the gauge.
LEMMA CountingFinite == IsFiniteSet(Counting) /\ Cardinality(Counting) \in Nat
  BY FiniteAssumption, FS_Subset, FS_CardinalityType DEF Counting

\* The invariant holds of a new bus without listeners.
LEMMA InitInv == Init => IndInv /\ Ordered
<1> SUFFICES ASSUME Init  PROVE IndInv /\ Ordered
  OBVIOUS
<1> USE DEF Init, NoEntry, Empty, Route
<1>1. TypeOK
  <2>1. listeners \in Seq(Entry)
    OBVIOUS
  <2>2. handle \in [Handles -> [id : 0..MaxId, active : BOOLEAN, backref : BOOLEAN]]
    BY BoundAssumption
  <2>3. next_id \in 0..MaxId /\ gauge \in Int /\ detached \in SUBSET (1..MaxId)
    BY BoundAssumption
  <2>4. pc \in [Threads -> {"idle", "insert", "count", "alias", "assign"}]
    OBVIOUS
  <2>5. alias \in BOOLEAN /\ alive \in BOOLEAN
    OBVIOUS
  <2> QED  BY <2>1, <2>2, <2>3, <2>4, <2>5 DEF TypeOK, Entry
<1>2. RegTypes
  BY RoutesAssumption, BoundAssumption DEF RegTypes, RegType, Active
<1>3. ListSorted /\ Exclusive /\ Owned /\ Quiet
  BY DEF ListSorted, Exclusive, Owned, Quiet, Ids, Active, Entered
<1>4. GaugeExact
  <2>1. Counting = {}
    BY DEF Counting
  <2>2. Cardinality(Counting) = 0 /\ Len(listeners) = 0
    BY <2>1, FS_EmptySet
  <2> QED  BY <2>2 DEF GaugeExact, Counting
<1>5. Ordered
  BY DEF Ordered, Active
<1> QED  BY <1>1, <1>2, <1>3, <1>4, <1>5 DEF IndInv

\* Subscription::release() takes the id it holds, and nothing else, out of the
\* container and off the gauge.
LEMMA ReleaseEffect ==
    ASSUME IndInv, NEW h \in Handles, ReleaseHeld(h)
    PROVE  /\ listeners' \in Seq(Entry) /\ ListSorted'
           /\ gauge' \in Int /\ Len(listeners') - gauge' = Len(listeners) - gauge
           /\ Ids' = IF handle[h].active THEN Ids \ {handle[h].id} ELSE Ids
<1>1. /\ listeners \in Seq(Entry) /\ gauge \in Int /\ Sorted(listeners)
      /\ handle[h].active \in BOOLEAN /\ handle[h].active => handle[h].backref
  BY DEF IndInv, TypeOK, Entry, ListSorted, Sorted, Exclusive
<1>2. Len(listeners) \in Nat
  BY <1>1, LenProperties
<1>3. CASE ~handle[h].active \/ handle[h].id \notin Ids
  BY <1>1, <1>2, <1>3 DEF ReleaseHeld, BusRelease, Ids, ListSorted, Sorted
<1>4. CASE handle[h].active /\ handle[h].id \in Ids
  <2>1. PICK n \in 1..Len(listeners) : /\ listeners[n].id = handle[h].id
                                       /\ listeners' = RemoveAt(listeners, n)
    BY <1>1, <1>4 DEF ReleaseHeld, BusRelease
  <2>2. gauge' = gauge - 1
    BY <1>1, <1>4 DEF ReleaseHeld, BusRelease
  <2>3. /\ listeners' \in Seq(Entry) /\ Sorted(listeners')
        /\ Len(listeners') = Len(listeners) - 1
        /\ IdsOf(listeners') = IdsOf(listeners) \ {listeners[n].id}
    BY <1>1, <2>1, RemoveSorted
  <2>4. ListSorted'
    BY <2>3 DEF ListSorted, Sorted
  <2>5. Ids' = Ids \ {handle[h].id}
    BY <2>1, <2>3 DEF Ids, IdsOf
  <2> QED  BY <1>1, <1>2, <1>4, <2>2, <2>3, <2>4, <2>5
<1> QED  BY <1>1, <1>3, <1>4

\* listen() takes a fresh id, so it shares it with nobody.
LEMMA ListenStep ==
    ASSUME IndInv, NEW t \in Threads, NEW r \in Routes, NEW x \in Explicit(r), Listen(t, r, x)
    PROVE  IndInv'
<1>1. /\ next_id \in Nat /\ MaxId \in Nat
      /\ next_id < MaxId /\ next_id' = next_id + 1 /\ next_id' <= MaxId
  BY BoundAssumption DEF IndInv, TypeOK, Listen
<1>2. /\ reg' = [reg EXCEPT ![t] = reg'[t]] /\ reg'[t].id = next_id'
      /\ reg'[t] \in RegType
  <2> DEFINE e == [id |-> next_id + 1, route |-> r, priority |-> EffectivePriority(r, x),
                   asked |-> Asked(r, x), after |-> Ids]
  <2>1. reg' = [reg EXCEPT ![t] = e] /\ reg \in [Threads -> RegType]
    BY DEF IndInv, RegTypes, Listen
  <2>2. EffectivePriority(r, x) \in Int /\ Asked(r, x) \in Int /\ r \in Route
    BY RoutesAssumption DEF Explicit, EffectivePriority, Asked, Route
  <2>3. Ids \in SUBSET (1..MaxId)
    BY <1>1 DEF IndInv, RegTypes, Ids
  <2>4. next_id + 1 \in 0..MaxId
    BY <1>1
  <2>5. e \in RegType /\ e.id = next_id + 1
    BY <2>2, <2>3, <2>4 DEF RegType
  <2> QED  BY <1>1, <2>1, <2>5
<1>3. /\ pc[t] = "idle" /\ pc' = [pc EXCEPT ![t] = "insert"] /\ alive
      /\ UNCHANGED <<listeners, gauge, alias, alive, handle, detached>>
  BY DEF Listen
<1>4. \A u \in Threads : pc'[u] = IF u = t THEN "insert" ELSE pc[u]
  BY <1>3 DEF IndInv, TypeOK
<1>5. \A u \in Threads : u # t => reg'[u] = reg[u]
  BY <1>2 DEF IndInv, RegTypes
<1>6. TypeOK'
  BY <1>1, <1>3 DEF IndInv, TypeOK
<1>7. RegTypes'
  <2>1. \A u \in Threads : Active(u) /\ u # t => reg[u].id \in 1..next_id
    BY DEF IndInv, RegTypes
  <2>2. reg' \in [Threads -> RegType]
    BY <1>2 DEF IndInv, RegTypes
  <2>3. \A u \in Threads : Active(u)' => reg'[u].id \in 1..next_id'
    BY <1>1, <1>2, <1>4, <1>5, <2>1 DEF Active
  <2>4. \A u, v \in Threads : Active(u)' /\ Active(v)' /\ reg'[u].id = reg'[v].id => u = v
    <3>1. \A u \in Threads : Active(u)' /\ u # t
              => Active(u) /\ reg'[u].id = reg[u].id /\ reg[u].id # reg'[t].id
      BY <1>1, <1>2, <1>4, <1>5, <2>1 DEF Active
    <3>2. \A u, v \in Threads : Active(u) /\ Active(v) /\ reg[u].id = reg[v].id => u = v
      BY DEF IndInv, RegTypes
    <3> QED  BY <3>1, <3>2
  <2>5. 1..next_id \subseteq 1..next_id'
    BY <1>1
  <2> QED  BY <1>3, <2>2, <2>3, <2>4, <2>5 DEF IndInv, RegTypes
<1>8. ListSorted'
  BY <1>3 DEF IndInv, ListSorted
<1>9. Exclusive'
  BY <1>1, <1>2, <1>3, <1>4, <1>5 DEF IndInv, Exclusive, RegTypes, Active
<1>10. Owned'
  <2>1. next_id' \notin Ids
    BY <1>1 DEF IndInv, RegTypes, Ids
  <2> QED  BY <1>2, <1>3, <1>4, <1>5, <2>1 DEF IndInv, Owned, Entered, Ids
<1>11. Quiet'
  BY <1>3 DEF IndInv, Quiet
<1>12. GaugeExact'
  <2>1. {u \in Threads : pc'[u] = "count"} = {u \in Threads : pc[u] = "count"}
    BY <1>3, <1>4
  <2> QED  BY <1>3, <2>1 DEF IndInv, GaugeExact
<1> QED  BY <1>6, <1>7, <1>8, <1>9, <1>10, <1>11, <1>12 DEF IndInv

\* The insertion under mu_ keeps the list sorted; the gauge lags by this one entry
\* until Count.
LEMMA InsertStep ==
    ASSUME IndInv, NEW t \in Threads, InsertEntry(t)
    PROVE  IndInv'
<1>1. /\ pc[t] = "insert" /\ pc' = [pc EXCEPT ![t] = "count"]
      /\ UNCHANGED <<next_id, gauge, alias, alive, reg, handle, detached>>
  BY DEF InsertEntry
<1>2. \A u \in Threads : pc'[u] = IF u = t THEN "count" ELSE pc[u]
  BY <1>1 DEF IndInv, TypeOK
<1>3. alive /\ reg[t].id \notin Ids /\ reg[t].id \in 1..next_id
  BY <1>1 DEF IndInv, Quiet, Owned, RegTypes, Active
<1>4. reg[t] \in Entry
  BY <1>3, BoundAssumption DEF IndInv, RegTypes, RegType, TypeOK, Entry
<1>5. PICK n \in 1..Len(listeners) + 1 :
         /\ \A i \in 1..n - 1 : listeners[i].priority <= reg[t].priority
         /\ \A i \in n..Len(listeners) : listeners[i].priority > reg[t].priority
         /\ listeners' = InsertAt(listeners, n, reg[t])
  BY DEF InsertEntry
<1>6. listeners \in Seq(Entry) /\ Sorted(listeners)
  BY DEF IndInv, TypeOK, Entry, ListSorted, Sorted
<1>7. /\ listeners' \in Seq(Entry) /\ Sorted(listeners') /\ Len(listeners') = Len(listeners) + 1
      /\ IdsOf(listeners') = IdsOf(listeners) \cup {reg[t].id}
  <2>1. reg[t].id \notin IdsOf(listeners)
    BY <1>3 DEF Ids, IdsOf
  <2> QED  BY <2>1, <1>4, <1>5, <1>6, InsertSorted
<1>8. Ids' = Ids \cup {reg[t].id}
  BY <1>7 DEF Ids, IdsOf
<1>9. TypeOK'
  BY <1>1, <1>7 DEF IndInv, TypeOK, Entry
<1>10. RegTypes'
  <2>1. \A i \in 1..Len(listeners') : listeners'[i].id \in 1..next_id
    BY <1>3, <1>8 DEF IndInv, RegTypes, Ids
  <2> QED  BY <1>1, <1>2, <2>1 DEF IndInv, RegTypes, Active
<1>11. ListSorted'
  BY <1>7 DEF ListSorted, Sorted
<1>12. Exclusive'
  BY <1>1, <1>2 DEF IndInv, Exclusive, Active
<1>13. Owned'
  <2>1. \A u \in Threads : u # t /\ pc[u] = "insert" => reg[u].id # reg[t].id
    BY <1>1 DEF IndInv, RegTypes, Active
  <2> QED  BY <1>1, <1>2, <1>3, <1>8, <2>1 DEF IndInv, Owned, Entered
<1>14. Quiet'
  BY <1>1, <1>3 DEF Quiet
<1>15. GaugeExact'
  <2>1. Counting' = Counting \cup {t} /\ t \notin Counting
    BY <1>1, <1>2 DEF Counting
  <2>2. Cardinality(Counting') = Cardinality(Counting) + 1
    BY <2>1, CountingFinite, FS_AddElement
  <2>3. Len(listeners) \in Nat
    BY <1>6, LenProperties
  <2> QED  BY <1>1, <1>7, <2>2, <2>3, CountingFinite DEF IndInv, GaugeExact, Counting, TypeOK
<1> QED  BY <1>9, <1>10, <1>11, <1>12, <1>13, <1>14, <1>15 DEF IndInv
\* Steps of listen() that move pc of t only, not into or out of "count".
LEMMA PcStep ==
    ASSUME IndInv, NEW t \in Threads, pc[t] \notin {"idle", "insert", "count"},
           pc'[t] \in {"alias", "assign"}, pc' = [pc EXCEPT ![t] = pc'[t]],
           UNCHANGED <<next_id, listeners, gauge, alive, reg, handle, detached>>, alias' \in BOOLEAN
    PROVE  IndInv'
<1>1. \A u \in Threads : pc'[u] = IF u = t THEN pc'[t] ELSE pc[u]
  BY DEF IndInv, TypeOK
<1>2. \A u \in Threads : /\ Active(u)' <=> Active(u)
                         /\ Entered(u)' <=> Entered(u)
                         /\ pc'[u] = "insert" <=> pc[u] = "insert"
                         /\ pc'[u] = "count" <=> pc[u] = "count"
  BY <1>1 DEF Active, Entered
<1>3. TypeOK'
  BY DEF IndInv, TypeOK
<1>4. RegTypes'
  BY <1>2 DEF IndInv, RegTypes
<1>5. ListSorted'
  BY DEF IndInv, ListSorted
<1>6. Exclusive'
  BY <1>2 DEF IndInv, Exclusive
<1>7. Owned'
  BY <1>2 DEF IndInv, Owned, Ids
<1>8. Quiet'
  BY <1>2 DEF IndInv, Quiet
<1>9. GaugeExact'
  <2>1. Counting' = Counting
    BY <1>2 DEF Counting
  <2> QED  BY <2>1 DEF IndInv, GaugeExact, Counting
<1> QED  BY <1>3, <1>4, <1>5, <1>6, <1>7, <1>8, <1>9 DEF IndInv

\* The increment after the insertion settles what the gauge lagged behind.
LEMMA CountStep ==
    ASSUME IndInv, NEW t \in Threads, Count(t)
    PROVE  IndInv'
<1>1. /\ pc[t] = "count" /\ pc' = [pc EXCEPT ![t] = "alias"] /\ gauge' = gauge + 1
      /\ UNCHANGED <<next_id, listeners, alias, alive, reg, handle, detached>>
  BY DEF Count
<1>2. \A u \in Threads : pc'[u] = IF u = t THEN "alias" ELSE pc[u]
  BY <1>1 DEF IndInv, TypeOK
<1>3. \A u \in Threads : /\ Active(u)' <=> Active(u)
                         /\ Entered(u)' <=> Entered(u)
                         /\ pc'[u] = "insert" <=> pc[u] = "insert"
  BY <1>1, <1>2 DEF Active, Entered
<1>4. TypeOK'
  BY <1>1 DEF IndInv, TypeOK
<1>5. RegTypes' /\ ListSorted'
  BY <1>1, <1>3 DEF IndInv, RegTypes, ListSorted
<1>6. Exclusive'
  BY <1>1, <1>3 DEF IndInv, Exclusive
<1>7. Owned'
  BY <1>1, <1>3 DEF IndInv, Owned, Ids
<1>8. Quiet'
  BY <1>1, <1>2 DEF IndInv, Quiet
<1>9. GaugeExact'
  <2>1. Counting' = Counting \ {t} /\ t \in Counting
    BY <1>1, <1>2 DEF Counting
  <2>2. Cardinality(Counting') = Cardinality(Counting) - 1
    BY <2>1, CountingFinite, FS_RemoveElement
  <2>3. Len(listeners) \in Nat
    BY LenProperties DEF IndInv, TypeOK
  <2> QED  BY <1>1, <2>2, <2>3, CountingFinite DEF IndInv, GaugeExact, Counting, TypeOK
<1> QED  BY <1>4, <1>5, <1>6, <1>7, <1>8, <1>9 DEF IndInv

\* What an operation on handles does to the rest: t, the caller, may have left
\* listen(); h's registration is gone, if it held one.
LEMMA AssignStep ==
    ASSUME IndInv, NEW h \in Handles, Assign(h)
    PROVE  IndInv'
<1> DEFINE t == OwnerOf[h]
           New == [id |-> reg[t].id, active |-> TRUE, backref |-> TRUE]
<1>1. /\ t \in Threads /\ pc[t] = "assign" /\ pc' = [pc EXCEPT ![t] = "idle"]
      /\ reg' = [reg EXCEPT ![t] = NoEntry] /\ handle' = [handle EXCEPT ![h] = New]
      /\ ReleaseHeld(h) /\ UNCHANGED <<next_id, alias, alive, detached>>
  BY HandlesAssumption DEF Assign
<1>2. /\ listeners' \in Seq(Entry) /\ ListSorted'
      /\ gauge' \in Int /\ Len(listeners') - gauge' = Len(listeners) - gauge
      /\ Ids' = IF handle[h].active THEN Ids \ {handle[h].id} ELSE Ids
  BY <1>1, ReleaseEffect
<1> HIDE DEF t
<1>3. \A u \in Threads : /\ pc'[u] = IF u = t THEN "idle" ELSE pc[u]
                         /\ u # t => reg'[u] = reg[u]
  BY <1>1 DEF IndInv, TypeOK, RegTypes
<1>4. \A g \in Handles : handle'[g] = IF g = h THEN New ELSE handle[g]
  BY <1>1 DEF IndInv, TypeOK
<1>5. /\ alive /\ reg[t].id \in Ids /\ reg[t].id \in 1..next_id /\ reg[t].id \notin detached
      /\ \A g \in Handles : handle[g].active => handle[g].id # reg[t].id
      /\ \A u \in Threads : Active(u) /\ u # t => reg[u].id # reg[t].id
  BY <1>1 DEF IndInv, Owned, Exclusive, Quiet, RegTypes, Active, Entered
<1>6. /\ \A g \in Handles : handle[h].active /\ handle[g].active /\ g # h => handle[g].id # handle[h].id
      /\ \A u \in Threads : handle[h].active /\ Active(u) => reg[u].id # handle[h].id
      /\ handle[h].active => handle[h].id \notin detached
  BY DEF IndInv, Exclusive
<1>7. TypeOK'
  <2>1. handle' \in [Handles -> [id : 0..MaxId, active : BOOLEAN, backref : BOOLEAN]]
    <3>1. New \in [id : 0..MaxId, active : BOOLEAN, backref : BOOLEAN]
      BY <1>1 DEF IndInv, RegTypes, RegType
    <3> QED  BY <1>1, <3>1 DEF IndInv, TypeOK
  <2> QED  BY <1>1, <1>2, <2>1 DEF IndInv, TypeOK, Entry
<1>8. RegTypes'
  <2>1. reg' \in [Threads -> RegType]
    <3>1. NoEntry \in RegType
      BY BoundAssumption, RoutesAssumption DEF NoEntry, RegType, Route
    <3> QED  BY <1>1, <3>1 DEF IndInv, RegTypes
  <2>2. Ids' \subseteq 1..next_id
    <3>1. Ids \subseteq 1..next_id
      BY DEF IndInv, RegTypes, Ids
    <3> QED  BY <1>2, <3>1
  <2>3. \A i \in 1..Len(listeners') : listeners'[i].id \in 1..next_id
    BY <2>2 DEF Ids
  <2>4. \A u \in Threads : Active(u)' => Active(u) /\ reg'[u] = reg[u]
    BY <1>3 DEF Active
  <2>5. \A g \in Handles : handle'[g].active => handle'[g].id \in 1..next_id
    BY <1>4, <1>5 DEF IndInv, RegTypes
  <2> QED  BY <1>1, <2>1, <2>3, <2>4, <2>5 DEF IndInv, RegTypes
<1>9. Exclusive'
  <2>1. \A u \in Threads : Active(u)' => Active(u) /\ reg'[u] = reg[u] /\ u # t
    BY <1>3 DEF Active
  <2> QED  BY <1>1, <1>4, <1>5, <2>1 DEF IndInv, Exclusive
<1>10. Owned'
  <2>1. \A u \in Threads : /\ Entered(u)' => Entered(u) /\ reg'[u] = reg[u] /\ u # t
                           /\ Entered(u) /\ u # t => Entered(u)' /\ reg'[u] = reg[u]
                           /\ pc'[u] = "insert" => pc[u] = "insert" /\ reg'[u] = reg[u]
                           /\ Entered(u) => Active(u)
    BY <1>3 DEF Entered, Active
  <2>2. reg[t].id \in Ids'
    BY <1>2, <1>5
  <2>3. \A g \in Handles : handle'[g].active => handle'[g].id \in Ids'
    BY <1>2, <1>4, <1>5, <1>6, <2>2 DEF IndInv, Owned
  <2>4. \A u \in Threads : /\ Entered(u)' => reg'[u].id \in Ids'
                           /\ pc'[u] = "insert" => reg'[u].id \notin Ids'
    BY <1>2, <1>5, <1>6, <2>1 DEF IndInv, Owned
  <2>5. detached' \subseteq Ids'
    BY <1>1, <1>2, <1>5, <1>6 DEF IndInv, Owned
  <2>6. ASSUME NEW id \in Ids'
        PROVE  \/ \E g \in Handles : handle'[g].active /\ handle'[g].id = id
               \/ \E u \in Threads : Entered(u)' /\ reg'[u].id = id
               \/ id \in detached'
    <3>1. id \in Ids /\ (handle[h].active => id # handle[h].id)
      BY <1>2
    <3>2. CASE id = reg[t].id
      BY <1>4, <3>2
    <3>3. CASE id # reg[t].id
      BY <1>1, <1>4, <1>5, <2>1, <3>1, <3>3 DEF IndInv, Owned
    <3> QED  BY <3>2, <3>3
  <2> QED  BY <2>3, <2>4, <2>5, <2>6 DEF Owned
<1>11. Quiet'
  BY <1>1, <1>5 DEF Quiet
<1>12. GaugeExact'
  <2>1. Counting' = Counting
    BY <1>1, <1>3 DEF Counting
  <2>2. Len(listeners) \in Nat /\ Len(listeners') \in Nat /\ gauge \in Int
    BY <1>2, LenProperties DEF IndInv, TypeOK
  <2>3. gauge = Len(listeners) - Cardinality(Counting)
    BY DEF IndInv, GaugeExact, Counting
  <2>4. gauge' = Len(listeners') - Cardinality(Counting')
    BY <1>2, <2>1, <2>2, <2>3, CountingFinite
  <2> QED  BY <2>4 DEF GaugeExact, Counting
<1> QED  BY <1>2, <1>7, <1>8, <1>9, <1>10, <1>11, <1>12 DEF IndInv
HandleType == [id : 0..MaxId, active : BOOLEAN, backref : BOOLEAN]

\* h gives up what it held, and what the others hold may change hands: f says
\* which handle each one has its registration from.
LEMMA HandOver ==
    ASSUME IndInv, NEW h \in Handles, alive, ReleaseHeld(h),
           UNCHANGED <<next_id, alias, alive, pc, reg, detached>>,
           handle' \in [Handles -> HandleType], NEW f \in [Handles -> Handles],
           \A g \in Handles : handle'[g].active =>
               /\ f[g] # h /\ handle[f[g]].active
               /\ handle'[g].id = handle[f[g]].id /\ handle'[g].backref,
           \A g, k \in Handles : handle'[g].active /\ handle'[k].active /\ f[g] = f[k] => g = k,
           \A k \in Handles : k # h /\ handle[k].active
               => \E g \in Handles : handle'[g].active /\ handle'[g].id = handle[k].id
    PROVE  IndInv'
<1>1. /\ listeners' \in Seq(Entry) /\ ListSorted'
      /\ gauge' \in Int /\ Len(listeners') - gauge' = Len(listeners) - gauge
      /\ Ids' = IF handle[h].active THEN Ids \ {handle[h].id} ELSE Ids
  BY ReleaseEffect
<1>2. /\ \A g \in Handles : handle[h].active /\ handle[g].active /\ g # h => handle[g].id # handle[h].id
      /\ \A u \in Threads : handle[h].active /\ Active(u) => reg[u].id # handle[h].id
      /\ handle[h].active => handle[h].id \notin detached
  BY DEF IndInv, Exclusive
<1>3. \A u \in Threads : (Active(u)' <=> Active(u)) /\ (Entered(u)' <=> Entered(u))
                         /\ (Entered(u) => Active(u))
  BY DEF Active, Entered
<1>4. TypeOK'
  BY <1>1 DEF IndInv, TypeOK, Entry, HandleType
<1>5. RegTypes'
  <2>1. Ids' \subseteq 1..next_id
    <3>1. Ids \subseteq 1..next_id
      BY DEF IndInv, RegTypes, Ids
    <3> QED  BY <1>1, <3>1
  <2>2. \A i \in 1..Len(listeners') : listeners'[i].id \in 1..next_id
    BY <2>1 DEF Ids
  <2>3. \A g \in Handles : handle'[g].active => handle'[g].id \in 1..next_id
    BY DEF IndInv, RegTypes
  <2> QED  BY <1>3, <2>2, <2>3 DEF IndInv, RegTypes
<1>6. Exclusive'
  <2>1. ASSUME NEW g \in Handles, NEW k \in Handles, handle'[g].active, handle'[k].active,
               handle'[g].id = handle'[k].id
        PROVE  g = k
    BY <2>1 DEF IndInv, Exclusive
  <2>2. ASSUME NEW g \in Handles, handle'[g].active
        PROVE  /\ handle'[g].id \notin detached /\ handle'[g].backref
               /\ \A u \in Threads : Active(u) => handle'[g].id # reg[u].id
    BY <2>2 DEF IndInv, Exclusive
  <2>3. \A u \in Threads : Active(u) => reg[u].id \notin detached
    BY DEF IndInv, Exclusive
  <2> QED  BY <1>3, <2>1, <2>2, <2>3 DEF Exclusive
<1>7. Owned'
  <2>1. \A g \in Handles : handle'[g].active => handle'[g].id \in Ids'
    BY <1>1, <1>2 DEF IndInv, Owned
  <2>2. \A u \in Threads : /\ Entered(u) => reg[u].id \in Ids'
                           /\ pc[u] = "insert" => reg[u].id \notin Ids'
    BY <1>1, <1>2, <1>3 DEF IndInv, Owned
  <2>3. detached \subseteq Ids'
    BY <1>1, <1>2 DEF IndInv, Owned
  <2>4. ASSUME NEW id \in Ids'
        PROVE  \/ \E g \in Handles : handle'[g].active /\ handle'[g].id = id
               \/ \E u \in Threads : Entered(u) /\ reg[u].id = id
               \/ id \in detached
    <3>1. id \in Ids /\ (handle[h].active => id # handle[h].id)
      BY <1>1
    <3>2. \/ \E g \in Handles : handle[g].active /\ handle[g].id = id
          \/ \E u \in Threads : Entered(u) /\ reg[u].id = id
          \/ id \in detached
      BY <3>1 DEF IndInv, Owned
    <3> QED  BY <3>1, <3>2
  <2> QED  BY <1>3, <2>1, <2>2, <2>3, <2>4 DEF Owned
<1>8. Quiet'
  BY DEF Quiet
<1>9. GaugeExact'
  <2>1. Counting' = Counting
    BY DEF Counting
  <2>2. Len(listeners) \in Nat /\ Len(listeners') \in Nat /\ gauge \in Int
    BY <1>1, LenProperties DEF IndInv, TypeOK
  <2>3. gauge = Len(listeners) - Cardinality(Counting)
    BY DEF IndInv, GaugeExact, Counting
  <2>4. gauge' = Len(listeners') - Cardinality(Counting')
    BY <1>1, <2>1, <2>2, <2>3, CountingFinite
  <2> QED  BY <2>4 DEF GaugeExact, Counting
<1> QED  BY <1>1, <1>4, <1>5, <1>6, <1>7, <1>8, <1>9 DEF IndInv

\* release() of a handle hands its registration to nobody.
LEMMA ReleaseStep ==
    ASSUME IndInv, NEW h \in Handles, Release(h)
    PROVE  IndInv'
<1> DEFINE f == [g \in Handles |-> g]
           Gone == [handle[h] EXCEPT !.active = FALSE, !.backref = FALSE]
<1>1. /\ alive /\ ReleaseHeld(h) /\ handle' = [handle EXCEPT ![h] = Gone]
      /\ UNCHANGED <<next_id, alias, alive, pc, reg, detached>>
  BY DEF Release, Usable
<1>2. Gone \in HandleType /\ ~Gone.active
  BY DEF IndInv, TypeOK, HandleType
<1> HIDE DEF Gone
<1>3. \A g \in Handles : handle'[g] = IF g = h THEN Gone ELSE handle[g]
  BY <1>1 DEF IndInv, TypeOK
<1>4. handle' \in [Handles -> HandleType]
  BY <1>1, <1>2 DEF IndInv, TypeOK, HandleType
<1>5. \A g \in Handles : handle[g].active => handle[g].backref
  BY DEF IndInv, Exclusive
<1>6. f \in [Handles -> Handles] /\ \A g \in Handles : f[g] = g
  OBVIOUS
<1> HIDE DEF f
<1> QED  BY <1>1, <1>2, <1>3, <1>4, <1>5, <1>6, HandOver

\* A move-assignment releases what the target held and hands over what the source
\* held.
LEMMA MoveStep ==
    ASSUME IndInv, NEW g \in Handles, NEW h \in Handles, g # h, Move(g, h)
    PROVE  IndInv'
<1> DEFINE f == [k \in Handles |-> IF k = h THEN g ELSE k]
           Gone == [handle[g] EXCEPT !.active = FALSE, !.backref = FALSE]
<1>1. /\ alive /\ ReleaseHeld(h)
      /\ handle' = [handle EXCEPT ![h] = handle[g],
                                  ![g] = [@ EXCEPT !.active = FALSE, !.backref = FALSE]]
      /\ UNCHANGED <<next_id, alias, alive, pc, reg, detached>>
  BY DEF Move, Usable
<1>2. Gone \in HandleType /\ ~Gone.active
  BY DEF IndInv, TypeOK, HandleType
<1>3. \A k \in Handles : handle'[k] = IF k = g THEN Gone ELSE IF k = h THEN handle[g] ELSE handle[k]
  BY <1>1 DEF IndInv, TypeOK
<1> HIDE DEF Gone
<1>4. handle' \in [Handles -> HandleType]
  <2>1. handle \in [Handles -> HandleType] /\ DOMAIN handle' = Handles
    BY <1>1 DEF IndInv, TypeOK, HandleType
  <2>2. \A k \in Handles : handle'[k] \in HandleType
    BY <1>2, <1>3, <2>1
  <2>3. handle' = [k \in Handles |-> handle'[k]]
    BY <1>1, <2>1
  <2> QED  BY <2>2, <2>3
<1>5. \A k \in Handles : handle[k].active => handle[k].backref
  BY DEF IndInv, Exclusive
<1>6. f \in [Handles -> Handles] /\ \A k \in Handles : f[k] = IF k = h THEN g ELSE k
  OBVIOUS
<1> HIDE DEF f
<1>7. \A k \in Handles : handle'[k].active =>
         f[k] # h /\ handle[f[k]].active /\ handle'[k].id = handle[f[k]].id /\ handle'[k].backref
  BY <1>2, <1>3, <1>5, <1>6
<1>8. \A i, k \in Handles : handle'[i].active /\ handle'[k].active /\ f[i] = f[k] => i = k
  BY <1>2, <1>3, <1>6
<1>9. \A k \in Handles : k # h /\ handle[k].active
          => \E i \in Handles : handle'[i].active /\ handle'[i].id = handle[k].id
  BY <1>3
<1> QED  BY <1>1, <1>4, <1>6, <1>7, <1>8, <1>9, HandOver

\* detach() leaves the registration in the bus, owned by nobody any more.
LEMMA DetachStep ==
    ASSUME IndInv, NEW h \in Handles, Detach(h)
    PROVE  IndInv'
<1> DEFINE Gone == [handle[h] EXCEPT !.active = FALSE, !.backref = FALSE]
<1>1. /\ alive /\ handle' = [handle EXCEPT ![h] = Gone]
      /\ detached' = IF handle[h].active THEN detached \cup {handle[h].id} ELSE detached
      /\ UNCHANGED <<next_id, listeners, gauge, alias, alive, pc, reg>>
  BY DEF Detach, Usable
<1>2. Gone \in HandleType /\ ~Gone.active
  BY DEF IndInv, TypeOK, HandleType
<1> HIDE DEF Gone
<1>3. \A g \in Handles : handle'[g] = IF g = h THEN Gone ELSE handle[g]
  BY <1>1 DEF IndInv, TypeOK
<1>4. handle' \in [Handles -> HandleType]
  BY <1>1, <1>2 DEF IndInv, TypeOK, HandleType
<1>5. /\ handle[h].active => /\ handle[h].id \in 1..next_id /\ handle[h].id \in Ids
                             /\ \A g \in Handles : handle[g].active /\ g # h => handle[g].id # handle[h].id
                             /\ \A u \in Threads : Active(u) => reg[u].id # handle[h].id
      /\ next_id \in 0..MaxId /\ MaxId \in Nat
  BY <1>1, BoundAssumption DEF IndInv, RegTypes, Owned, Exclusive, TypeOK
<1>6. \A u \in Threads : (Active(u)' <=> Active(u)) /\ (Entered(u)' <=> Entered(u))
  BY <1>1 DEF Active, Entered
<1>7. detached' \subseteq 1..next_id /\ detached' \subseteq 1..MaxId
  <2>1. detached' \subseteq 1..next_id
    BY <1>1, <1>5 DEF IndInv, RegTypes
  <2>2. 1..next_id \subseteq 1..MaxId
    BY <1>5
  <2> QED  BY <2>1, <2>2
<1>8. TypeOK'
  BY <1>1, <1>4, <1>7 DEF IndInv, TypeOK, HandleType
<1>9. RegTypes'
  BY <1>1, <1>2, <1>3, <1>6, <1>7 DEF IndInv, RegTypes
<1>10. ListSorted' /\ Quiet'
  BY <1>1 DEF IndInv, ListSorted, Quiet
<1>11. Exclusive'
  BY <1>1, <1>2, <1>3, <1>5, <1>6 DEF IndInv, Exclusive
<1>12. Owned'
  <2>1. Ids' = Ids
    BY <1>1 DEF Ids
  <2>2. ASSUME NEW id \in Ids
        PROVE  \/ \E g \in Handles : handle'[g].active /\ handle'[g].id = id
               \/ \E u \in Threads : Entered(u) /\ reg[u].id = id
               \/ id \in detached'
    <3>1. \/ \E g \in Handles : handle[g].active /\ handle[g].id = id
          \/ \E u \in Threads : Entered(u) /\ reg[u].id = id
          \/ id \in detached
      BY <1>1 DEF IndInv, Owned
    <3> QED  BY <1>1, <1>3, <3>1
  <2> QED  BY <1>1, <1>2, <1>3, <1>5, <1>6, <2>1, <2>2 DEF IndInv, Owned
<1>13. GaugeExact'
  <2>1. Counting' = Counting
    BY <1>1 DEF Counting
  <2> QED  BY <1>1, <2>1 DEF IndInv, GaugeExact, Counting
<1> QED  BY <1>8, <1>9, <1>10, <1>11, <1>12, <1>13 DEF IndInv

\* ~Bus() takes the entries and their share of the gauge with it.
LEMMA DestroyStep ==
    ASSUME IndInv, DestroyBus
    PROVE  IndInv'
<1>1. /\ \A t \in Threads : pc[t] = "idle"
      /\ \A h \in Handles : ~handle[h].active
      /\ ~alive' /\ alive' \in BOOLEAN /\ gauge' = gauge - Len(listeners) /\ listeners' = <<>>
      /\ UNCHANGED <<next_id, alias, pc, reg, handle, detached>>
  BY DEF DestroyBus
<1>2. listeners' \in Seq(Entry) /\ Len(listeners') = 0
  BY <1>1, EmptySeq
<1>3. Len(listeners) \in Nat /\ gauge \in Int
  BY LenProperties DEF IndInv, TypeOK
<1>4. TypeOK'
  BY <1>1, <1>2, <1>3 DEF IndInv, TypeOK, Entry
<1>5. RegTypes'
  BY <1>1, <1>2 DEF IndInv, RegTypes, Active
<1>6. ListSorted' /\ Owned' /\ Quiet'
  BY <1>1, <1>2 DEF ListSorted, Owned, Quiet
<1>7. Exclusive'
  BY <1>1 DEF IndInv, Exclusive, Active
<1>8. GaugeExact'
  <2>1. Counting = {} /\ Counting' = {}
    BY <1>1 DEF Counting
  <2>2. Cardinality(Counting) = 0 /\ Cardinality(Counting') = 0
    BY <2>1, FS_EmptySet
  <2>3. gauge = Len(listeners) - Cardinality(Counting)
    BY DEF IndInv, GaugeExact, Counting
  <2>4. gauge' = Len(listeners') - Cardinality(Counting')
    BY <1>1, <1>2, <1>3, <2>2, <2>3
  <2> QED  BY <2>4 DEF GaugeExact, Counting
<1> QED  BY <1>4, <1>5, <1>6, <1>7, <1>8 DEF IndInv
\* A step that changes nothing keeps the invariant.
LEMMA StutterStep == IndInv /\ UNCHANGED vars => IndInv'
<1> SUFFICES ASSUME IndInv, UNCHANGED vars  PROVE IndInv'
  OBVIOUS
<1> USE DEF vars
<1>1. TypeOK' /\ RegTypes' /\ ListSorted' /\ Exclusive'
  BY DEF IndInv, TypeOK, RegTypes, ListSorted, Exclusive, Active
<1>2. Owned' /\ Quiet'
  BY DEF IndInv, Owned, Quiet, Ids, Entered
<1>3. GaugeExact'
  BY DEF IndInv, GaugeExact
<1> QED  BY <1>1, <1>2, <1>3 DEF IndInv

\* Every step keeps the invariant: one case per operation.
LEMMA NextStep == IndInv /\ [Next]_vars => IndInv'
<1> SUFFICES ASSUME IndInv, [Next]_vars  PROVE IndInv'
  OBVIOUS
<1>1. ASSUME NEW t \in Threads, NEW r \in Routes, NEW x \in Explicit(r), Listen(t, r, x)
      PROVE  IndInv'
  BY <1>1, ListenStep
<1>2. ASSUME NEW t \in Threads, InsertEntry(t)  PROVE IndInv'
  BY <1>2, InsertStep
<1>3. ASSUME NEW t \in Threads, Count(t)  PROVE IndInv'
  BY <1>3, CountStep
<1>4. ASSUME NEW t \in Threads, Alias(t)  PROVE IndInv'
  <2>1. pc \in [Threads -> {"idle", "insert", "count", "alias", "assign"}]
    BY DEF IndInv, TypeOK
  <2> QED  BY <1>4, <2>1, PcStep DEF Alias
<1>5. ASSUME NEW h \in Handles, Assign(h)  PROVE IndInv'
  BY <1>5, AssignStep
<1>6. ASSUME NEW h \in Handles, Release(h)  PROVE IndInv'
  BY <1>6, ReleaseStep
<1>7. ASSUME NEW h \in Handles, Detach(h)  PROVE IndInv'
  BY <1>7, DetachStep
<1>8. ASSUME NEW g \in Handles, NEW h \in Handles, Move(g, h)  PROVE IndInv'
  <2>1. CASE g = h
    <3>1. UNCHANGED vars
      BY <1>8, <2>1 DEF Move, vars
    <3> QED  BY <3>1, StutterStep
  <2>2. CASE g # h
    BY <1>8, <2>2, MoveStep
  <2> QED  BY <2>1, <2>2
<1>9. CASE DestroyBus
  BY <1>9, DestroyStep
<1>10. CASE UNCHANGED vars
  BY <1>10, StutterStep
<1> QED  BY <1>1, <1>2, <1>3, <1>4, <1>5, <1>6, <1>7, <1>8, <1>9, <1>10 DEF Next

\* The inductive invariant holds in every reachable state.
THEOREM Invariance == Spec => []IndInv
<1>1. Init => IndInv
  BY InitInv
<1> QED  BY <1>1, NextStep, PTL DEF Spec

\* Every variable keeps its type; in particular ids never exceed what listen()
\* has handed out.
THEOREM TypeCorrect == Spec => []TypeOK
<1>1. IndInv => TypeOK
  BY DEF IndInv
<1> QED  BY <1>1, Invariance, PTL

\* conduit_listeners counts exactly the registered listeners, up to those that
\* are between the insertion and inc(), and is zero when the bus is gone.
THEOREM GaugeIsExact == Spec => []GaugeExact
<1>1. IndInv => GaugeExact
  BY DEF IndInv
<1> QED  BY <1>1, Invariance, PTL

-----------------------------------------------------------------------------
(* One owner *)

\* A set whose members are all equal has one element, or none.
LEMMA AtMostOne ==
    ASSUME NEW S, \A x, y \in S : x = y
    PROVE  Cardinality(S) = IF S = {} THEN 0 ELSE 1
<1>1. CASE S = {}
  BY <1>1, FS_EmptySet
<1>2. CASE S # {}
  <2>1. PICK x : S = {x}
    BY <1>2
  <2> QED  BY <1>2, <2>1, FS_Singleton
<1> QED  BY <1>1, <1>2

\* Exclusive and Owned together are OneOwner: a count of owners that are pairwise
\* equal.
LEMMA IndInvOneOwner == IndInv => OneOwner
<1> SUFFICES ASSUME IndInv, alive, NEW id \in 1..MaxId
             PROVE  Owners(id) = IF id \in Ids THEN 1 ELSE 0
  BY DEF OneOwner
<1> DEFINE H == {h \in Handles : handle[h].active /\ handle[h].id = id}
           T == {t \in Threads : Entered(t) /\ reg[t].id = id}
<1>1. Owners(id) = Cardinality(H) + Cardinality(T) + (IF id \in detached THEN 1 ELSE 0)
  BY DEF Owners, Entered
<1>2. \A t \in Threads : Entered(t) => Active(t)
  BY DEF Entered, Active
<1>3. Cardinality(H) = IF H = {} THEN 0 ELSE 1
  <2>1. \A g, h \in H : g = h
    BY DEF IndInv, Exclusive
  <2> QED  BY <2>1, AtMostOne
<1>4. Cardinality(T) = IF T = {} THEN 0 ELSE 1
  <2>1. \A t, u \in T : t = u
    BY <1>2 DEF IndInv, RegTypes
  <2> QED  BY <2>1, AtMostOne
<1>5. (H # {} => T = {} /\ id \notin detached) /\ (T # {} => id \notin detached)
  BY <1>2 DEF IndInv, Exclusive
<1>6. id \in Ids <=> H # {} \/ T # {} \/ id \in detached
  BY DEF IndInv, Owned
<1> QED  BY <1>1, <1>3, <1>4, <1>5, <1>6

\* Whatever is moved, assigned, released and detached, and however often: a
\* registered listener has exactly one owner, an unregistered one has none.
THEOREM RegistrationsHaveOneOwner == Spec => []OneOwner
  BY Invariance, IndInvOneOwner, PTL

-----------------------------------------------------------------------------
(* The order of calls *)

\* A list where Ordered's last part, and its first and third, hold.
OrderedList(s) ==
    /\ \A i \in 1..Len(s) : AsAsked(s[i])
    /\ \A i, j \in 1..Len(s) :
          i < j /\ s[i].priority = s[j].priority => s[j].id \notin s[i].after

\* A listener is inserted behind its equals, and none of them began after it.
LEMMA InsertOrdered ==
    ASSUME NEW s \in Seq(Entry), OrderedList(s), NEW x \in Entry, AsAsked(x),
           \A i \in 1..Len(s) : x.id \notin s[i].after,
           NEW n \in 1..Len(s) + 1,
           \A i \in n..Len(s) : s[i].priority > x.priority
    PROVE  OrderedList(InsertAt(s, n, x))
<1> DEFINE r == InsertAt(s, n, x)
           Src(k) == IF k < n THEN k ELSE k - 1
<1>1. /\ Len(r) = Len(s) + 1
      /\ \A j \in 1..Len(s) + 1 : r[j] = IF j < n THEN s[j] ELSE IF j = n THEN x ELSE s[j - 1]
  BY InsertAtProperties
<1>2. Len(s) \in Nat /\ n \in Nat /\ n <= Len(s) + 1 /\ \A i \in 1..Len(s) : s[i] \in Entry
  BY LenProperties, ElementOfSeq
<1> HIDE DEF r
<1>3. ASSUME NEW k \in 1..Len(r), k # n  PROVE Src(k) \in 1..Len(s) /\ r[k] = s[Src(k)]
  BY <1>3, <1>1, <1>2
<1>4. r[n] = x /\ n \in 1..Len(r)
  BY <1>1, <1>2
<1>5. \A i \in 1..Len(r) : AsAsked(r[i])
  BY <1>3, <1>4 DEF OrderedList
<1>6. ASSUME NEW i \in 1..Len(r), NEW j \in 1..Len(r), i < j, r[i].priority = r[j].priority
      PROVE  r[j].id \notin r[i].after
  <2>1. CASE i = n
    <3>1. r[j] = s[Src(j)] /\ Src(j) \in n..Len(s)
      BY <2>1, <1>6, <1>3, <1>2, <1>1
    <3>2. s[Src(j)] \in Entry /\ s[Src(j)].priority > x.priority
      BY <3>1, <1>2
    <3>3. s[Src(j)].priority \in Int /\ x.priority \in Int
      BY <3>2 DEF Entry
    <3> QED  BY <3>1, <3>2, <3>3, <2>1, <1>4, <1>6
  <2>2. CASE i # n /\ j = n
    BY <2>2, <1>3, <1>4
  <2>3. CASE i # n /\ j # n
    <3>1. /\ r[i] = s[Src(i)] /\ Src(i) \in 1..Len(s) /\ r[j] = s[Src(j)] /\ Src(j) \in 1..Len(s)
          /\ Src(i) < Src(j)
      BY <2>3, <1>6, <1>3, <1>1, <1>2
    <3> QED  BY <3>1, <1>6 DEF OrderedList
  <2> QED  BY <2>1, <2>2, <2>3
<1> QED  BY <1>5, <1>6 DEF r, OrderedList

\* Taking a listener out keeps the others as they are.
LEMMA RemoveOrdered ==
    ASSUME NEW s \in Seq(Entry), OrderedList(s), NEW n \in 1..Len(s)
    PROVE  /\ OrderedList(RemoveAt(s, n))
           /\ \A i \in 1..Len(RemoveAt(s, n)) : \E k \in 1..Len(s) : RemoveAt(s, n)[i] = s[k]
<1> DEFINE r == RemoveAt(s, n)
           Src(k) == IF k < n THEN k ELSE k + 1
<1>1. /\ Len(r) = Len(s) - 1
      /\ \A j \in 1..Len(s) - 1 : r[j] = IF j < n THEN s[j] ELSE s[j + 1]
  BY RemoveAtProperties
<1>2. Len(s) \in Nat /\ n \in Nat /\ n <= Len(s)
  BY LenProperties
<1> HIDE DEF r
<1>3. ASSUME NEW k \in 1..Len(r)  PROVE Src(k) \in 1..Len(s) /\ r[k] = s[Src(k)]
  BY <1>1, <1>2
<1>4. \A i, j \in 1..Len(r) : i < j => Src(i) < Src(j)
  BY <1>1, <1>2
<1> HIDE DEF Src
<1> QED  BY <1>3, <1>4 DEF r, OrderedList

\* What of Ordered is about one list, and what is not.
LEMMA OrderedParts ==
    Ordered <=>
        /\ OrderedList(listeners)
        /\ \A t \in Threads : Active(t) => AsAsked(reg[t]) /\ reg[t].after \subseteq 1..next_id
        /\ \A i \in 1..Len(listeners) : listeners[i].after \subseteq 1..next_id
        /\ \A t \in Threads : pc[t] = "insert" =>
              /\ \A i \in 1..Len(listeners) : reg[t].id \notin listeners[i].after
              /\ \A u \in Threads : Active(u) => reg[t].id \notin reg[u].after
  BY DEF Ordered, OrderedList

\* Whoever takes listeners out, and moves no listen() towards its insertion,
\* keeps the order.
LEMMA FewerOrdered ==
    ASSUME IndInv, Ordered, UNCHANGED next_id, OrderedList(listeners'),
           \A i \in 1..Len(listeners') : \E k \in 1..Len(listeners) : listeners'[i] = listeners[k],
           \A t \in Threads : /\ Active(t)' => Active(t) /\ reg'[t] = reg[t]
                              /\ pc'[t] = "insert" => pc[t] = "insert"
    PROVE  Ordered'
<1>1. \A t \in Threads : Active(t)' => AsAsked(reg'[t]) /\ reg'[t].after \subseteq 1..next_id'
  BY OrderedParts
<1>2. \A i \in 1..Len(listeners') : listeners'[i].after \subseteq 1..next_id'
  BY OrderedParts
<1>3. \A t \in Threads : pc'[t] = "insert" => reg'[t] = reg[t]
  BY DEF Active
<1>4. \A t \in Threads : pc'[t] = "insert" =>
          /\ \A i \in 1..Len(listeners') : reg'[t].id \notin listeners'[i].after
          /\ \A u \in Threads : Active(u)' => reg'[t].id \notin reg'[u].after
  BY <1>3, OrderedParts
<1> QED  BY <1>1, <1>2, <1>4 DEF Ordered, OrderedList

\* release() of a handle, with or without effect, keeps the order.
LEMMA ReleaseOrdered ==
    ASSUME IndInv, Ordered, NEW h \in Handles, ReleaseHeld(h)
    PROVE  /\ OrderedList(listeners')
           /\ \A i \in 1..Len(listeners') : \E k \in 1..Len(listeners) : listeners'[i] = listeners[k]
<1>1. listeners \in Seq(Entry) /\ OrderedList(listeners)
  BY OrderedParts DEF IndInv, TypeOK, Entry
<1>2. \/ listeners' = listeners
      \/ \E n \in 1..Len(listeners) : listeners' = RemoveAt(listeners, n)
  BY DEF ReleaseHeld, BusRelease
<1> QED  BY <1>1, <1>2, RemoveOrdered

\* A new listen() is after everybody who is registered, and nobody is after it.
LEMMA ListenOrdered ==
    ASSUME IndInv, Ordered, NEW t \in Threads, NEW r \in Routes, NEW x \in Explicit(r),
           Listen(t, r, x)
    PROVE  Ordered'
<1> DEFINE e == [id |-> next_id + 1, route |-> r, priority |-> EffectivePriority(r, x),
                 asked |-> Asked(r, x), after |-> Ids]
<1>1. /\ next_id \in Nat /\ next_id' = next_id + 1 /\ listeners' = listeners /\ pc[t] = "idle"
      /\ alive
      /\ reg' = [reg EXCEPT ![t] = e] /\ reg \in [Threads -> RegType]
      /\ pc' = [pc EXCEPT ![t] = "insert"] /\ pc \in [Threads -> {"idle", "insert", "count", "alias", "assign"}]
  BY BoundAssumption DEF IndInv, TypeOK, RegTypes, Listen
<1>2. e.id = next_id + 1 /\ e.after = Ids /\ AsAsked(e)
  BY RoutesAssumption DEF AsAsked, EffectivePriority, Asked, Explicit, Route
<1>3. /\ \A u \in Threads : pc'[u] = IF u = t THEN "insert" ELSE pc[u]
      /\ reg'[t] = e /\ \A u \in Threads : u # t => reg'[u] = reg[u]
  BY <1>1
<1> HIDE DEF e
<1>4. Ids \subseteq 1..next_id /\ 1..next_id \subseteq 1..next_id' /\ next_id + 1 \notin 1..next_id
  BY <1>1 DEF IndInv, RegTypes, Ids
<1>5. \A u \in Threads : Active(u)' => u = t \/ Active(u)
  BY <1>3 DEF Active
<1>6. \A u \in Threads : Active(u)' => AsAsked(reg'[u]) /\ reg'[u].after \subseteq 1..next_id'
  <2> SUFFICES ASSUME NEW u \in Threads, Active(u)'
               PROVE  AsAsked(reg'[u]) /\ reg'[u].after \subseteq 1..next_id'
    OBVIOUS
  <2>1. CASE u = t
    BY <2>1, <1>2, <1>3, <1>4
  <2>2. CASE u # t
    <3>1. AsAsked(reg[u]) /\ reg[u].after \subseteq 1..next_id /\ reg'[u] = reg[u]
      BY <2>2, <1>3, <1>5, OrderedParts
    <3> QED  BY <3>1, <1>4
  <2> QED  BY <2>1, <2>2
<1>7. \A i \in 1..Len(listeners') : listeners'[i].after \subseteq 1..next_id'
  BY <1>1, <1>4, OrderedParts
<1>8. ASSUME NEW u \in Threads, pc'[u] = "insert"
      PROVE  /\ \A i \in 1..Len(listeners') : reg'[u].id \notin listeners'[i].after
             /\ \A v \in Threads : Active(v)' => reg'[u].id \notin reg'[v].after
  <2>1. CASE u = t
    <3>1. reg'[u].id = next_id + 1
      BY <2>1, <1>2, <1>3
    <3>2. \A i \in 1..Len(listeners') : reg'[u].id \notin listeners'[i].after
      BY <3>1, <1>1, <1>4, OrderedParts
    <3>3. ASSUME NEW v \in Threads, Active(v)'  PROVE reg'[u].id \notin reg'[v].after
      <4>1. CASE v = t
        BY <4>1, <3>1, <1>2, <1>3, <1>4
      <4>2. CASE v # t
        <5>1. reg'[v] = reg[v] /\ reg[v].after \subseteq 1..next_id
          BY <4>2, <3>3, <1>3, <1>5, OrderedParts
        <5> QED  BY <5>1, <3>1, <1>4
      <4> QED  BY <4>1, <4>2
    <3> QED  BY <3>2, <3>3
  <2>2. CASE u # t
    <3>1. pc[u] = "insert" /\ reg'[u] = reg[u]
      BY <2>2, <1>3, <1>8
    <3>2. \A i \in 1..Len(listeners') : reg'[u].id \notin listeners'[i].after
      BY <3>1, <1>1, OrderedParts
    <3>3. reg[u].id \notin Ids
      BY <3>1, <1>1 DEF IndInv, Owned
    <3>4. ASSUME NEW v \in Threads, Active(v)'  PROVE reg'[u].id \notin reg'[v].after
      <4>1. CASE v = t
        BY <4>1, <3>1, <3>3, <1>2, <1>3
      <4>2. CASE v # t
        BY <4>2, <3>1, <3>4, <1>3, <1>5, OrderedParts
      <4> QED  BY <4>1, <4>2
    <3> QED  BY <3>2, <3>4
  <2> QED  BY <2>1, <2>2
<1> QED  BY <1>1, <1>6, <1>7, <1>8 DEF Ordered

\* The insertion: whoever stands before the new listener did not begin after it.
LEMMA InsertEntryOrdered ==
    ASSUME IndInv, Ordered, NEW t \in Threads, InsertEntry(t)
    PROVE  Ordered'
<1>1. PICK n \in 1..Len(listeners) + 1 :
         /\ \A i \in 1..n - 1 : listeners[i].priority <= reg[t].priority
         /\ \A i \in n..Len(listeners) : listeners[i].priority > reg[t].priority
         /\ listeners' = InsertAt(listeners, n, reg[t])
  BY DEF InsertEntry
<1>2. /\ pc[t] = "insert" /\ next_id' = next_id /\ reg' = reg
      /\ \A u \in Threads : pc'[u] = IF u = t THEN "count" ELSE pc[u]
  BY DEF InsertEntry, IndInv, TypeOK
<1>3. listeners \in Seq(Entry) /\ Active(t) /\ reg[t] \in Entry
  BY <1>2, BoundAssumption DEF Active, IndInv, TypeOK, RegTypes, RegType, Entry
<1>4. AsAsked(reg[t]) /\ reg[t].after \subseteq 1..next_id
  BY <1>3, OrderedParts
<1>5. OrderedList(listeners')
  <2>1. OrderedList(listeners) /\ \A i \in 1..Len(listeners) : reg[t].id \notin listeners[i].after
    BY <1>2, OrderedParts
  <2> QED  BY <2>1, <1>1, <1>3, <1>4, InsertOrdered
<1>6. \A j \in 1..Len(listeners') :
         listeners'[j] = reg[t] \/ \E k \in 1..Len(listeners) : listeners'[j] = listeners[k]
  <2>1. /\ Len(listeners') = Len(listeners) + 1
        /\ \A j \in 1..Len(listeners) + 1 :
              listeners'[j] = IF j < n THEN listeners[j]
                              ELSE IF j = n THEN reg[t] ELSE listeners[j - 1]
    BY <1>1, <1>3, InsertAtProperties
  <2>2. Len(listeners) \in Nat /\ n \in Nat /\ n <= Len(listeners) + 1
    BY <1>1, <1>3, LenProperties
  <2> QED  BY <2>1, <2>2
<1>7. \A j \in 1..Len(listeners') : listeners'[j].after \subseteq 1..next_id'
  BY <1>2, <1>4, <1>6, OrderedParts
<1>8. \A u \in Threads : Active(u)' => Active(u)
  BY <1>2 DEF Active
<1>9. \A u \in Threads : Active(u)' => AsAsked(reg'[u]) /\ reg'[u].after \subseteq 1..next_id'
  BY <1>2, <1>8, OrderedParts
<1>10. ASSUME NEW u \in Threads, pc'[u] = "insert"
       PROVE  /\ \A j \in 1..Len(listeners') : reg'[u].id \notin listeners'[j].after
              /\ \A v \in Threads : Active(v)' => reg'[u].id \notin reg'[v].after
  <2>1. pc[u] = "insert"
    BY <1>2, <1>10
  <2>2. /\ \A j \in 1..Len(listeners) : reg[u].id \notin listeners[j].after
        /\ \A v \in Threads : Active(v) => reg[u].id \notin reg[v].after
    BY <2>1, OrderedParts
  <2> QED  BY <2>2, <1>2, <1>3, <1>6, <1>8
<1> QED  BY <1>5, <1>7, <1>9, <1>10 DEF Ordered, OrderedList

\* Every step keeps the order.
LEMMA OrderedStep == IndInv /\ Ordered /\ [Next]_vars => Ordered'
<1> SUFFICES ASSUME IndInv, Ordered, [Next]_vars  PROVE Ordered'
  OBVIOUS
<1>0. /\ OrderedList(listeners) /\ pc \in [Threads -> {"idle", "insert", "count", "alias", "assign"}]
      /\ reg \in [Threads -> RegType]
  BY OrderedParts DEF IndInv, TypeOK, RegTypes
<1>1. ASSUME NEW t \in Threads, NEW r \in Routes, NEW x \in Explicit(r), Listen(t, r, x)
      PROVE  Ordered'
  BY <1>1, ListenOrdered
<1>2. ASSUME NEW t \in Threads, InsertEntry(t)  PROVE Ordered'
  BY <1>2, InsertEntryOrdered
<1>3. ASSUME NEW t \in Threads, Count(t) \/ Alias(t)  PROVE Ordered'
  <2>1. /\ UNCHANGED <<next_id, listeners, reg>>
        /\ \A u \in Threads : /\ pc'[u] # "idle" => pc[u] # "idle"
                              /\ pc'[u] = "insert" => pc[u] = "insert"
    BY <1>3, <1>0 DEF Count, Alias
  <2> QED  BY <2>1, <1>0, FewerOrdered DEF Active
<1>4. ASSUME NEW h \in Handles, Assign(h)  PROVE Ordered'
  <2>1. /\ ReleaseHeld(h) /\ next_id' = next_id
        /\ \A u \in Threads : /\ pc'[u] # "idle" => pc[u] # "idle" /\ reg'[u] = reg[u]
                              /\ pc'[u] = "insert" => pc[u] = "insert"
    BY <1>4, <1>0, HandlesAssumption DEF Assign
  <2> QED  BY <2>1, ReleaseOrdered, FewerOrdered DEF Active
<1>5. ASSUME NEW h \in Handles,
             ReleaseHeld(h) \/ UNCHANGED listeners, UNCHANGED <<next_id, pc, reg>>
      PROVE  Ordered'
  BY <1>5, <1>0, ReleaseOrdered, FewerOrdered DEF Active
<1>6. ASSUME NEW h \in Handles, Release(h) \/ Detach(h)  PROVE Ordered'
  BY <1>6, <1>5 DEF Release, Detach
<1>7. ASSUME NEW g \in Handles, NEW h \in Handles, Move(g, h)  PROVE Ordered'
  BY <1>7, <1>5 DEF Move
<1>8. CASE DestroyBus
  <2>1. listeners' = <<>> /\ Len(listeners') = 0 /\ UNCHANGED <<next_id, pc, reg>>
    BY <1>8 DEF DestroyBus
  <2>2. OrderedList(listeners')
    BY <2>1 DEF OrderedList
  <2> QED  BY <2>1, <2>2, FewerOrdered DEF Active
<1>9. CASE UNCHANGED vars
  <2>1. UNCHANGED <<listeners, next_id, pc, reg>>
    BY <1>9 DEF vars
  <2> QED  BY <2>1, <1>0, FewerOrdered DEF Active
<1> QED  BY <1>1, <1>2, <1>3, <1>4, <1>6, <1>7, <1>8, <1>9 DEF Next

\* Listeners are called by the priority asked for, and equals in the order in
\* which non-overlapping calls of listen() registered them, whatever else is
\* registered or released, on any number of threads.
THEOREM ListenersCalledAsAsked == Spec => []CalledAsAsked
<1>1. Init => Ordered
  BY InitInv
<1>2. IndInv /\ Ordered => CalledAsAsked
  <2> SUFFICES ASSUME IndInv, Ordered, NEW j \in 1..Len(listeners), NEW i \in 1..j - 1,
                      "subscriber" \notin {listeners[i].route, listeners[j].route}
               PROVE  \/ listeners[i].asked < listeners[j].asked
                      \/ /\ listeners[i].asked = listeners[j].asked
                         /\ listeners[j].id \notin listeners[i].after
    BY DEF CalledAsAsked
  <2>1. listeners \in Seq(Entry) /\ Len(listeners) \in Nat
    BY LenProperties DEF IndInv, TypeOK, Entry
  <2>2. i \in 1..Len(listeners) /\ i < j
    BY <2>1
  <2>3. listeners[i] \in Entry /\ listeners[j] \in Entry
    BY <2>1, <2>2, ElementOfSeq
  <2>4. /\ listeners[i].asked = listeners[i].priority /\ listeners[j].asked = listeners[j].priority
    BY <2>2 DEF Ordered, AsAsked
  <2>5. listeners[i].priority \in Int /\ listeners[j].priority \in Int
    BY <2>3 DEF Entry
  <2>6. listeners[i].priority <= listeners[j].priority
    BY <2>2 DEF IndInv, ListSorted
  <2>7. listeners[i].priority = listeners[j].priority => listeners[j].id \notin listeners[i].after
    BY <2>2 DEF Ordered
  <2> QED  BY <2>4, <2>5, <2>6, <2>7
<1> QED  BY <1>1, <1>2, OrderedStep, Invariance, PTL DEF Spec
=============================================================================
