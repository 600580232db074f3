--------------------------- MODULE BusPublishProofs ---------------------------
(***************************************************************************)
(* Proofs about BusPublish, for any number of calls, middleware,           *)
(* transports, listeners and routes: what is dropped goes nowhere, the     *)
(* routing matrix, after_dispatch mirrors before_dispatch, failures reach  *)
(* every middleware, and fan-out is exact and in priority order.           *)
(***************************************************************************)
EXTENDS BusPublish, SequenceTheorems, FiniteSetTheorems, WellFoundedInduction, TLAPS

Callee(s) == IF s \in Relays THEN Routes ELSE Listeners

CallType ==
    [at : {"idle", "before", "snapshot", "conflict", "route", "wait", "after", "done"},
     flags : SUBSET Flags, local_only : BOOLEAN, remote_only : BOOLEAN,
     mws : Seq(Middleware), k : Nat, ts : Seq(Transports), proceed : BOOLEAN]

FanType ==
    [st : {"none", "pending", "running", "done"},
     todo : Seq(Listeners \cup Routes), heard : Seq(Listeners \cup Routes)]

HistType ==
    [live : [Sites -> SUBSET (Listeners \cup Routes)],
     gone : [Sites -> SUBSET (Listeners \cup Routes)],
     known : SUBSET Middleware, vetoed : BOOLEAN, failed : BOOLEAN,
     before : Seq(Middleware), after : Seq(Middleware),
     sent : SUBSET (Transports \X SUBSET Flags),
     refused : SUBSET Transports, told : SUBSET Middleware]

\* The types of the state, the history included.
Types ==
    /\ middleware \in Seq(Middleware) /\ transports \in Seq(Transports)
    /\ listeners \in Seq(Listeners) /\ gone \subseteq Listeners
    /\ routes \in [Relays -> Seq(Routes)] /\ removed \in [Relays -> SUBSET Routes]
    /\ call \in [Calls -> CallType]
    /\ fan \in [Calls -> [Sites -> FanType]]
    /\ published \in Nat /\ dropped \in Nat
    /\ hist \in [Calls -> HistType]

Distinct(s) == \A i, j \in 1..Len(s) : s[i] = s[j] => i = j
Ordered(s) == \A i, j \in 1..Len(s) : i < j => Priority[s[i]] <= Priority[s[j]]

\* The registries hold nobody twice and nobody who has left, in priority order.
Registries ==
    /\ Distinct(transports) /\ Ordered(listeners)
    /\ \A s \in Sites : Distinct(Audience(s)) /\ RangeOf(Audience(s)) \cap Departed(s) = {}

\* A call that has not routed anything yet, or will not.
Early == {"idle", "before", "snapshot", "conflict"}
Unrouted(c) == At(c) \in Early \/ ~call[c].proceed

\* Nothing was sent by a call that has not begun to route, or was dropped; and
\* once past the gate, a vetoed or conflicting envelope counts as dropped.
Gate(c) ==
    /\ At(c) = "idle" => hist[c] = NoHist /\ call[c] = NotYet
    /\ Unrouted(c) => /\ hist[c].sent = {} /\ hist[c].refused = {}
                      /\ \A s \in Sites : fan[c][s] = NoFan
    /\ hist[c].vetoed => ~call[c].proceed /\ At(c) \notin {"idle", "before"}
    /\ call[c].local_only /\ call[c].remote_only => Unrouted(c)
    /\ At(c) = "wait" => call[c].k \in 1..Len(call[c].ts)
    /\ At(c) \in {"conflict", "route"} => call[c].k >= 1
    /\ Distinct(call[c].ts)

\* RoutingMatrix, for one call.
Matrix(c) ==
    /\ call[c].local_only => \A x \in hist[c].sent : Scope(x[1]) = "Local"
    /\ call[c].remote_only => /\ \A x \in hist[c].sent : Scope(x[1]) = "Remote"
                              /\ fan[c][Fallback].st = "none"

\* The middleware before_dispatch has run on is a prefix of the copy, cut short
\* only by a veto; the middleware after_dispatch has run on is, backwards, the
\* part of the copy behind k.
Before(c) ==
    /\ Len(hist[c].before) <= Len(call[c].mws)
    /\ \A i \in 1..Len(hist[c].before) : hist[c].before[i] = call[c].mws[i]
    /\ At(c) = "before" => call[c].k >= 1 /\ Len(hist[c].before) = call[c].k - 1
    /\ At(c) \notin {"idle", "before"} /\ Len(hist[c].before) < Len(call[c].mws) => hist[c].vetoed

Mirrored(c) ==
    /\ At(c) \notin {"after", "done"} => hist[c].after = <<>>
    /\ At(c) = "after" => /\ call[c].k <= Len(call[c].mws)
                          /\ Len(hist[c].after) = Len(call[c].mws) - call[c].k
    /\ At(c) = "done" => Len(hist[c].after) = Len(call[c].mws)
    /\ \A i \in 1..Len(hist[c].after) :
          hist[c].after[i] = call[c].mws[Len(call[c].mws) + 1 - i]

\* A middleware is never unregistered, so run_on_error() misses nobody known.
Informed(c) ==
    /\ hist[c].known \subseteq RangeOf(middleware)
    /\ hist[c].failed => hist[c].known \subseteq hist[c].told
    /\ ~hist[c].failed => hist[c].told \subseteq MayThrow

\* The transports still ahead of a call have not been touched by it.
Ahead(c) ==
    \A i \in 1..Len(call[c].ts) :
        \/ At(c) = "route" /\ i >= call[c].k
        \/ At(c) = "wait" /\ i > call[c].k
        => fan[c][call[c].ts[i]] = NoFan /\ call[c].ts[i] \notin hist[c].refused

\* The shape of a fan-out in each of its states.
Shape(c, s) ==
    /\ fan[c][s].st = "none" => fan[c][s] = NoFan
    /\ fan[c][s].st = "pending" => fan[c][s].todo = <<>> /\ fan[c][s].heard = <<>>
    /\ fan[c][s].st = "done" => fan[c][s].todo = <<>>
    /\ fan[c][s].todo \in Seq(Callee(s)) /\ fan[c][s].heard \in Seq(Callee(s))
    /\ s \in hist[c].refused => fan[c][s].st \in {"none", "done"} /\ fan[c][s].heard = <<>>

\* A fan-out has heard and has still to call distinct callees, none of whom had
\* left when the call began.
Once(c, s) ==
    /\ Distinct(fan[c][s].todo) /\ Distinct(fan[c][s].heard)
    /\ RangeOf(fan[c][s].todo) \cap RangeOf(fan[c][s].heard) = {}
    /\ (RangeOf(fan[c][s].todo) \cup RangeOf(fan[c][s].heard)) \cap hist[c].gone[s] = {}

\* Those who were there when the call began, and still are, are among them.
Covered(c, s) ==
    /\ hist[c].gone[s] \subseteq Departed(s)
    /\ hist[c].live[s] \subseteq RangeOf(Audience(s)) \cup Departed(s)
    /\ fan[c][s].st \in {"running", "done"} /\ s \notin hist[c].refused =>
          Matching \cap hist[c].live[s] \cap RangeOf(Audience(s))
              \subseteq RangeOf(fan[c][s].todo) \cup RangeOf(fan[c][s].heard)

\* Who has been called does not come behind who is still to be called.
InOrder(c, s) ==
    /\ Ordered(fan[c][s].todo) /\ Ordered(fan[c][s].heard)
    /\ \A i \in 1..Len(fan[c][s].heard), j \in 1..Len(fan[c][s].todo) :
          Priority[fan[c][s].heard[i]] <= Priority[fan[c][s].todo[j]]

SiteInv(c, s) == Shape(c, s) /\ Once(c, s) /\ Covered(c, s) /\ (s \notin Relays => InOrder(c, s))

FanInv(c) == \A s \in Sites : SiteInv(c, s)

CallInv(c) ==
    Gate(c) /\ Matrix(c) /\ Before(c) /\ Mirrored(c) /\ Informed(c) /\ Ahead(c) /\ FanInv(c)

IndInv == Types /\ Registries /\ \A c \in Calls : CallInv(c)
-----------------------------------------------------------------------------
(* The containers *)

\* InsertAt, which models comms::PrioritizedSet::insert: one element longer, with
\* the elements from position i on moved up by one.
LEMMA InsertAtProperties ==
    ASSUME NEW S, NEW s \in Seq(S), NEW x \in S, NEW i \in 1..Len(s) + 1
    PROVE  /\ InsertAt(s, i, x) \in Seq(S)
           /\ Len(InsertAt(s, i, x)) = Len(s) + 1
           /\ \A j \in 1..Len(s) + 1 :
                 InsertAt(s, i, x)[j] = IF j < i THEN s[j] ELSE IF j = i THEN x ELSE s[j - 1]
<1> DEFINE a == SubSeq(s, 1, i - 1)
           c == SubSeq(s, i, Len(s))
           t == InsertAt(s, i, x)
<1>1. Len(s) \in Nat /\ i \in Nat
  BY LenProperties
<1>2. a \in Seq(S) /\ Len(a) = i - 1 /\ \A j \in 1..i - 1 : a[j] = s[j]
  BY <1>1, SubSeqProperties
<1>3. c \in Seq(S) /\ Len(c) = Len(s) - i + 1 /\ \A j \in 1..Len(s) - i + 1 : c[j] = s[i + j - 1]
  BY <1>1, SubSeqProperties
<1>4. t = (a \o <<x>>) \o c
  BY DEF InsertAt
<1> HIDE DEF a, c, t
<1>5. t \in Seq(S)
  BY <1>2, <1>3, <1>4
<1>6. Len(t) = Len(s) + 1
  <2>1. a \in Seq(S) /\ c \in Seq(S)
    BY <1>2, <1>3
  <2>2. Len(t) = (Len(a) + 1) + Len(c)
    BY <2>1, <1>4
  <2> QED  BY <2>2, <1>1, <1>2, <1>3
<1>7. ASSUME NEW j \in 1..Len(s) + 1
      PROVE  t[j] = IF j < i THEN s[j] ELSE IF j = i THEN x ELSE s[j - 1]
  <2>1. CASE j < i
    BY <2>1, <1>1, <1>2, <1>3, <1>4
  <2>2. CASE j = i
    BY <2>2, <1>1, <1>2, <1>3, <1>4
  <2>3. CASE j > i
    <3>1. t[j] = c[j - i]
      BY <2>3, <1>1, <1>2, <1>3, <1>4
    <3>2. c[j - i] = s[j - 1]
      BY <2>3, <1>1, <1>3
    <3> QED  BY <2>3, <3>1, <3>2, <1>1
  <2> QED  BY <2>1, <2>2, <2>3, <1>1
<1> QED  BY <1>5, <1>6, <1>7 DEF t

\* RemoveAt, which models an erase: one element shorter, with the elements
\* behind position i moved down by one.
LEMMA RemoveAtProperties ==
    ASSUME NEW S, NEW s \in Seq(S), NEW i \in 1..Len(s)
    PROVE  /\ RemoveAt(s, i) \in Seq(S)
           /\ Len(RemoveAt(s, i)) = Len(s) - 1
           /\ \A j \in 1..Len(s) - 1 : RemoveAt(s, i)[j] = IF j < i THEN s[j] ELSE s[j + 1]
<1> DEFINE a == SubSeq(s, 1, i - 1)
           c == SubSeq(s, i + 1, Len(s))
           t == RemoveAt(s, i)
<1>1. Len(s) \in Nat /\ i \in Nat
  BY LenProperties
<1>2. a \in Seq(S) /\ Len(a) = i - 1 /\ \A j \in 1..i - 1 : a[j] = s[j]
  BY <1>1, SubSeqProperties
<1>3. c \in Seq(S) /\ Len(c) = Len(s) - i /\ \A j \in 1..Len(s) - i : c[j] = s[i + j]
  BY <1>1, SubSeqProperties
<1>4. t = a \o c
  BY DEF RemoveAt
<1> HIDE DEF a, c, t
<1>5. t \in Seq(S)
  BY <1>2, <1>3, <1>4
<1>6. Len(t) = Len(s) - 1
  <2>1. a \in Seq(S) /\ c \in Seq(S)
    BY <1>2, <1>3
  <2>2. Len(t) = Len(a) + Len(c)
    BY <2>1, <1>4
  <2> QED  BY <2>2, <1>1, <1>2, <1>3
<1>7. ASSUME NEW j \in 1..Len(s) - 1
      PROVE  t[j] = IF j < i THEN s[j] ELSE s[j + 1]
  <2>1. CASE j < i
    BY <2>1, <1>1, <1>2, <1>3, <1>4
  <2>2. CASE j >= i
    <3>1. t[j] = c[j - i + 1]
      BY <2>2, <1>1, <1>2, <1>3, <1>4
    <3>2. c[j - i + 1] = s[j + 1]
      BY <2>2, <1>1, <1>3
    <3> QED  BY <2>2, <3>1, <3>2, <1>1
  <2> QED  BY <2>1, <2>2, <1>1
<1> QED  BY <1>5, <1>6, <1>7 DEF t

\* PrioritizedSet::insert adds one element, and keeps the others apart and in order.
LEMMA InsertFacts ==
    ASSUME NEW S, \A y \in S : Priority[y] \in Int, NEW s \in Seq(S), NEW x \in S,
           NEW r \in Insert(s, x)
    PROVE  /\ r \in Seq(S) /\ RangeOf(r) = RangeOf(s) \cup {x}
           /\ Distinct(s) /\ x \notin RangeOf(s) => Distinct(r)
           /\ Ordered(s) => Ordered(r)
<1>1. PICK n \in 1..Len(s) + 1 : /\ \A i \in 1..n - 1 : Priority[s[i]] <= Priority[x]
                                 /\ \A i \in n..Len(s) : Priority[s[i]] > Priority[x]
                                 /\ r = InsertAt(s, n, x)
  BY DEF Insert
<1>2. /\ r \in Seq(S) /\ Len(r) = Len(s) + 1
      /\ \A j \in 1..Len(s) + 1 : r[j] = IF j < n THEN s[j] ELSE IF j = n THEN x ELSE s[j - 1]
  BY <1>1, InsertAtProperties
<1>3. Len(s) \in Nat /\ n \in Nat /\ n <= Len(s) + 1 /\ \A i \in 1..Len(s) : s[i] \in S
  BY LenProperties, ElementOfSeq
<1> DEFINE Src(k) == IF k < n THEN k ELSE k - 1
<1>4. ASSUME NEW k \in 1..Len(r), k # n  PROVE Src(k) \in 1..Len(s) /\ r[k] = s[Src(k)]
  BY <1>4, <1>2, <1>3
<1>5. r[n] = x /\ n \in 1..Len(r)
  BY <1>2, <1>3
<1>6. RangeOf(r) = RangeOf(s) \cup {x}
  <2>1. RangeOf(r) \subseteq RangeOf(s) \cup {x}
    BY <1>4, <1>5 DEF RangeOf
  <2>2. ASSUME NEW i \in 1..Len(s)  PROVE s[i] \in RangeOf(r)
    <3>1. CASE i < n
      BY <3>1, <1>2, <1>3 DEF RangeOf
    <3>2. CASE i >= n
      <4>1. i + 1 \in 1..Len(r) /\ r[i + 1] = s[i]
        BY <3>2, <1>2, <1>3
      <4> QED  BY <4>1 DEF RangeOf
    <3> QED  BY <3>1, <3>2, <1>3
  <2> QED  BY <2>1, <2>2, <1>5 DEF RangeOf
<1>7. ASSUME Distinct(s), x \notin RangeOf(s)  PROVE Distinct(r)
  <2> SUFFICES ASSUME NEW i \in 1..Len(r), NEW j \in 1..Len(r), r[i] = r[j]  PROVE i = j
    BY DEF Distinct
  <2>1. \A k \in 1..Len(s) : s[k] # x
    BY <1>7 DEF RangeOf
  <2>2. CASE i = n \/ j = n
    BY <2>1, <2>2, <1>4, <1>5
  <2>3. CASE i # n /\ j # n
    <3>1. Src(i) = Src(j)
      BY <2>3, <1>4, <1>7 DEF Distinct
    <3> QED  BY <2>3, <3>1, <1>2, <1>3
  <2> QED  BY <2>2, <2>3
<1>8. ASSUME Ordered(s)  PROVE Ordered(r)
  <2> SUFFICES ASSUME NEW i \in 1..Len(r), NEW j \in 1..Len(r), i < j
               PROVE  Priority[r[i]] <= Priority[r[j]]
    BY DEF Ordered
  <2>1. \A k \in 1..Len(s) : Priority[s[k]] \in Int /\ Priority[x] \in Int
    BY <1>3
  <2>2. CASE i = n
    <3>1. r[j] = s[Src(j)] /\ Src(j) \in n..Len(s)
      BY <2>2, <1>2, <1>3, <1>4
    <3> QED  BY <3>1, <2>1, <2>2, <1>1, <1>3, <1>5
  <2>3. CASE j = n
    <3>1. r[i] = s[Src(i)] /\ Src(i) \in 1..n - 1
      BY <2>3, <1>2, <1>3, <1>4
    <3> QED  BY <3>1, <2>3, <1>1, <1>5
  <2>4. CASE i # n /\ j # n
    <3>1. r[i] = s[Src(i)] /\ Src(i) \in 1..Len(s) /\ r[j] = s[Src(j)] /\ Src(j) \in 1..Len(s)
      BY <2>4, <1>4
    <3>2. Src(i) < Src(j)
      BY <2>4, <1>2, <1>3
    <3> QED  BY <3>1, <3>2, <1>8 DEF Ordered
  <2> QED  BY <2>2, <2>3, <2>4
<1> QED  BY <1>2, <1>6, <1>7, <1>8

\* A container in order has one place for a new element, and only one: the
\* first position whose element has a higher priority.
LEMMA OneFit ==
    ASSUME NEW S, \A y \in S : Priority[y] \in Int, NEW s \in Seq(S), Ordered(s), NEW x \in S
    PROVE  \E r : Insert(s, x) = {r}
<1> DEFINE Fits(n) == /\ \A i \in 1..n - 1 : Priority[s[i]] <= Priority[x]
                      /\ \A i \in n..Len(s) : Priority[s[i]] > Priority[x]
           Later == {n \in 1..Len(s) + 1 : n = Len(s) + 1 \/ Priority[s[n]] > Priority[x]}
           R == {ss \in Nat \X Nat : ss[1] < ss[2]}
<1>1. Len(s) \in Nat /\ Priority[x] \in Int /\ \A i \in 1..Len(s) : Priority[s[i]] \in Int
  BY LenProperties, ElementOfSeq
<1>2. Later \subseteq Nat /\ Later # {}
  <2>1. Len(s) + 1 \in Later
    BY <1>1
  <2> QED  BY <2>1, <1>1
<1>3. PICK n \in Later : \A m \in Later : ~(<<m, n>> \in R)
  <2>1. IsWellFoundedOn(R, Nat)
    BY NatLessThanWellFounded DEF OpToRel
  <2> HIDE DEF R, Later
  <2> QED  BY <2>1, <1>2, WFMin
<1>4. ASSUME NEW m \in Later  PROVE n <= m
  <2>1. n \in Nat /\ m \in Nat /\ ~(<<m, n>> \in R)
    BY <1>2, <1>3
  <2>2. ~(m < n)
    BY <2>1
  <2> QED  BY <2>1, <2>2
<1>5. n \in 1..Len(s) + 1 /\ Fits(n)
  <2>1. ASSUME NEW i \in 1..n - 1  PROVE Priority[s[i]] <= Priority[x]
    <3>1. i \in 1..Len(s) + 1 /\ i \in 1..Len(s) /\ i \notin Later
      BY <1>1, <1>3, <1>4
    <3> QED  BY <3>1, <1>1
  <2>2. ASSUME NEW i \in n..Len(s)  PROVE Priority[s[i]] > Priority[x]
    <3>1. n \in 1..Len(s) /\ Priority[s[n]] > Priority[x] /\ i \in 1..Len(s)
      BY <1>1, <1>3
    <3>2. Priority[s[n]] <= Priority[s[i]]
      <4>1. CASE n = i
        BY <4>1, <1>1, <3>1
      <4>2. CASE n # i
        BY <4>2, <3>1 DEF Ordered
      <4> QED  BY <4>1, <4>2
    <3> QED  BY <3>1, <3>2, <1>1
  <2> QED  BY <2>1, <2>2, <1>3
<1>6. ASSUME NEW m \in 1..Len(s) + 1, Fits(m)  PROVE m = n
  <2>1. ASSUME m < n  PROVE FALSE
    <3>1. m \in 1..n - 1 /\ m \in m..Len(s) /\ m \in 1..Len(s)
      BY <1>1, <1>5, <2>1
    <3> QED  BY <3>1, <1>1, <1>5, <1>6
  <2>2. ASSUME n < m  PROVE FALSE
    <3>1. n \in 1..m - 1 /\ n \in n..Len(s) /\ n \in 1..Len(s)
      BY <1>1, <1>5, <2>2
    <3> QED  BY <3>1, <1>1, <1>5, <1>6
  <2> QED  BY <2>1, <2>2, <1>1, <1>5
<1>7. Insert(s, x) = {InsertAt(s, m, x) : m \in {k \in 1..Len(s) + 1 : Fits(k)}}
  BY DEF Insert
<1> HIDE DEF Fits
<1>8. {k \in 1..Len(s) + 1 : Fits(k)} = {n}
  BY <1>5, <1>6
<1>9. Insert(s, x) = {InsertAt(s, n, x)}
  BY <1>7, <1>8
<1> QED  BY <1>9

\* Erasing takes one element out, and keeps the others apart and in order.
LEMMA EraseFacts ==
    ASSUME NEW S, NEW s \in Seq(S), Distinct(s), NEW x, NEW r \in Erase(s, x)
    PROVE  /\ r \in Seq(S) /\ RangeOf(r) = RangeOf(s) \ {x}
           /\ Distinct(r) /\ (Ordered(s) => Ordered(r))
<1>1. PICK n \in 1..Len(s) : s[n] = x /\ r = RemoveAt(s, n)
  BY DEF Erase
<1>2. /\ r \in Seq(S) /\ Len(r) = Len(s) - 1
      /\ \A j \in 1..Len(s) - 1 : r[j] = IF j < n THEN s[j] ELSE s[j + 1]
  BY <1>1, RemoveAtProperties
<1>3. Len(s) \in Nat /\ n \in Nat /\ n <= Len(s)
  BY LenProperties
<1> DEFINE Src(k) == IF k < n THEN k ELSE k + 1
<1>4. ASSUME NEW k \in 1..Len(r)  PROVE Src(k) \in 1..Len(s) /\ Src(k) # n /\ r[k] = s[Src(k)]
  BY <1>2, <1>3
<1>5. RangeOf(r) = RangeOf(s) \ {x}
  <2>1. RangeOf(r) \subseteq RangeOf(s)
    BY <1>4 DEF RangeOf
  <2>2. x \notin RangeOf(r)
    BY <1>1, <1>4 DEF RangeOf, Distinct
  <2>3. ASSUME NEW i \in 1..Len(s), i # n  PROVE s[i] \in RangeOf(r)
    <3>1. CASE i < n
      BY <3>1, <1>2, <1>3 DEF RangeOf
    <3>2. CASE i > n
      <4>1. i - 1 \in 1..Len(r) /\ r[i - 1] = s[i]
        BY <3>2, <1>2, <1>3
      <4> QED  BY <4>1 DEF RangeOf
    <3> QED  BY <2>3, <3>1, <3>2, <1>3
  <2> QED  BY <2>1, <2>2, <2>3, <1>1 DEF RangeOf
<1>6. ASSUME NEW i \in 1..Len(r), NEW j \in 1..Len(r)
      PROVE  (Src(i) = Src(j) => i = j) /\ (i < j => Src(i) < Src(j))
  BY <1>2, <1>3
<1>7. Distinct(r)
  BY <1>4, <1>6 DEF Distinct
<1>8. Ordered(s) => Ordered(r)
  BY <1>4, <1>6 DEF Ordered
<1> QED  BY <1>2, <1>5, <1>7, <1>8

\* Appending adds one element at the end.
LEMMA AppendFacts ==
    ASSUME NEW S, NEW s \in Seq(S), NEW x \in S
    PROVE  /\ Append(s, x) \in Seq(S) /\ RangeOf(Append(s, x)) = RangeOf(s) \cup {x}
           /\ Distinct(s) /\ x \notin RangeOf(s) => Distinct(Append(s, x))
           /\ Ordered(s) /\ (\A i \in 1..Len(s) : Priority[s[i]] <= Priority[x])
                => Ordered(Append(s, x))
<1> DEFINE r == Append(s, x)
<1>1. /\ r \in Seq(S) /\ Len(r) = Len(s) + 1 /\ r[Len(s) + 1] = x
      /\ \A i \in 1..Len(s) : r[i] = s[i]
  BY AppendProperties
<1>2. Len(s) \in Nat
  BY LenProperties
<1> HIDE DEF r
<1>3. RangeOf(r) = RangeOf(s) \cup {x}
  <2>1. RangeOf(r) \subseteq RangeOf(s) \cup {x}
    BY <1>1, <1>2 DEF RangeOf
  <2>2. x \in RangeOf(r) /\ \A i \in 1..Len(s) : s[i] \in RangeOf(r)
    BY <1>1, <1>2 DEF RangeOf
  <2> QED  BY <2>1, <2>2 DEF RangeOf
<1>4. Distinct(s) /\ x \notin RangeOf(s) => Distinct(r)
  BY <1>1, <1>2 DEF Distinct, RangeOf
<1>5. Ordered(s) /\ (\A i \in 1..Len(s) : Priority[s[i]] <= Priority[x]) => Ordered(r)
  BY <1>1, <1>2 DEF Ordered
<1> QED  BY <1>1, <1>3, <1>4, <1>5 DEF r

\* Taking the head off leaves the others apart, in order and behind it.
LEMMA TailFacts ==
    ASSUME NEW S, NEW s \in Seq(S), s # <<>>
    PROVE  /\ Head(s) \in S /\ Tail(s) \in Seq(S)
           /\ RangeOf(s) = RangeOf(Tail(s)) \cup {Head(s)}
           /\ Distinct(s) => Distinct(Tail(s)) /\ Head(s) \notin RangeOf(Tail(s))
           /\ Ordered(s) => /\ Ordered(Tail(s))
                            /\ \A i \in 1..Len(Tail(s)) : Priority[Head(s)] <= Priority[Tail(s)[i]]
<1> DEFINE r == Tail(s)
<1>1. /\ Head(s) \in S /\ r \in Seq(S) /\ Head(s) = s[1]
      /\ Len(s) \in Nat /\ Len(s) >= 1 /\ Len(r) = Len(s) - 1
      /\ \A i \in 1..Len(r) : r[i] = s[i + 1]
  BY HeadTailProperties, EmptySeq, LenProperties
<1> HIDE DEF r
<1>2. RangeOf(s) = RangeOf(r) \cup {Head(s)}
  <2>1. RangeOf(r) \cup {Head(s)} \subseteq RangeOf(s)
    BY <1>1 DEF RangeOf
  <2>2. ASSUME NEW i \in 1..Len(s)  PROVE s[i] \in RangeOf(r) \cup {Head(s)}
    <3>1. CASE i = 1
      BY <3>1, <1>1
    <3>2. CASE i # 1
      <4>1. i - 1 \in 1..Len(r) /\ r[i - 1] = s[i]
        BY <3>2, <1>1
      <4> QED  BY <4>1 DEF RangeOf
    <3> QED  BY <3>1, <3>2
  <2> QED  BY <2>1, <2>2 DEF RangeOf
<1>3. ASSUME Distinct(s)  PROVE Distinct(r) /\ Head(s) \notin RangeOf(r)
  <2>1. Distinct(r)
    BY <1>1, <1>3 DEF Distinct
  <2>2. Head(s) \notin RangeOf(r)
    BY <1>1, <1>3 DEF Distinct, RangeOf
  <2> QED  BY <2>1, <2>2
<1>4. ASSUME Ordered(s)
      PROVE  Ordered(r) /\ \A i \in 1..Len(r) : Priority[Head(s)] <= Priority[r[i]]
  <2>1. Ordered(r)
    BY <1>1, <1>4 DEF Ordered
  <2>2. \A i \in 1..Len(r) : Priority[Head(s)] <= Priority[r[i]]
    BY <1>1, <1>4 DEF Ordered
  <2> QED  BY <2>1, <2>2
<1> QED  BY <1>1, <1>2, <1>3, <1>4 DEF r

\* Nobody is in an empty sequence.
LEMMA EmptyFacts ==
    /\ Len(<<>>) = 0 /\ RangeOf(<<>>) = {} /\ Distinct(<<>>) /\ Ordered(<<>>)
    /\ \A S : <<>> \in Seq(S)
  BY DEF RangeOf, Distinct, Ordered

-----------------------------------------------------------------------------
(* The initial state *)

\* The initial state has the types.
LEMMA InitTypes == Init => Types
<1> SUFFICES ASSUME Init  PROVE Types
  OBVIOUS
<1>1. /\ middleware \in Seq(Middleware) /\ transports \in Seq(Transports)
      /\ listeners \in Seq(Listeners) /\ gone \subseteq Listeners
  BY EmptyFacts DEF Init
<1>2. routes \in [Relays -> Seq(Routes)] /\ removed \in [Relays -> SUBSET Routes]
  <2>1. ASSUME NEW t \in Relays  PROVE <<CHOOSE r \in Routes : TRUE>> \in Seq(Routes)
    <3>1. (CHOOSE r \in Routes : TRUE) \in Routes
      BY <2>1, ListenersAssumption
    <3> QED  BY <3>1
  <2> QED  BY <2>1 DEF Init
<1>3. call \in [Calls -> CallType]
  BY EmptyFacts DEF Init, NotYet, CallType
<1>4. fan \in [Calls -> [Sites -> [st : {"none", "pending", "running", "done"},
                                   todo : Seq(Listeners \cup Routes),
                                   heard : Seq(Listeners \cup Routes)]]]
  BY EmptyFacts DEF Init, NoFan
<1>5. published \in Nat /\ dropped \in Nat
  BY DEF Init
<1>6. hist \in [Calls -> HistType]
  <2>1. NoHist \in HistType
    <3>1. [s \in Sites |-> {}] \in [Sites -> SUBSET (Listeners \cup Routes)]
      OBVIOUS
    <3>2. <<>> \in Seq(Middleware)
      OBVIOUS
    <3> QED  BY <3>1, <3>2 DEF NoHist, HistType
  <2> QED  BY <2>1 DEF Init
<1> QED  BY <1>1, <1>2, <1>3, <1>4, <1>5, <1>6 DEF Types, FanType

\* The invariant holds of a bus with empty registries and no call begun.
LEMMA InitInv == Init => IndInv
<1> SUFFICES ASSUME Init  PROVE IndInv
  OBVIOUS
<1>1. Types
  BY InitTypes
<1>2. Registries
  <2>1. \A x : Distinct(<<x>>)
    BY DEF Distinct
  <2>2. \A s \in Sites : Distinct(Audience(s)) /\ Departed(s) = {}
    BY <2>1, EmptyFacts DEF Init, Audience, Departed
  <2> QED  BY <2>2, EmptyFacts DEF Init, Registries
<1>3. ASSUME NEW c \in Calls  PROVE CallInv(c)
  <2>1. call[c] = NotYet /\ hist[c] = NoHist /\ \A s \in Sites : fan[c][s] = NoFan
    BY DEF Init
  <2>2. Fallback \in Sites
    BY DEF Sites
  <2>3. Gate(c)
    BY <2>1, EmptyFacts DEF Gate, At, NotYet, NoHist, Unrouted, Early
  <2>4. Matrix(c) /\ Informed(c)
    BY <2>1 DEF Matrix, Informed, NotYet, NoHist
  <2>5. Before(c) /\ Mirrored(c) /\ Ahead(c)
    BY <2>1, EmptyFacts DEF Before, Mirrored, Ahead, At, NotYet, NoHist
  <2>6. ASSUME NEW s \in Sites
        PROVE  Shape(c, s) /\ Once(c, s) /\ Covered(c, s) /\ InOrder(c, s)
    <3>1. /\ fan[c][s].st = "none" /\ fan[c][s].todo = <<>> /\ fan[c][s].heard = <<>>
          /\ fan[c][s] = NoFan /\ hist[c].gone[s] = {} /\ hist[c].live[s] = {}
          /\ hist[c].refused = {}
      BY <2>1 DEF NoFan, NoHist
    <3>2. Shape(c, s)
      BY <3>1 DEF Shape
    <3>3. Once(c, s) /\ InOrder(c, s)
      BY <3>1, EmptyFacts DEF Once, InOrder
    <3>4. Covered(c, s)
      BY <3>1 DEF Covered
    <3> QED  BY <3>2, <3>3, <3>4
  <2> QED  BY <2>3, <2>4, <2>5, <2>6 DEF CallInv, FanInv, SiteInv
<1> QED  BY <1>1, <1>2, <1>3 DEF IndInv

-----------------------------------------------------------------------------
(* Registration *)

\* What a registration call may do to the containers, as far as calls that are
\* under way depend on it: middleware stays, nobody who has left comes back.
Grows ==
    /\ RangeOf(middleware) \subseteq RangeOf(middleware')
    /\ \A s \in Sites : /\ Departed(s) \subseteq Departed(s)'
                        /\ RangeOf(Audience(s)) \subseteq RangeOf(Audience(s))' \cup Departed(s)'
                        /\ RangeOf(Audience(s))' \cap Departed(s) = {}

\* A change of the registries that is a Grows step disturbs no call under way.
LEMMA GrowsKeepsCalls ==
    ASSUME IndInv, Grows, UNCHANGED <<call, fan, hist>>, NEW c \in Calls
    PROVE  CallInv(c)'
<1>1. CallInv(c)
  BY DEF IndInv
<1>2. Gate(c)' /\ Matrix(c)' /\ Before(c)' /\ Mirrored(c)' /\ Ahead(c)'
  BY <1>1 DEF CallInv, Gate, Matrix, Before, Mirrored, Ahead, At, Unrouted
<1>3. Informed(c)'
  BY <1>1 DEF CallInv, Informed, Grows
<1>4. ASSUME NEW s \in Sites  PROVE SiteInv(c, s)'
  <2>0. SiteInv(c, s)
    BY <1>1 DEF CallInv, FanInv
  <2>1. Shape(c, s)' /\ Once(c, s)' /\ (s \notin Relays => InOrder(c, s)')
    BY <2>0 DEF SiteInv, Shape, Once, InOrder
  <2>2. Covered(c, s)'
    <3>1. Covered(c, s)
      BY <2>0 DEF SiteInv
    <3>2. hist[c].live[s] \cap RangeOf(Audience(s))' \subseteq RangeOf(Audience(s))
      BY <3>1 DEF Covered, Grows
    <3> QED  BY <3>1, <3>2 DEF Covered, Grows
  <2> QED  BY <2>1, <2>2 DEF SiteInv
<1> QED  BY <1>2, <1>3, <1>4 DEF CallInv, FanInv

\* Whatever is kept in priority order has an integer for a priority.
LEMMA PriorityInt ==
    /\ \A y \in Middleware : Priority[y] \in Int
    /\ \A y \in Transports : Priority[y] \in Int
    /\ \A y \in Listeners : Priority[y] \in Int
  BY PriorityAssumption

\* use_middleware() only adds to the middleware.
LEMMA UseMiddlewareStep ==
    ASSUME IndInv, NEW m \in Middleware, UseMiddleware(m)
    PROVE  IndInv'
<1>1. middleware' \in Seq(Middleware) /\ RangeOf(middleware') = RangeOf(middleware) \cup {m}
  BY InsertFacts, PriorityInt DEF UseMiddleware, IndInv, Types
<1>2. Types'
  BY <1>1 DEF UseMiddleware, IndInv, Types
<1>3. Registries' /\ Grows
  BY <1>1 DEF UseMiddleware, IndInv, Registries, Grows, Audience, Departed
<1> QED  BY <1>2, <1>3, GrowsKeepsCalls DEF UseMiddleware, IndInv

\* use_transport() inserts in priority order, and only one that is not there yet.
LEMMA UseTransportStep ==
    ASSUME IndInv, NEW t \in Transports, UseTransport(t)
    PROVE  IndInv'
<1>1. transports' \in Seq(Transports) /\ Distinct(transports')
  BY InsertFacts, PriorityInt DEF UseTransport, IndInv, Types, Registries
<1>2. Types'
  BY <1>1 DEF UseTransport, IndInv, Types
<1>3. Registries' /\ Grows
  BY <1>1 DEF UseTransport, IndInv, Registries, Grows, Audience, Departed
<1> QED  BY <1>2, <1>3, GrowsKeepsCalls DEF UseTransport, IndInv

\* listen() inserts in priority order, and only a listener that never was there.
LEMMA ListenStep ==
    ASSUME IndInv, NEW l \in Listeners, Listen(l)
    PROVE  IndInv'
<1>0. Distinct(listeners) /\ Ordered(listeners) /\ RangeOf(listeners) \cap gone = {}
  <2>1. Fallback \in Sites /\ Fallback \notin Relays
    BY TransportsAssumption DEF Sites, Relays
  <2> QED  BY <2>1 DEF IndInv, Registries, Audience, Departed
<1>1. /\ listeners' \in Seq(Listeners) /\ Distinct(listeners') /\ Ordered(listeners')
      /\ RangeOf(listeners') = RangeOf(listeners) \cup {l}
  BY <1>0, InsertFacts, PriorityInt DEF Listen, IndInv, Types
<1>2. Types'
  BY <1>1 DEF Listen, IndInv, Types
<1>3. Registries' /\ Grows
  BY <1>0, <1>1 DEF Listen, IndInv, Registries, Grows, Audience, Departed
<1> QED  BY <1>2, <1>3, GrowsKeepsCalls DEF Listen, IndInv

\* release() moves a listener from the list to those who have left.
LEMMA ReleaseStep ==
    ASSUME IndInv, NEW l \in Listeners, Release(l)
    PROVE  IndInv'
<1>0. Distinct(listeners) /\ Ordered(listeners) /\ RangeOf(listeners) \cap gone = {}
  <2>1. Fallback \in Sites /\ Fallback \notin Relays
    BY TransportsAssumption DEF Sites, Relays
  <2> QED  BY <2>1 DEF IndInv, Registries, Audience, Departed
<1>1. /\ listeners' \in Seq(Listeners) /\ Distinct(listeners') /\ Ordered(listeners')
      /\ RangeOf(listeners') = RangeOf(listeners) \ {l}
  BY <1>0, EraseFacts DEF Release, IndInv, Types
<1>2. Types'
  BY <1>1 DEF Release, IndInv, Types
<1>3. Registries' /\ Grows
  BY <1>0, <1>1 DEF Release, IndInv, Registries, Grows, Audience, Departed
<1> QED  BY <1>2, <1>3, GrowsKeepsCalls DEF Release, IndInv

\* add_route() appends to the routes of one relay.
LEMMA AddRouteStep ==
    ASSUME IndInv, NEW t \in Relays, NEW r \in Routes, AddRoute(t, r)
    PROVE  IndInv'
<1>0. /\ routes[t] \in Seq(Routes) /\ t \in Sites /\ Distinct(routes[t])
      /\ RangeOf(routes[t]) \cap removed[t] = {} /\ r \notin RangeOf(routes[t]) \cup removed[t]
  BY DEF IndInv, Types, Registries, Audience, Departed, Sites, Relays, AddRoute
<1>1. /\ \A u \in Relays : routes'[u] = IF u = t THEN Append(routes[t], r) ELSE routes[u]
      /\ routes' = [routes EXCEPT ![t] = Append(routes[t], r)]
      /\ UNCHANGED <<middleware, transports, listeners, gone, removed, call, fan, published,
                     dropped, hist>>
  BY DEF AddRoute, IndInv, Types
<1>2. /\ Append(routes[t], r) \in Seq(Routes) /\ Distinct(Append(routes[t], r))
      /\ RangeOf(Append(routes[t], r)) = RangeOf(routes[t]) \cup {r}
  BY <1>0, AppendFacts
<1>3. Types'
  BY <1>1, <1>2 DEF IndInv, Types
<1>4. Registries' /\ Grows
  BY <1>0, <1>1, <1>2 DEF IndInv, Registries, Grows, Audience, Departed
<1> QED  BY <1>1, <1>3, <1>4, GrowsKeepsCalls DEF IndInv

\* remove_route() moves a route of one relay to those it has removed.
LEMMA RemoveRouteStep ==
    ASSUME IndInv, NEW t \in Relays, NEW r \in Routes, RemoveRoute(t, r)
    PROVE  IndInv'
<1>0. /\ routes[t] \in Seq(Routes) /\ t \in Sites
      /\ Distinct(routes[t]) /\ RangeOf(routes[t]) \cap removed[t] = {}
  BY DEF IndInv, Types, Registries, Audience, Departed, Sites, Relays
<1>1. PICK q \in Erase(routes[t], r) : routes' = [routes EXCEPT ![t] = q]
  BY DEF RemoveRoute
<1>2. /\ \A u \in Relays : routes'[u] = IF u = t THEN q ELSE routes[u]
      /\ \A u \in Relays : removed'[u] = IF u = t THEN removed[t] \cup {r} ELSE removed[u]
      /\ removed' \in [Relays -> SUBSET Routes]
      /\ UNCHANGED <<middleware, transports, listeners, gone, call, fan, published, dropped, hist>>
  BY <1>1 DEF RemoveRoute, IndInv, Types
<1>3. q \in Seq(Routes) /\ Distinct(q) /\ RangeOf(q) = RangeOf(routes[t]) \ {r}
  BY <1>0, EraseFacts
<1>4. Types'
  BY <1>1, <1>2, <1>3 DEF IndInv, Types
<1>5. Registries' /\ Grows
  BY <1>0, <1>2, <1>3 DEF IndInv, Registries, Grows, Audience, Departed
<1> QED  BY <1>2, <1>4, <1>5, GrowsKeepsCalls DEF IndInv

-----------------------------------------------------------------------------
(* Steps of one call *)

\* A step of one call leaves the invariant of the others alone.
LEMMA CallerStep ==
    ASSUME IndInv, NEW c \in Calls, UNCHANGED registries,
           call' = [call EXCEPT ![c] = call'[c]], call'[c] \in CallType,
           fan' = [fan EXCEPT ![c] = fan'[c]], fan'[c] \in [Sites -> FanType],
           hist' = [hist EXCEPT ![c] = hist'[c]], hist'[c] \in HistType,
           published' \in Nat, dropped' \in Nat, CallInv(c)'
    PROVE  IndInv'
<1>0. \A d \in Calls : d # c => /\ call'[d] = call[d] /\ fan'[d] = fan[d]
                               /\ hist'[d] = hist[d]
  BY DEF IndInv, Types
<1>1. Types'
  BY DEF IndInv, Types, registries
<1>2. Registries'
  BY DEF IndInv, Registries, registries, Audience, Departed
<1>3. ASSUME NEW d \in Calls, d # c  PROVE CallInv(d)'
  <2>0. call'[d] = call[d] /\ fan'[d] = fan[d] /\ hist'[d] = hist[d] /\ middleware' = middleware
    BY <1>0, <1>3 DEF registries
  <2>1. CallInv(d)
    BY DEF IndInv
  <2>2. Gate(d)'
    BY <2>0, <2>1 DEF CallInv, Gate, At, Unrouted
  <2>3. Matrix(d)' /\ Informed(d)'
    BY <2>0, <2>1 DEF CallInv, Matrix, Informed
  <2>4. Before(d)'
    BY <2>0, <2>1 DEF CallInv, Before, At
  <2>7. Mirrored(d)'
    BY <2>0, <2>1 DEF CallInv, Mirrored, At
  <2>5. Ahead(d)'
    BY <2>0, <2>1 DEF CallInv, Ahead, At
  <2>6. ASSUME NEW s \in Sites  PROVE SiteInv(d, s)'
    <3>1. SiteInv(d, s)
      BY <2>1 DEF CallInv, FanInv
    <3>2. Shape(d, s)' /\ Once(d, s)' /\ (s \notin Relays => InOrder(d, s)')
      BY <2>0, <3>1 DEF SiteInv, Shape, Once, InOrder
    <3>3. Covered(d, s)'
      BY <2>0, <3>1 DEF SiteInv, Covered, Audience, Departed, registries
    <3> QED  BY <3>2, <3>3 DEF SiteInv
  <2> QED  BY <2>2, <2>3, <2>4, <2>5, <2>6, <2>7 DEF CallInv, FanInv
<1> QED  BY <1>1, <1>2, <1>3 DEF IndInv

\* A fan-out that a step does not touch keeps its invariant.
LEMMA SiteKept ==
    ASSUME IndInv, NEW c \in Calls, NEW s \in Sites, UNCHANGED registries,
           fan'[c][s] = fan[c][s],
           hist'[c].live[s] = hist[c].live[s], hist'[c].gone[s] = hist[c].gone[s],
           s \in hist'[c].refused <=> s \in hist[c].refused
    PROVE  SiteInv(c, s)'
<1>1. SiteInv(c, s)
  BY DEF IndInv, CallInv, FanInv
<1>2. Shape(c, s)'
  BY <1>1 DEF SiteInv, Shape
<1>3. Once(c, s)' /\ (s \notin Relays => InOrder(c, s)')
  BY <1>1 DEF SiteInv, Once, InOrder
<1>4. Covered(c, s)'
  BY <1>1 DEF SiteInv, Covered, Audience, Departed, registries
<1> QED  BY <1>2, <1>3, <1>4 DEF SiteInv

\* So a step that runs no fan-out keeps the invariant of all of them.
LEMMA FansKept ==
    ASSUME IndInv, NEW c \in Calls, UNCHANGED registries, fan'[c] = fan[c],
           hist'[c].live = hist[c].live, hist'[c].gone = hist[c].gone,
           hist'[c].refused = hist[c].refused
    PROVE  FanInv(c)'
  BY SiteKept DEF FanInv

\* What the steps assign to the local variables of a call keeps their types.
States == {"idle", "before", "snapshot", "conflict", "route", "wait", "after", "done"}
\* The updates of a call's record that the steps make keep its type.
LEMMA CallTyped ==
    ASSUME NEW C \in CallType
    PROVE  /\ \A k \in Nat : [C EXCEPT !.k = k] \in CallType
           /\ \A at \in States : [C EXCEPT !.at = at] \in CallType
           /\ \A at \in States, k \in Nat : [C EXCEPT !.at = at, !.k = k] \in CallType
           /\ \A at \in States, b \in BOOLEAN : [C EXCEPT !.at = at, !.proceed = b] \in CallType
           /\ \A k \in Nat, F \in SUBSET Flags : [C EXCEPT !.k = k, !.flags = F] \in CallType
           /\ \A t \in Seq(Transports), k \in Nat, at \in States :
                 [C EXCEPT !.ts = t, !.k = k, !.at = at] \in CallType
           /\ \A at \in States, F \in SUBSET Flags, l, r \in BOOLEAN, m \in Seq(Middleware) :
                 [C EXCEPT !.at = at, !.flags = F, !.local_only = l, !.remote_only = r,
                           !.mws = m] \in CallType
<1>1. ASSUME NEW k \in Nat  PROVE [C EXCEPT !.k = k] \in CallType
  BY DEF CallType
<1>2. ASSUME NEW at \in States  PROVE [C EXCEPT !.at = at] \in CallType
  BY DEF CallType, States
<1>3. ASSUME NEW at \in States, NEW k \in Nat  PROVE [C EXCEPT !.at = at, !.k = k] \in CallType
  BY DEF CallType, States
<1>4. ASSUME NEW at \in States, NEW b \in BOOLEAN
      PROVE  [C EXCEPT !.at = at, !.proceed = b] \in CallType
  BY DEF CallType, States
<1>5. ASSUME NEW k \in Nat, NEW F \in SUBSET Flags
      PROVE  [C EXCEPT !.k = k, !.flags = F] \in CallType
  BY DEF CallType
<1>6. ASSUME NEW t \in Seq(Transports), NEW k \in Nat, NEW at \in States
      PROVE  [C EXCEPT !.ts = t, !.k = k, !.at = at] \in CallType
  BY DEF CallType, States
<1>7. ASSUME NEW at \in States, NEW F \in SUBSET Flags, NEW l \in BOOLEAN, NEW r \in BOOLEAN,
             NEW m \in Seq(Middleware)
      PROVE  [C EXCEPT !.at = at, !.flags = F, !.local_only = l, !.remote_only = r,
                       !.mws = m] \in CallType
  BY DEF CallType, States
<1> QED  BY <1>1, <1>2, <1>3, <1>4, <1>5, <1>6, <1>7

\* What the steps assign to the history of a call keeps its types.
LEMMA HistTyped ==
    ASSUME NEW H \in HistType
    PROVE  /\ \A b \in Seq(Middleware) : [H EXCEPT !.before = b] \in HistType
           /\ \A b \in Seq(Middleware), T \in SUBSET Middleware :
                 /\ [H EXCEPT !.before = b, !.told = T] \in HistType
                 /\ [H EXCEPT !.after = b, !.told = T] \in HistType
           /\ \A b \in Seq(Middleware), v \in BOOLEAN :
                 [H EXCEPT !.before = b, !.vetoed = v] \in HistType
           /\ \A T \in SUBSET Middleware, v \in BOOLEAN :
                 [H EXCEPT !.told = T, !.failed = v] \in HistType
           /\ \A R \in SUBSET Transports : [H EXCEPT !.refused = R] \in HistType
           /\ \A X \in SUBSET (Transports \X SUBSET Flags) : [H EXCEPT !.sent = X] \in HistType
           /\ \A L, G \in [Sites -> SUBSET (Listeners \cup Routes)], K \in SUBSET Middleware :
                 [H EXCEPT !.live = L, !.gone = G, !.known = K] \in HistType
<1>1. ASSUME NEW b \in Seq(Middleware)  PROVE [H EXCEPT !.before = b] \in HistType
  BY DEF HistType
<1>2. ASSUME NEW b \in Seq(Middleware), NEW T \in SUBSET Middleware
      PROVE  [H EXCEPT !.before = b, !.told = T] \in HistType
  BY DEF HistType
<1>3. ASSUME NEW b \in Seq(Middleware), NEW T \in SUBSET Middleware
      PROVE  [H EXCEPT !.after = b, !.told = T] \in HistType
  BY DEF HistType
<1>4. ASSUME NEW b \in Seq(Middleware), NEW v \in BOOLEAN
      PROVE  [H EXCEPT !.before = b, !.vetoed = v] \in HistType
  BY DEF HistType
<1>5. ASSUME NEW T \in SUBSET Middleware, NEW v \in BOOLEAN
      PROVE  [H EXCEPT !.told = T, !.failed = v] \in HistType
  BY DEF HistType
<1>6. ASSUME NEW R \in SUBSET Transports  PROVE [H EXCEPT !.refused = R] \in HistType
  BY DEF HistType
<1>7. ASSUME NEW X \in SUBSET (Transports \X SUBSET Flags)
      PROVE  [H EXCEPT !.sent = X] \in HistType
  BY DEF HistType
<1>8. ASSUME NEW L \in [Sites -> SUBSET (Listeners \cup Routes)],
             NEW G \in [Sites -> SUBSET (Listeners \cup Routes)], NEW K \in SUBSET Middleware
      PROVE  [H EXCEPT !.live = L, !.gone = G, !.known = K] \in HistType
  BY DEF HistType
<1> QED  BY <1>1, <1>2, <1>3, <1>4, <1>5, <1>6, <1>7, <1>8

\* before_dispatch returned true.
LEMMA BeforeOkStep ==
    ASSUME IndInv, NEW c \in Calls, BeforeOk(c)
    PROVE  IndInv'
<1>0. call[c] \in CallType /\ hist[c] \in HistType /\ CallInv(c)
  BY DEF IndInv, Types
<1>1. At(c) = "before" /\ call[c].k <= Len(call[c].mws) /\ call[c].k >= 1
  BY <1>0 DEF BeforeOk, CallInv, Gate, Before, CallType, InBefore, Flags
<1>14. Current(c) \in Middleware
  BY <1>0, <1>1 DEF Current, CallType
<1>2. PICK F \in SUBSET Flags : call' = [call EXCEPT ![c].k = @ + 1, ![c].flags = F]
  BY <1>0 DEF BeforeOk, CallType, Flags
<1>3. /\ call'[c] = [call[c] EXCEPT !.k = call[c].k + 1, !.flags = F]
      /\ hist'[c] = [hist[c] EXCEPT !.before = Append(hist[c].before, Current(c))]
      /\ UNCHANGED registries /\ UNCHANGED fan /\ UNCHANGED <<published, dropped>>
  BY <1>0, <1>2 DEF BeforeOk, IndInv, Types
<1>4. call' = [call EXCEPT ![c] = call'[c]] /\ hist' = [hist EXCEPT ![c] = hist'[c]]
  BY <1>3, <1>2 DEF BeforeOk, IndInv, Types
<1>5. call'[c] \in CallType
  <2>1. call[c].k + 1 \in Nat
    BY <1>0 DEF CallType
  <2>2. [call[c] EXCEPT !.k = call[c].k + 1, !.flags = F] \in CallType
    BY <1>0, <2>1, <1>2, CallTyped, Zenon
  <2> QED  BY <2>2, <1>3
<1>6. hist'[c] \in HistType
  <2>0. hist[c].before \in Seq(Middleware) /\ hist[c].told \in SUBSET Middleware
    BY <1>0 DEF HistType
  <2>1. /\ Append(hist[c].before, Current(c)) \in Seq(Middleware)
        /\ hist[c].told \cup {Current(c)} \in SUBSET Middleware
    BY <2>0, <1>14
  <2>2. [hist[c] EXCEPT !.before = Append(hist[c].before, Current(c))] \in HistType
    BY <1>0, <2>1, HistTyped, Zenon
  <2> QED  BY <2>2, <1>3
<1>7. Gate(c)'
  BY <1>0, <1>1, <1>3 DEF CallInv, Gate, At, Unrouted, Early, CallType, HistType
<1>8. Matrix(c)'
  BY <1>0, <1>3 DEF CallInv, Matrix, CallType, HistType
<1>9. Before(c)'
  BY <1>0, <1>1, <1>3, <1>14 DEF CallInv, Before, At, CallType, HistType, Current
<1>10. Mirrored(c)'
  BY <1>0, <1>1, <1>3 DEF CallInv, Mirrored, At, CallType, HistType
<1>11. Informed(c)'
  BY <1>0, <1>3 DEF CallInv, Informed, HistType, registries
<1>12. Ahead(c)'
  BY <1>0, <1>1, <1>3 DEF CallInv, Ahead, At, CallType, HistType
<1>13. FanInv(c)'
  BY <1>0, <1>3, FansKept DEF HistType
<1> QED  BY <1>3, <1>4, <1>5, <1>6, <1>7, <1>8, <1>9, <1>10, <1>11, <1>12, <1>13, CallerStep
            DEF CallInv, IndInv, Types

\* before_dispatch threw.
LEMMA BeforeThrowStep ==
    ASSUME IndInv, NEW c \in Calls, BeforeThrow(c)
    PROVE  IndInv'
<1>0. call[c] \in CallType /\ hist[c] \in HistType /\ CallInv(c)
  BY DEF IndInv, Types
<1>1. At(c) = "before" /\ call[c].k <= Len(call[c].mws) /\ call[c].k >= 1
  BY <1>0 DEF BeforeThrow, CallInv, Gate, Before, CallType, InBefore
<1>2. Current(c) \in Middleware /\ Current(c) = call[c].mws[call[c].k]
  BY <1>0, <1>1 DEF Current, CallType
<1>3. /\ call'[c] = [call[c] EXCEPT !.k = call[c].k + 1]
      /\ hist'[c] = [hist[c] EXCEPT !.before = Append(hist[c].before, Current(c)),
                                    !.told = hist[c].told \cup {Current(c)}]
      /\ UNCHANGED registries /\ UNCHANGED fan /\ UNCHANGED <<published, dropped>>
  BY <1>0 DEF BeforeThrow, IndInv, Types
<1>4. call' = [call EXCEPT ![c] = call'[c]] /\ hist' = [hist EXCEPT ![c] = hist'[c]]
  BY <1>3 DEF BeforeThrow, IndInv, Types
<1>5. call'[c] \in CallType
  <2>1. call[c].k + 1 \in Nat
    BY <1>0 DEF CallType
  <2>2. [call[c] EXCEPT !.k = call[c].k + 1] \in CallType
    BY <1>0, <2>1, CallTyped, Zenon
  <2> QED  BY <2>2, <1>3
<1>6. hist'[c] \in HistType
  <2>0. hist[c].before \in Seq(Middleware) /\ hist[c].told \in SUBSET Middleware
    BY <1>0 DEF HistType
  <2>1. /\ Append(hist[c].before, Current(c)) \in Seq(Middleware)
        /\ hist[c].told \cup {Current(c)} \in SUBSET Middleware
    BY <2>0, <1>2
  <2>2. [hist[c] EXCEPT !.before = Append(hist[c].before, Current(c)),
                        !.told = hist[c].told \cup {Current(c)}] \in HistType
    BY <1>0, <2>1, HistTyped, Zenon
  <2> QED  BY <2>2, <1>3
<1>7. Gate(c)'
  BY <1>0, <1>1, <1>3 DEF CallInv, Gate, At, Unrouted, Early, CallType, HistType
<1>8. Matrix(c)'
  BY <1>0, <1>3 DEF CallInv, Matrix, CallType, HistType
<1>9. Before(c)'
  BY <1>0, <1>1, <1>2, <1>3 DEF CallInv, Before, At, CallType, HistType
<1>10. Mirrored(c)'
  BY <1>0, <1>1, <1>3 DEF CallInv, Mirrored, At, CallType, HistType
<1>11. Informed(c)'
  <2>1. Current(c) \in MayThrow
    BY DEF BeforeThrow
  <2>2. /\ hist'[c].known = hist[c].known /\ hist'[c].failed = hist[c].failed
        /\ hist'[c].told = hist[c].told \cup {Current(c)} /\ middleware' = middleware
    BY <1>0, <1>3 DEF HistType, registries
  <2> QED  BY <2>1, <2>2, <1>0 DEF CallInv, Informed
<1>12. Ahead(c)'
  BY <1>0, <1>1, <1>3 DEF CallInv, Ahead, At, CallType, HistType
<1>13. FanInv(c)'
  BY <1>0, <1>3, FansKept DEF HistType
<1> QED  BY <1>3, <1>4, <1>5, <1>6, <1>7, <1>8, <1>9, <1>10, <1>11, <1>12, <1>13, CallerStep
            DEF CallInv, IndInv, Types

\* before_dispatch returned false.
LEMMA BeforeVetoStep ==
    ASSUME IndInv, NEW c \in Calls, BeforeVeto(c)
    PROVE  IndInv'
<1>0. call[c] \in CallType /\ hist[c] \in HistType /\ CallInv(c)
  BY DEF IndInv, Types
<1>1. At(c) = "before" /\ call[c].k <= Len(call[c].mws) /\ call[c].k >= 1
  BY <1>0 DEF BeforeVeto, CallInv, Gate, Before, CallType, InBefore
<1>2. Current(c) \in Middleware /\ Current(c) = call[c].mws[call[c].k]
  BY <1>0, <1>1 DEF Current, CallType
<1>3. /\ call'[c] = [call[c] EXCEPT !.at = "snapshot", !.proceed = FALSE]
      /\ hist'[c] = [hist[c] EXCEPT !.before = Append(hist[c].before, Current(c)), !.vetoed = TRUE]
      /\ UNCHANGED registries /\ UNCHANGED fan /\ UNCHANGED published /\ dropped' \in Nat
  BY <1>0 DEF BeforeVeto, IndInv, Types
<1>4. call' = [call EXCEPT ![c] = call'[c]] /\ hist' = [hist EXCEPT ![c] = hist'[c]]
  BY <1>3 DEF BeforeVeto, IndInv, Types
<1>5. call'[c] \in CallType
  <2>1. "snapshot" \in States
    BY DEF States
  <2>2. [call[c] EXCEPT !.at = "snapshot", !.proceed = FALSE] \in CallType
    BY <1>0, <2>1, CallTyped, Zenon
  <2> QED  BY <2>2, <1>3
<1>6. hist'[c] \in HistType
  <2>0. hist[c].before \in Seq(Middleware) /\ hist[c].told \in SUBSET Middleware
    BY <1>0 DEF HistType
  <2>1. /\ Append(hist[c].before, Current(c)) \in Seq(Middleware)
        /\ hist[c].told \cup {Current(c)} \in SUBSET Middleware
    BY <2>0, <1>2
  <2>2. [hist[c] EXCEPT !.before = Append(hist[c].before, Current(c)), !.vetoed = TRUE] \in HistType
    BY <1>0, <2>1, HistTyped, Zenon
  <2> QED  BY <2>2, <1>3
<1>7. Gate(c)'
  BY <1>0, <1>1, <1>3 DEF CallInv, Gate, At, Unrouted, Early, CallType, HistType
<1>8. Matrix(c)'
  BY <1>0, <1>3 DEF CallInv, Matrix, CallType, HistType
<1>9. Before(c)'
  BY <1>0, <1>1, <1>2, <1>3 DEF CallInv, Before, At, CallType, HistType
<1>10. Mirrored(c)'
  BY <1>0, <1>1, <1>3 DEF CallInv, Mirrored, At, CallType, HistType
<1>11. Informed(c)'
  BY <1>0, <1>3 DEF CallInv, Informed, HistType, registries
<1>12. Ahead(c)'
  BY <1>0, <1>1, <1>3 DEF CallInv, Ahead, At, CallType, HistType
<1>13. FanInv(c)'
  BY <1>0, <1>3, FansKept DEF HistType
<1> QED  BY <1>3, <1>4, <1>5, <1>6, <1>7, <1>8, <1>9, <1>10, <1>11, <1>12, <1>13, CallerStep
            DEF CallInv, IndInv, Types

\* All of the copy has been run, so before_dispatch was not cut short.
LEMMA BeforeDoneStep ==
    ASSUME IndInv, NEW c \in Calls, BeforeDone(c)
    PROVE  IndInv'
<1>0. call[c] \in CallType /\ hist[c] \in HistType /\ CallInv(c)
  BY DEF IndInv, Types
<1>1. At(c) = "before" /\ call[c].k > Len(call[c].mws) /\ call[c].k >= 1
  BY <1>0 DEF BeforeDone, CallInv, Gate, Before, CallType
<1>3. /\ call'[c] = [call[c] EXCEPT !.at = "snapshot"]
      /\ UNCHANGED hist
      /\ UNCHANGED registries /\ UNCHANGED fan /\ UNCHANGED <<published, dropped>>
  BY <1>0 DEF BeforeDone, IndInv, Types
<1>4. call' = [call EXCEPT ![c] = call'[c]] /\ hist' = [hist EXCEPT ![c] = hist'[c]]
  BY <1>3 DEF BeforeDone, IndInv, Types
<1>5. call'[c] \in CallType
  <2>1. "snapshot" \in States
    BY DEF States
  <2>2. [call[c] EXCEPT !.at = "snapshot"] \in CallType
    BY <1>0, <2>1, CallTyped, Zenon
  <2> QED  BY <2>2, <1>3
<1>6. hist'[c] \in HistType
  BY <1>0, <1>3
<1>7. Gate(c)'
  BY <1>0, <1>1, <1>3 DEF CallInv, Gate, At, Unrouted, Early, CallType, HistType
<1>8. Matrix(c)'
  BY <1>0, <1>3 DEF CallInv, Matrix, CallType, HistType
<1>9. Before(c)'
  BY <1>0, <1>1, <1>3 DEF CallInv, Before, At, CallType, HistType
<1>10. Mirrored(c)'
  BY <1>0, <1>1, <1>3 DEF CallInv, Mirrored, At, CallType, HistType
<1>11. Informed(c)'
  BY <1>0, <1>3 DEF CallInv, Informed, HistType, registries
<1>12. Ahead(c)'
  BY <1>0, <1>1, <1>3 DEF CallInv, Ahead, At, CallType, HistType
<1>13. FanInv(c)'
  BY <1>0, <1>3, FansKept DEF HistType
<1> QED  BY <1>3, <1>4, <1>5, <1>6, <1>7, <1>8, <1>9, <1>10, <1>11, <1>12, <1>13, CallerStep
            DEF CallInv, IndInv, Types

\* The transports are copied; the copy holds nobody twice.
LEMMA SnapshotStep ==
    ASSUME IndInv, NEW c \in Calls, Snapshot(c)
    PROVE  IndInv'
<1>0. call[c] \in CallType /\ hist[c] \in HistType /\ CallInv(c)
  BY DEF IndInv, Types
<1>1. At(c) = "snapshot" /\ transports \in Seq(Transports) /\ Distinct(transports)
  BY <1>0 DEF Snapshot, CallInv, Gate, Before, CallType, IndInv, Types, Registries
<1>3. /\ call'[c] = [call[c] EXCEPT !.ts = transports, !.k = 1,
                                    !.at = IF call[c].local_only /\ call[c].remote_only
                                           THEN "conflict" ELSE "route"]
      /\ UNCHANGED hist
      /\ UNCHANGED registries /\ UNCHANGED fan /\ UNCHANGED <<published, dropped>>
  BY <1>0 DEF Snapshot, IndInv, Types
<1>4. call' = [call EXCEPT ![c] = call'[c]] /\ hist' = [hist EXCEPT ![c] = hist'[c]]
  BY <1>3 DEF Snapshot, IndInv, Types
<1>5. call'[c] \in CallType
  <2> DEFINE at == IF call[c].local_only /\ call[c].remote_only THEN "conflict" ELSE "route"
  <2>1. at \in States /\ 1 \in Nat
    BY DEF States
  <2> HIDE DEF at
  <2>2. [call[c] EXCEPT !.ts = transports, !.k = 1, !.at = at] \in CallType
    BY <1>0, <1>1, <2>1, CallTyped, Zenon
  <2> QED  BY <2>2, <1>3 DEF at
<1>6. hist'[c] \in HistType
  BY <1>0, <1>3
<1>7. Gate(c)'
  BY <1>0, <1>1, <1>3 DEF CallInv, Gate, At, Unrouted, Early, CallType, HistType
<1>8. Matrix(c)'
  BY <1>0, <1>3 DEF CallInv, Matrix, CallType, HistType
<1>9. Before(c)'
  BY <1>0, <1>1, <1>3 DEF CallInv, Before, At, CallType, HistType
<1>10. Mirrored(c)'
  BY <1>0, <1>1, <1>3 DEF CallInv, Mirrored, At, CallType, HistType
<1>11. Informed(c)'
  BY <1>0, <1>3 DEF CallInv, Informed, HistType, registries
<1>12. Ahead(c)'
  <2>1. \A i \in 1..Len(transports) : transports[i] \in Sites
    BY <1>1 DEF Sites
  <2>2. hist[c].refused = {} /\ \A s \in Sites : fan[c][s] = NoFan
    BY <1>0, <1>1 DEF CallInv, Gate, Unrouted, Early
  <2>3. call'[c].ts = transports
    BY <1>0, <1>3 DEF CallType
  <2> QED  BY <2>1, <2>2, <2>3, <1>3 DEF Ahead
<1>13. FanInv(c)'
  BY <1>0, <1>3, FansKept DEF HistType
<1> QED  BY <1>3, <1>4, <1>5, <1>6, <1>7, <1>8, <1>9, <1>10, <1>11, <1>12, <1>13, CallerStep
            DEF CallInv, IndInv, Types

\* LocalOnly and RemoteOnly: the envelope is dropped and the failure reported.
LEMMA ConflictStep ==
    ASSUME IndInv, NEW c \in Calls, Conflict(c)
    PROVE  IndInv'
<1>0. call[c] \in CallType /\ hist[c] \in HistType /\ CallInv(c)
  BY DEF IndInv, Types
<1>1. At(c) = "conflict"
  BY <1>0 DEF Conflict, CallInv, Gate, Before, CallType
<1>3. /\ call'[c] = [call[c] EXCEPT !.at = "route", !.proceed = FALSE]
      /\ hist'[c] = [hist[c] EXCEPT !.told = hist[c].told \cup RangeOf(middleware), !.failed = TRUE]
      /\ UNCHANGED registries /\ UNCHANGED fan /\ UNCHANGED published /\ dropped' \in Nat
  BY <1>0 DEF Conflict, IndInv, Types, Told
<1>4. call' = [call EXCEPT ![c] = call'[c]] /\ hist' = [hist EXCEPT ![c] = hist'[c]]
  BY <1>3 DEF Conflict, IndInv, Types, Told
<1>5. call'[c] \in CallType
  <2>1. "route" \in States
    BY DEF States
  <2>2. [call[c] EXCEPT !.at = "route", !.proceed = FALSE] \in CallType
    BY <1>0, <2>1, CallTyped, Zenon
  <2> QED  BY <2>2, <1>3
<1>6. hist'[c] \in HistType
  <2>0. hist[c].told \in SUBSET Middleware /\ middleware \in Seq(Middleware)
    BY <1>0 DEF HistType, IndInv, Types
  <2>1. hist[c].told \cup RangeOf(middleware) \in SUBSET Middleware
    BY <2>0 DEF RangeOf
  <2>2. [hist[c] EXCEPT !.told = hist[c].told \cup RangeOf(middleware),
                        !.failed = TRUE] \in HistType
    BY <1>0, <2>1, HistTyped, Zenon
  <2> QED  BY <2>2, <1>3
<1>7. Gate(c)'
  BY <1>0, <1>1, <1>3 DEF CallInv, Gate, At, Unrouted, Early, CallType, HistType
<1>8. Matrix(c)'
  BY <1>0, <1>3 DEF CallInv, Matrix, CallType, HistType
<1>9. Before(c)'
  BY <1>0, <1>1, <1>3 DEF CallInv, Before, At, CallType, HistType
<1>10. Mirrored(c)'
  BY <1>0, <1>1, <1>3 DEF CallInv, Mirrored, At, CallType, HistType
<1>11. Informed(c)'
  BY <1>0, <1>3 DEF CallInv, Informed, HistType, registries
<1>12. Ahead(c)'
  <2>1. \A i \in 1..Len(call[c].ts) : call[c].ts[i] \in Sites
    BY <1>0 DEF Sites, CallType
  <2>2. hist[c].refused = {} /\ \A s \in Sites : fan[c][s] = NoFan
    BY <1>0, <1>1 DEF CallInv, Gate, Unrouted, Early
  <2>3. call'[c].ts = call[c].ts /\ hist'[c].refused = hist[c].refused
    BY <1>0, <1>3 DEF CallType, HistType
  <2> QED  BY <2>1, <2>2, <2>3, <1>3 DEF Ahead
<1>13. FanInv(c)'
  BY <1>0, <1>3, FansKept DEF HistType
<1> QED  BY <1>3, <1>4, <1>5, <1>6, <1>7, <1>8, <1>9, <1>10, <1>11, <1>12, <1>13, CallerStep
            DEF CallInv, IndInv, Types

\* Out of scope: the transport is stepped over.
LEMMA RouteSkipStep ==
    ASSUME IndInv, NEW c \in Calls, RouteSkip(c)
    PROVE  IndInv'
<1>0. call[c] \in CallType /\ hist[c] \in HistType /\ CallInv(c)
  BY DEF IndInv, Types
<1>1. At(c) = "route" /\ call[c].proceed /\ call[c].k <= Len(call[c].ts) /\ call[c].k >= 1
  BY <1>0 DEF RouteSkip, CallInv, Gate, Before, CallType, Routing
<1>3. /\ call'[c] = [call[c] EXCEPT !.k = call[c].k + 1]
      /\ UNCHANGED hist
      /\ UNCHANGED registries /\ UNCHANGED fan /\ UNCHANGED <<published, dropped>>
  BY <1>0 DEF RouteSkip, IndInv, Types
<1>4. call' = [call EXCEPT ![c] = call'[c]] /\ hist' = [hist EXCEPT ![c] = hist'[c]]
  BY <1>3 DEF RouteSkip, IndInv, Types
<1>5. call'[c] \in CallType
  <2>1. call[c].k + 1 \in Nat
    BY <1>0 DEF CallType
  <2>2. [call[c] EXCEPT !.k = call[c].k + 1] \in CallType
    BY <1>0, <2>1, CallTyped, Zenon
  <2> QED  BY <2>2, <1>3
<1>6. hist'[c] \in HistType
  BY <1>0, <1>3
<1>7. Gate(c)'
  BY <1>0, <1>1, <1>3 DEF CallInv, Gate, At, Unrouted, Early, CallType, HistType
<1>8. Matrix(c)'
  BY <1>0, <1>3 DEF CallInv, Matrix, CallType, HistType
<1>9. Before(c)'
  BY <1>0, <1>1, <1>3 DEF CallInv, Before, At, CallType, HistType
<1>10. Mirrored(c)'
  BY <1>0, <1>1, <1>3 DEF CallInv, Mirrored, At, CallType, HistType
<1>11. Informed(c)'
  BY <1>0, <1>3 DEF CallInv, Informed, HistType, registries
<1>12. Ahead(c)'
  BY <1>0, <1>1, <1>3 DEF CallInv, Ahead, At, CallType, HistType
<1>13. FanInv(c)'
  BY <1>0, <1>3, FansKept DEF HistType
<1> QED  BY <1>3, <1>4, <1>5, <1>6, <1>7, <1>8, <1>9, <1>10, <1>11, <1>12, <1>13, CallerStep
            DEF CallInv, IndInv, Types

\* dispatch() threw.
LEMMA RouteThrowStep ==
    ASSUME IndInv, NEW c \in Calls, RouteThrow(c)
    PROVE  IndInv'
<1>0. call[c] \in CallType /\ hist[c] \in HistType /\ CallInv(c)
  BY DEF IndInv, Types
<1>1. At(c) = "route" /\ call[c].proceed /\ call[c].k <= Len(call[c].ts) /\ call[c].k >= 1
  BY <1>0 DEF RouteThrow, CallInv, Gate, Before, CallType, Routing
<1>3. /\ call'[c] = [call[c] EXCEPT !.k = call[c].k + 1]
      /\ hist'[c] = [hist[c] EXCEPT !.told = hist[c].told \cup RangeOf(middleware), !.failed = TRUE]
      /\ UNCHANGED registries /\ UNCHANGED fan /\ UNCHANGED <<published, dropped>>
  BY <1>0 DEF RouteThrow, IndInv, Types, Told
<1>4. call' = [call EXCEPT ![c] = call'[c]] /\ hist' = [hist EXCEPT ![c] = hist'[c]]
  BY <1>3 DEF RouteThrow, IndInv, Types, Told
<1>5. call'[c] \in CallType
  <2>1. call[c].k + 1 \in Nat
    BY <1>0 DEF CallType
  <2>2. [call[c] EXCEPT !.k = call[c].k + 1] \in CallType
    BY <1>0, <2>1, CallTyped, Zenon
  <2> QED  BY <2>2, <1>3
<1>6. hist'[c] \in HistType
  <2>0. hist[c].told \in SUBSET Middleware /\ middleware \in Seq(Middleware)
    BY <1>0 DEF HistType, IndInv, Types
  <2>1. hist[c].told \cup RangeOf(middleware) \in SUBSET Middleware
    BY <2>0 DEF RangeOf
  <2>2. [hist[c] EXCEPT !.told = hist[c].told \cup RangeOf(middleware),
                        !.failed = TRUE] \in HistType
    BY <1>0, <2>1, HistTyped, Zenon
  <2> QED  BY <2>2, <1>3
<1>7. Gate(c)'
  BY <1>0, <1>1, <1>3 DEF CallInv, Gate, At, Unrouted, Early, CallType, HistType
<1>8. Matrix(c)'
  BY <1>0, <1>3 DEF CallInv, Matrix, CallType, HistType
<1>9. Before(c)'
  BY <1>0, <1>1, <1>3 DEF CallInv, Before, At, CallType, HistType
<1>10. Mirrored(c)'
  BY <1>0, <1>1, <1>3 DEF CallInv, Mirrored, At, CallType, HistType
<1>11. Informed(c)'
  BY <1>0, <1>3 DEF CallInv, Informed, HistType, registries
<1>12. Ahead(c)'
  BY <1>0, <1>1, <1>3 DEF CallInv, Ahead, At, CallType, HistType
<1>13. FanInv(c)'
  BY <1>0, <1>3, FansKept DEF HistType
<1> QED  BY <1>3, <1>4, <1>5, <1>6, <1>7, <1>8, <1>9, <1>10, <1>11, <1>12, <1>13, CallerStep
            DEF CallInv, IndInv, Types

\* A transport that fans out on this thread has returned.
LEMMA InlineReturnStep ==
    ASSUME IndInv, NEW c \in Calls, InlineReturn(c)
    PROVE  IndInv'
<1>0. call[c] \in CallType /\ hist[c] \in HistType /\ CallInv(c)
  BY DEF IndInv, Types
<1>1. At(c) = "wait" /\ call[c].k <= Len(call[c].ts) /\ call[c].k >= 1
  BY <1>0 DEF InlineReturn, CallInv, Gate, Before, CallType
<1>3. /\ call'[c] = [call[c] EXCEPT !.at = "route", !.k = call[c].k + 1]
      /\ UNCHANGED hist
      /\ UNCHANGED registries /\ UNCHANGED fan /\ UNCHANGED <<published, dropped>>
  BY <1>0 DEF InlineReturn, IndInv, Types
<1>4. call' = [call EXCEPT ![c] = call'[c]] /\ hist' = [hist EXCEPT ![c] = hist'[c]]
  BY <1>3 DEF InlineReturn, IndInv, Types
<1>5. call'[c] \in CallType
  <2>1. call[c].k + 1 \in Nat /\ "route" \in States
    BY <1>0 DEF CallType, States
  <2>2. [call[c] EXCEPT !.at = "route", !.k = call[c].k + 1] \in CallType
    BY <1>0, <2>1, CallTyped, Zenon
  <2> QED  BY <2>2, <1>3
<1>6. hist'[c] \in HistType
  BY <1>0, <1>3
<1>7. Gate(c)'
  BY <1>0, <1>1, <1>3 DEF CallInv, Gate, At, Unrouted, Early, CallType, HistType
<1>8. Matrix(c)'
  BY <1>0, <1>3 DEF CallInv, Matrix, CallType, HistType
<1>9. Before(c)'
  BY <1>0, <1>1, <1>3 DEF CallInv, Before, At, CallType, HistType
<1>10. Mirrored(c)'
  BY <1>0, <1>1, <1>3 DEF CallInv, Mirrored, At, CallType, HistType
<1>11. Informed(c)'
  BY <1>0, <1>3 DEF CallInv, Informed, HistType, registries
<1>12. Ahead(c)'
  BY <1>0, <1>1, <1>3 DEF CallInv, Ahead, At, CallType, HistType
<1>13. FanInv(c)'
  BY <1>0, <1>3, FansKept DEF HistType
<1> QED  BY <1>3, <1>4, <1>5, <1>6, <1>7, <1>8, <1>9, <1>10, <1>11, <1>12, <1>13, CallerStep
            DEF CallInv, IndInv, Types

\* Routing is over: the copy of the middleware is walked back from its end.
LEMMA RouteDoneStep ==
    ASSUME IndInv, NEW c \in Calls, RouteDone(c)
    PROVE  IndInv'
<1>0. call[c] \in CallType /\ hist[c] \in HistType /\ CallInv(c)
  BY DEF IndInv, Types
<1>1. At(c) = "route"
  BY <1>0 DEF RouteDone, CallInv, Gate, Before, CallType
<1>3. /\ call'[c] = [call[c] EXCEPT !.at = "after", !.k = Len(call[c].mws)]
      /\ UNCHANGED hist
      /\ UNCHANGED registries /\ UNCHANGED fan /\ UNCHANGED <<published, dropped>>
  BY <1>0 DEF RouteDone, IndInv, Types
<1>4. call' = [call EXCEPT ![c] = call'[c]] /\ hist' = [hist EXCEPT ![c] = hist'[c]]
  BY <1>3 DEF RouteDone, IndInv, Types
<1>5. call'[c] \in CallType
  <2>1. Len(call[c].mws) \in Nat /\ "after" \in States
    BY <1>0 DEF CallType, States
  <2>2. [call[c] EXCEPT !.at = "after", !.k = Len(call[c].mws)] \in CallType
    BY <1>0, <2>1, CallTyped, Zenon
  <2> QED  BY <2>2, <1>3
<1>6. hist'[c] \in HistType
  BY <1>0, <1>3
<1>7. Gate(c)'
  BY <1>0, <1>1, <1>3 DEF CallInv, Gate, At, Unrouted, Early, CallType, HistType
<1>8. Matrix(c)'
  BY <1>0, <1>3 DEF CallInv, Matrix, CallType, HistType
<1>9. Before(c)'
  BY <1>0, <1>1, <1>3 DEF CallInv, Before, At, CallType, HistType
<1>10. Mirrored(c)'
  BY <1>0, <1>1, <1>3 DEF CallInv, Mirrored, At, CallType, HistType
<1>11. Informed(c)'
  BY <1>0, <1>3 DEF CallInv, Informed, HistType, registries
<1>12. Ahead(c)'
  BY <1>0, <1>1, <1>3 DEF CallInv, Ahead, At, CallType, HistType
<1>13. FanInv(c)'
  BY <1>0, <1>3, FansKept DEF HistType
<1> QED  BY <1>3, <1>4, <1>5, <1>6, <1>7, <1>8, <1>9, <1>10, <1>11, <1>12, <1>13, CallerStep
            DEF CallInv, IndInv, Types

\* publish() returns.
LEMMA ReturnStep ==
    ASSUME IndInv, NEW c \in Calls, Return(c)
    PROVE  IndInv'
<1>0. call[c] \in CallType /\ hist[c] \in HistType /\ CallInv(c)
  BY DEF IndInv, Types
<1>1. At(c) = "after" /\ call[c].k = 0
  BY <1>0 DEF Return, CallInv, Gate, Before, CallType
<1>3. /\ call'[c] = [call[c] EXCEPT !.at = "done"]
      /\ UNCHANGED hist
      /\ UNCHANGED registries /\ UNCHANGED fan /\ UNCHANGED <<published, dropped>>
  BY <1>0 DEF Return, IndInv, Types
<1>4. call' = [call EXCEPT ![c] = call'[c]] /\ hist' = [hist EXCEPT ![c] = hist'[c]]
  BY <1>3 DEF Return, IndInv, Types
<1>5. call'[c] \in CallType
  <2>1. "done" \in States
    BY DEF States
  <2>2. [call[c] EXCEPT !.at = "done"] \in CallType
    BY <1>0, <2>1, CallTyped, Zenon
  <2> QED  BY <2>2, <1>3
<1>6. hist'[c] \in HistType
  BY <1>0, <1>3
<1>7. Gate(c)'
  BY <1>0, <1>1, <1>3 DEF CallInv, Gate, At, Unrouted, Early, CallType, HistType
<1>8. Matrix(c)'
  BY <1>0, <1>3 DEF CallInv, Matrix, CallType, HistType
<1>9. Before(c)'
  BY <1>0, <1>1, <1>3 DEF CallInv, Before, At, CallType, HistType
<1>10. Mirrored(c)'
  BY <1>0, <1>1, <1>3 DEF CallInv, Mirrored, At, CallType, HistType
<1>11. Informed(c)'
  BY <1>0, <1>3 DEF CallInv, Informed, HistType, registries
<1>12. Ahead(c)'
  BY <1>0, <1>1, <1>3 DEF CallInv, Ahead, At, CallType, HistType
<1>13. FanInv(c)'
  BY <1>0, <1>3, FansKept DEF HistType
<1> QED  BY <1>3, <1>4, <1>5, <1>6, <1>7, <1>8, <1>9, <1>10, <1>11, <1>12, <1>13, CallerStep
            DEF CallInv, IndInv, Types

\* after_dispatch ran on the middleware at k; the part behind k grows by it.
LEMMA AfterStep ==
    ASSUME IndInv, NEW c \in Calls, After(c)
    PROVE  IndInv'
<1>0. call[c] \in CallType /\ hist[c] \in HistType /\ CallInv(c)
  BY DEF IndInv, Types
<1>1. At(c) = "after" /\ call[c].k >= 1 /\ call[c].k <= Len(call[c].mws)
  BY <1>0 DEF After, CallInv, Mirrored, CallType
<1>2. Current(c) \in Middleware /\ Current(c) = call[c].mws[call[c].k]
  BY <1>0, <1>1 DEF Current, CallType
<1>3. PICK T \in SUBSET Middleware :
         /\ hist[c].told \subseteq T /\ T \subseteq hist[c].told \cup MayThrow
         /\ hist' = [hist EXCEPT ![c].after = Append(hist[c].after, Current(c)), ![c].told = T]
  <2>1. PICK threw \in IF Current(c) \in MayThrow THEN BOOLEAN ELSE {FALSE} :
           hist' = [hist EXCEPT ![c].after = Append(@, Current(c)),
                                ![c].told = IF threw THEN @ \cup {Current(c)} ELSE @]
    BY DEF After
  <2>2. hist[c].told \in SUBSET Middleware /\ hist[c].told \cup {Current(c)} \in SUBSET Middleware
    BY <1>0, <1>2 DEF HistType
  <2>3. CASE threw
    BY <2>1, <2>2, <2>3 DEF IndInv, Types
  <2>4. CASE ~threw
    BY <2>1, <2>2, <2>4 DEF IndInv, Types
  <2> QED  BY <2>3, <2>4
<1>4. /\ call'[c] = [call[c] EXCEPT !.k = call[c].k - 1]
      /\ hist'[c] = [hist[c] EXCEPT !.after = Append(hist[c].after, Current(c)), !.told = T]
      /\ UNCHANGED registries /\ UNCHANGED fan /\ UNCHANGED <<published, dropped>>
  BY <1>3 DEF After, IndInv, Types
<1>5. call' = [call EXCEPT ![c] = call'[c]] /\ hist' = [hist EXCEPT ![c] = hist'[c]]
  BY <1>3, <1>4 DEF After, IndInv, Types
<1>6. call'[c] \in CallType
  <2>1. call[c].k - 1 \in Nat
    BY <1>0, <1>1 DEF CallType
  <2>2. [call[c] EXCEPT !.k = call[c].k - 1] \in CallType
    BY <1>0, <2>1, CallTyped, Zenon
  <2> QED  BY <2>2, <1>4
<1>7. hist'[c] \in HistType
  <2>1. hist[c].after \in Seq(Middleware)
    BY <1>0 DEF HistType
  <2>2. Append(hist[c].after, Current(c)) \in Seq(Middleware)
    BY <1>2, <2>1
  <2>3. [hist[c] EXCEPT !.after = Append(hist[c].after, Current(c)), !.told = T] \in HistType
    BY <1>0, <1>3, <2>2, HistTyped, Zenon
  <2> QED  BY <2>3, <1>4
<1>8. Gate(c)' /\ Ahead(c)'
  <2>1. Gate(c)'
    BY <1>0, <1>1, <1>4 DEF CallInv, Gate, At, Unrouted, Early, CallType, HistType
  <2>2. Ahead(c)'
    BY <1>0, <1>1, <1>4 DEF CallInv, Ahead, At, CallType, HistType
  <2> QED  BY <2>1, <2>2
<1>9. Matrix(c)' /\ Before(c)'
  <2>1. Matrix(c)'
    BY <1>0, <1>4 DEF CallInv, Matrix, CallType, HistType
  <2>2. Before(c)'
    BY <1>0, <1>1, <1>4 DEF CallInv, Before, At, CallType, HistType
  <2> QED  BY <2>1, <2>2
<1>10. Mirrored(c)'
  <2> DEFINE a == hist[c].after
             m == call[c].mws
             k == call[c].k
  <2>1. /\ a \in Seq(Middleware) /\ m \in Seq(Middleware) /\ k \in 1..Len(m)
        /\ Len(a) = Len(m) - k /\ \A i \in 1..Len(a) : a[i] = m[Len(m) + 1 - i]
    BY <1>0, <1>1 DEF CallInv, Mirrored, HistType, CallType
  <2>2. /\ At(c)' = "after" /\ call'[c].k = k - 1 /\ call'[c].mws = m
        /\ hist'[c].after = Append(a, m[k])
    BY <1>0, <1>1, <1>2, <1>4 DEF CallType, HistType, At
  <2> HIDE DEF a, m, k
  <2> DEFINE b == Append(a, m[k])
  <2>3. /\ Len(a) \in Nat /\ Len(m) \in Nat /\ k - 1 <= Len(m) /\ Len(b) = Len(a) + 1
        /\ b[Len(a) + 1] = m[k] /\ \A i \in 1..Len(a) : b[i] = a[i]
    BY <2>1, LenProperties, AppendProperties, ElementOfSeq
  <2> HIDE DEF b
  <2>4. Len(m) + 1 - (Len(a) + 1) = k /\ Len(b) = Len(m) - (k - 1)
    BY <2>1, <2>3
  <2>5. ASSUME NEW i \in 1..Len(b)  PROVE b[i] = m[Len(m) + 1 - i]
    <3>1. CASE i = Len(a) + 1
      BY <3>1, <2>3, <2>4
    <3>2. CASE i # Len(a) + 1
      BY <3>2, <2>1, <2>3
    <3> QED  BY <3>1, <3>2
  <2>6. hist'[c].after = b
    BY <2>2 DEF b
  <2> QED  BY <2>2, <2>3, <2>4, <2>5, <2>6 DEF Mirrored
<1>11. Informed(c)'
  <2>1. hist'[c].known = hist[c].known /\ hist'[c].failed = hist[c].failed /\ hist'[c].told = T
    BY <1>0, <1>4 DEF HistType
  <2>2. /\ hist[c].told \subseteq T /\ T \subseteq hist[c].told \cup MayThrow
        /\ middleware' = middleware
    BY <1>3, <1>4 DEF registries
  <2> QED  BY <2>1, <2>2, <1>0 DEF CallInv, Informed
<1>12. FanInv(c)'
  BY <1>0, <1>4, FansKept DEF HistType
<1> QED  BY <1>4, <1>5, <1>6, <1>7, <1>8, <1>9, <1>10, <1>11, <1>12, CallerStep
            DEF CallInv, IndInv, Types

\* publish() begins: nothing has happened yet, and the history takes note of
\* who is registered and of who has left.
LEMMA PublishStep ==
    ASSUME IndInv, NEW c \in Calls, NEW F \in FlagSets, Publish(c, F)
    PROVE  IndInv'
<1>0. /\ call[c] \in CallType /\ hist[c] \in HistType /\ CallInv(c)
      /\ middleware \in Seq(Middleware)
  BY DEF IndInv, Types
<1>1. /\ At(c) = "idle" /\ call[c] = NotYet /\ hist[c] = NoHist
      /\ \A s \in Sites : fan[c][s] = NoFan
  BY <1>0 DEF Publish, CallInv, Gate, Unrouted, Early
<1> DEFINE m == IF "NoMiddleware" \in F THEN <<>> ELSE middleware
           l == "LocalOnly" \in F
           r == "RemoteOnly" \in F
           L == [s \in Sites |-> RangeOf(Audience(s))]
           G == [s \in Sites |-> Departed(s)]
<1>2. /\ call'[c] = [call[c] EXCEPT !.at = "before", !.flags = F, !.local_only = l,
                                    !.remote_only = r, !.mws = m]
      /\ hist'[c] = [hist[c] EXCEPT !.live = L, !.gone = G, !.known = RangeOf(middleware)]
      /\ UNCHANGED registries /\ UNCHANGED fan /\ dropped' = dropped /\ published' \in Nat
  <2>1. call'[c] = [call[c] EXCEPT !.at = "before", !.flags = F, !.local_only = l,
                                   !.remote_only = r, !.mws = m]
    BY DEF Publish, IndInv, Types
  <2>2. hist'[c] = [hist[c] EXCEPT !.live = L, !.gone = G, !.known = RangeOf(middleware)]
    BY DEF Publish, IndInv, Types
  <2>3. UNCHANGED registries /\ UNCHANGED fan /\ UNCHANGED dropped
    BY DEF Publish
  <2>4. published' = published + 1 /\ published \in Nat
    BY DEF Publish, IndInv, Types
  <2> QED  BY <2>1, <2>2, <2>3, <2>4
<1>3. call' = [call EXCEPT ![c] = call'[c]] /\ hist' = [hist EXCEPT ![c] = hist'[c]]
  BY <1>2 DEF Publish, IndInv, Types
<1>4. m \in Seq(Middleware) /\ l \in BOOLEAN /\ r \in BOOLEAN
  BY <1>0
<1>5. \A s \in Sites : L[s] = RangeOf(Audience(s)) /\ G[s] = Departed(s)
  OBVIOUS
<1>6. /\ L \in [Sites -> SUBSET (Listeners \cup Routes)]
      /\ G \in [Sites -> SUBSET (Listeners \cup Routes)]
      /\ RangeOf(middleware) \in SUBSET Middleware
  <2>1. ASSUME NEW s \in Sites
        PROVE  /\ RangeOf(Audience(s)) \subseteq Listeners \cup Routes
               /\ Departed(s) \subseteq Listeners \cup Routes
    BY DEF IndInv, Types, Audience, Departed, RangeOf
  <2> QED  BY <2>1, <1>0 DEF RangeOf
<1> HIDE DEF m, l, r, L, G
<1>7. call'[c] \in CallType
  <2>1. "before" \in States /\ F \in SUBSET Flags
    BY FlagsAssumption DEF States
  <2>2. [call[c] EXCEPT !.at = "before", !.flags = F, !.local_only = l,
                        !.remote_only = r, !.mws = m] \in CallType
    BY <1>0, <1>4, <2>1, CallTyped, Zenon
  <2> QED  BY <2>2, <1>2
<1>8. hist'[c] \in HistType
  <2>1. [hist[c] EXCEPT !.live = L, !.gone = G, !.known = RangeOf(middleware)] \in HistType
    BY <1>0, <1>6, HistTyped, Zenon
  <2> QED  BY <2>1, <1>2
<1>9. /\ call'[c].at = "before" /\ call'[c].k = 1 /\ call'[c].ts = <<>> /\ call'[c].mws = m
      /\ hist'[c].sent = {} /\ hist'[c].refused = {} /\ hist'[c].before = <<>>
      /\ hist'[c].after = <<>> /\ hist'[c].vetoed = FALSE /\ hist'[c].failed = FALSE
      /\ hist'[c].told = {} /\ hist'[c].live = L /\ hist'[c].gone = G /\ hist'[c].known = RangeOf(middleware)
      /\ \A s \in Sites : fan'[c][s] = NoFan
  BY <1>1, <1>2 DEF NotYet, NoHist
<1>10. Gate(c)'
  BY <1>9, EmptyFacts DEF Gate, At, Unrouted, Early
<1>11. Matrix(c)' /\ Informed(c)'
  <2>1. Fallback \in Sites
    BY DEF Sites
  <2> QED  BY <2>1, <1>2, <1>9 DEF Matrix, Informed, NoFan, registries
<1>12. Before(c)' /\ Mirrored(c)' /\ Ahead(c)'
  BY <1>4, <1>9, EmptyFacts DEF Before, Mirrored, Ahead, At
<1>13. ASSUME NEW s \in Sites  PROVE SiteInv(c, s)'
  <2>1. /\ fan'[c][s] = NoFan /\ fan'[c][s].st = "none" /\ fan'[c][s].todo = <<>>
        /\ fan'[c][s].heard = <<>> /\ hist'[c].refused = {}
    BY <1>9 DEF NoFan
  <2>2. Shape(c, s)'
    BY <2>1 DEF Shape
  <2>3. Once(c, s)' /\ InOrder(c, s)'
    BY <2>1, EmptyFacts DEF Once, InOrder
  <2>4. Covered(c, s)'
    BY <2>1, <1>2, <1>5, <1>9 DEF Covered, registries, Audience, Departed
  <2> QED  BY <2>2, <2>3, <2>4 DEF SiteInv
<1> QED  BY <1>2, <1>3, <1>7, <1>8, <1>10, <1>11, <1>12, <1>13, CallerStep
            DEF CallInv, FanInv, IndInv, Types

\* What a call that is about to hand the envelope to the transport at k knows of
\* that transport, and of the ones behind it.
LEMMA TargetFacts ==
    ASSUME IndInv, NEW c \in Calls, Routing(c)
    PROVE  /\ At(c) = "route" /\ call[c].proceed /\ ~Unrouted(c)
           /\ call[c].k \in 1..Len(call[c].ts) /\ call[c].k \in Nat
           /\ Target(c) \in Transports /\ Target(c) \in Sites /\ Target(c) # Fallback
           /\ fan[c][Target(c)] = NoFan /\ Target(c) \notin hist[c].refused
           /\ \A i \in 1..Len(call[c].ts) : i > call[c].k =>
                 /\ call[c].ts[i] # Target(c) /\ call[c].ts[i] \notin hist[c].refused
                 /\ fan[c][call[c].ts[i]] = NoFan
<1>1. call[c] \in CallType /\ Gate(c) /\ Ahead(c)
  BY DEF IndInv, Types, CallInv
<1>2. At(c) = "route" /\ call[c].proceed /\ ~Unrouted(c)
  BY DEF Routing, Unrouted, Early
<1>3. call[c].k \in 1..Len(call[c].ts) /\ call[c].ts \in Seq(Transports)
  BY <1>1, <1>2 DEF Routing, Gate, CallType
<1>4. Target(c) \in Transports /\ Target(c) \in Sites /\ Target(c) # Fallback
  BY <1>3, TransportsAssumption DEF Target, Sites
<1>5. fan[c][Target(c)] = NoFan /\ Target(c) \notin hist[c].refused
  BY <1>1, <1>2, <1>3 DEF Ahead, Target
<1>6. ASSUME NEW i \in 1..Len(call[c].ts), i > call[c].k
      PROVE  /\ call[c].ts[i] # Target(c) /\ call[c].ts[i] \notin hist[c].refused
             /\ fan[c][call[c].ts[i]] = NoFan
  BY <1>1, <1>2, <1>3, <1>6 DEF Ahead, Gate, Distinct, Target
<1> QED  BY <1>2, <1>3, <1>4, <1>5, <1>6

\* The outbound predicate refused: the transport at k has not fanned out, and will not.
LEMMA RouteFilteredStep ==
    ASSUME IndInv, NEW c \in Calls, RouteFiltered(c)
    PROVE  IndInv'
<1>0. call[c] \in CallType /\ hist[c] \in HistType /\ CallInv(c) /\ Routing(c)
  BY DEF IndInv, Types, RouteFiltered
<1>1. /\ At(c) = "route" /\ call[c].proceed /\ ~Unrouted(c) /\ call[c].k \in Nat
      /\ Target(c) \in Transports /\ Target(c) \in Sites /\ fan[c][Target(c)] = NoFan
      /\ \A i \in 1..Len(call[c].ts) : i > call[c].k =>
             /\ call[c].ts[i] # Target(c) /\ call[c].ts[i] \notin hist[c].refused
             /\ fan[c][call[c].ts[i]] = NoFan
  BY <1>0, TargetFacts
<1>2. /\ call'[c] = [call[c] EXCEPT !.k = call[c].k + 1]
      /\ hist'[c] = [hist[c] EXCEPT !.refused = hist[c].refused \cup {Target(c)}]
      /\ UNCHANGED registries /\ UNCHANGED fan /\ UNCHANGED <<published, dropped>>
  BY DEF RouteFiltered, IndInv, Types
<1>3. call' = [call EXCEPT ![c] = call'[c]] /\ hist' = [hist EXCEPT ![c] = hist'[c]]
  BY <1>2 DEF RouteFiltered, IndInv, Types
<1>4. call'[c] \in CallType
  <2>1. call[c].k + 1 \in Nat
    BY <1>1
  <2>2. [call[c] EXCEPT !.k = call[c].k + 1] \in CallType
    BY <1>0, <2>1, CallTyped, Zenon
  <2> QED  BY <2>2, <1>2
<1>5. hist'[c] \in HistType
  <2>1. hist[c].refused \in SUBSET Transports
    BY <1>0 DEF HistType
  <2>2. hist[c].refused \cup {Target(c)} \in SUBSET Transports
    BY <1>1, <2>1
  <2>3. [hist[c] EXCEPT !.refused = hist[c].refused \cup {Target(c)}] \in HistType
    BY <1>0, <2>2, HistTyped, Zenon
  <2> QED  BY <2>3, <1>2
<1>6. Gate(c)'
  BY <1>0, <1>1, <1>2 DEF CallInv, Gate, At, Unrouted, Early, CallType, HistType
<1>7. Matrix(c)'
  BY <1>0, <1>2 DEF CallInv, Matrix, CallType, HistType
<1>8. Before(c)'
  BY <1>0, <1>1, <1>2 DEF CallInv, Before, At, CallType, HistType
<1>9. Mirrored(c)'
  BY <1>0, <1>1, <1>2 DEF CallInv, Mirrored, At, CallType, HistType
<1>10. Informed(c)'
  BY <1>0, <1>2 DEF CallInv, Informed, HistType, registries
<1>11. Ahead(c)'
  <2>1. /\ call'[c].ts = call[c].ts /\ call'[c].k = call[c].k + 1 /\ call'[c].at = "route"
        /\ hist'[c].refused = hist[c].refused \cup {Target(c)} /\ fan'[c] = fan[c]
    BY <1>0, <1>1, <1>2 DEF CallType, HistType, At
  <2> QED  BY <2>1, <1>1 DEF Ahead, At
<1>12. ASSUME NEW s \in Sites  PROVE SiteInv(c, s)'
  <2>0. /\ hist'[c].live = hist[c].live /\ hist'[c].gone = hist[c].gone
        /\ hist'[c].refused = hist[c].refused \cup {Target(c)}
    BY <1>0, <1>2 DEF HistType
  <2>1. CASE s # Target(c)
    BY <2>0, <2>1, <1>2, SiteKept
  <2>2. CASE s = Target(c)
    <3>1. SiteInv(c, s) /\ fan'[c][s] = fan[c][s] /\ fan[c][s] = NoFan
      BY <2>2, <1>0, <1>1, <1>2 DEF CallInv, FanInv
    <3>2. Shape(c, s)'
      BY <3>1 DEF SiteInv, Shape, NoFan
    <3>3. Once(c, s)' /\ (s \notin Relays => InOrder(c, s)')
      BY <3>1, <2>0 DEF SiteInv, Once, InOrder
    <3>4. Covered(c, s)'
      BY <3>1, <2>0, <1>2 DEF SiteInv, Covered, NoFan, Audience, Departed, registries
    <3> QED  BY <3>2, <3>3, <3>4 DEF SiteInv
  <2> QED  BY <2>1, <2>2
<1> QED  BY <1>2, <1>3, <1>4, <1>5, <1>6, <1>7, <1>8, <1>9, <1>10, <1>11, <1>12, CallerStep
         DEF CallInv, FanInv, IndInv, Types

\* A fan-out that becomes pending has called nobody.
LEMMA PendingSite ==
    ASSUME IndInv, NEW c \in Calls, NEW s \in Sites, UNCHANGED registries,
           fan[c][s] = NoFan, fan'[c][s] = [NoFan EXCEPT !.st = "pending"],
           hist'[c].live[s] = hist[c].live[s], hist'[c].gone[s] = hist[c].gone[s],
           s \notin hist'[c].refused
    PROVE  SiteInv(c, s)'
<1>1. SiteInv(c, s)
  BY DEF IndInv, CallInv, FanInv
<1>2. fan'[c][s].st = "pending" /\ fan'[c][s].todo = <<>> /\ fan'[c][s].heard = <<>>
  BY DEF NoFan
<1>3. Shape(c, s)'
  BY <1>2, EmptyFacts DEF Shape
<1>4. Once(c, s)' /\ InOrder(c, s)'
  BY <1>2, EmptyFacts DEF Once, InOrder
<1>5. Covered(c, s)'
  BY <1>1, <1>2 DEF SiteInv, Covered, Audience, Departed, registries
<1> QED  BY <1>3, <1>4, <1>5 DEF SiteInv

\* No transport: the fan-out on this thread becomes pending.
LEMMA RouteFallbackStep ==
    ASSUME IndInv, NEW c \in Calls, RouteFallback(c)
    PROVE  IndInv'
<1>0. /\ call[c] \in CallType /\ hist[c] \in HistType /\ CallInv(c)
      /\ fan[c] \in [Sites -> FanType] /\ Fallback \in Sites /\ Fallback \notin Transports
  BY TransportsAssumption DEF IndInv, Types, Sites
<1>1. /\ At(c) = "route" /\ call[c].proceed /\ call[c].ts = <<>> /\ ~call[c].remote_only
      /\ fan[c][Fallback] = NoFan /\ Fallback \notin hist[c].refused
  BY <1>0 DEF RouteFallback, CallInv, FanInv, SiteInv, Shape, HistType
<1> DEFINE f == [NoFan EXCEPT !.st = "pending"]
<1>2. /\ fan'[c] = [fan[c] EXCEPT ![Fallback] = f] /\ UNCHANGED registries
      /\ UNCHANGED call /\ UNCHANGED hist /\ UNCHANGED <<published, dropped>>
  BY <1>0, <1>1 DEF RouteFallback, IndInv, Types
<1>3. fan' = [fan EXCEPT ![c] = fan'[c]]
  BY <1>2 DEF RouteFallback, IndInv, Types
<1>4. f \in FanType
  BY EmptyFacts DEF NoFan, FanType
<1>5. /\ fan'[c] \in [Sites -> FanType]
      /\ \A s \in Sites : fan'[c][s] = IF s = Fallback THEN f ELSE fan[c][s]
  BY <1>0, <1>2, <1>4
<1> HIDE DEF f
<1>6. Gate(c)'
  BY <1>0, <1>1, <1>2 DEF CallInv, Gate, At, Unrouted, Early
<1>7. Matrix(c)'
  BY <1>0, <1>1, <1>2 DEF CallInv, Matrix
<1>8. Before(c)'
  BY <1>0, <1>2 DEF CallInv, Before, At
<1>9. Mirrored(c)'
  BY <1>0, <1>2 DEF CallInv, Mirrored, At
<1>10. Informed(c)' /\ Ahead(c)'
  BY <1>0, <1>1, <1>2, EmptyFacts DEF CallInv, Informed, Ahead, registries
<1>11. ASSUME NEW s \in Sites  PROVE SiteInv(c, s)'
  <2>1. CASE s # Fallback
    BY <2>1, <1>2, <1>5, SiteKept
  <2>2. CASE s = Fallback
    BY <2>2, <1>1, <1>2, <1>5, PendingSite DEF f
  <2> QED  BY <2>1, <2>2
<1> QED  BY <1>0, <1>2, <1>3, <1>5, <1>6, <1>7, <1>8, <1>9, <1>10, <1>11, CallerStep
         DEF CallInv, FanInv, IndInv, Types

\* dispatch() of the transport at k: it is in scope, and new to this call.
LEMMA RouteDispatchStep ==
    ASSUME IndInv, NEW c \in Calls, RouteDispatch(c)
    PROVE  IndInv'
<1>0. /\ call[c] \in CallType /\ hist[c] \in HistType /\ CallInv(c) /\ Routing(c)
      /\ fan[c] \in [Sites -> FanType]
  BY DEF IndInv, Types, RouteDispatch
<1>1. /\ At(c) = "route" /\ call[c].proceed /\ ~Unrouted(c)
      /\ call[c].k \in 1..Len(call[c].ts) /\ call[c].k \in Nat
      /\ Target(c) \in Transports /\ Target(c) \in Sites /\ Target(c) # Fallback
      /\ fan[c][Target(c)] = NoFan /\ Target(c) \notin hist[c].refused
      /\ \A i \in 1..Len(call[c].ts) : i > call[c].k =>
             /\ call[c].ts[i] # Target(c) /\ call[c].ts[i] \notin hist[c].refused
             /\ fan[c][call[c].ts[i]] = NoFan
  BY <1>0, TargetFacts
<1> DEFINE f == [NoFan EXCEPT !.st = "pending"]
           X == hist[c].sent \cup {<<Target(c), call[c].flags>>}
<1>2. /\ hist'[c] = [hist[c] EXCEPT !.sent = X]
      /\ UNCHANGED registries /\ UNCHANGED <<published, dropped>>
      /\ hist' = [hist EXCEPT ![c] = hist'[c]]
  BY DEF RouteDispatch, IndInv, Types
<1>3. fan' = [fan EXCEPT ![c] = fan'[c]] /\ call' = [call EXCEPT ![c] = call'[c]]
  BY DEF RouteDispatch, IndInv, Types
<1>4. fan'[c] = fan[c] \/ fan'[c] = [fan[c] EXCEPT ![Target(c)] = f]
  BY <1>0, <1>1 DEF RouteDispatch, IndInv, Types
<1>5. \/ call'[c] = [call[c] EXCEPT !.at = "wait"]
      \/ call'[c] = [call[c] EXCEPT !.k = call[c].k + 1]
  BY DEF RouteDispatch, IndInv, Types
<1>6. f \in FanType
  BY EmptyFacts DEF NoFan, FanType
<1>7. /\ fan'[c] \in [Sites -> FanType]
      /\ \A s \in Sites : s # Target(c) => fan'[c][s] = fan[c][s]
      /\ fan'[c][Target(c)] \in {NoFan, f}
  BY <1>0, <1>1, <1>4, <1>6
<1> HIDE DEF f
<1>8. call'[c] \in CallType
  <2>1. call[c].k + 1 \in Nat /\ "wait" \in States
    BY <1>1 DEF States
  <2>2. /\ [call[c] EXCEPT !.k = call[c].k + 1] \in CallType
        /\ [call[c] EXCEPT !.at = "wait"] \in CallType
    BY <1>0, <2>1, CallTyped, Zenon
  <2> QED  BY <2>2, <1>5
<1>9. hist'[c] \in HistType
  <2>1. hist[c].sent \in SUBSET (Transports \X SUBSET Flags) /\ call[c].flags \in SUBSET Flags
    BY <1>0 DEF HistType, CallType
  <2>2. X \in SUBSET (Transports \X SUBSET Flags)
    BY <1>1, <2>1
  <2> HIDE DEF X
  <2>3. [hist[c] EXCEPT !.sent = X] \in HistType
    BY <1>0, <2>2, HistTyped, Zenon
  <2> QED  BY <2>3, <1>2
<1>10. /\ call'[c].mws = call[c].mws /\ call'[c].ts = call[c].ts /\ call'[c].proceed = call[c].proceed
       /\ call'[c].local_only = call[c].local_only /\ call'[c].remote_only = call[c].remote_only
       /\ \/ call'[c].at = "wait" /\ call'[c].k = call[c].k
          \/ call'[c].at = "route" /\ call'[c].k = call[c].k + 1
  <2>1. CASE call'[c] = [call[c] EXCEPT !.at = "wait"]
    BY <2>1, <1>0 DEF CallType
  <2>2. CASE call'[c] = [call[c] EXCEPT !.k = call[c].k + 1]
    <3>1. /\ call'[c].mws = call[c].mws /\ call'[c].ts = call[c].ts
          /\ call'[c].proceed = call[c].proceed /\ call'[c].local_only = call[c].local_only
          /\ call'[c].remote_only = call[c].remote_only /\ call'[c].at = call[c].at
      BY <2>2, <1>0 DEF CallType
    <3>2. call'[c].k = call[c].k + 1
      BY <2>2, <1>0 DEF CallType
    <3> QED  BY <3>1, <3>2, <1>1 DEF At
  <2> QED  BY <2>1, <2>2, <1>5
<1>11. /\ hist'[c].live = hist[c].live /\ hist'[c].gone = hist[c].gone
       /\ hist'[c].known = hist[c].known /\ hist'[c].vetoed = hist[c].vetoed
       /\ hist'[c].failed = hist[c].failed /\ hist'[c].before = hist[c].before
       /\ hist'[c].after = hist[c].after /\ hist'[c].refused = hist[c].refused
       /\ hist'[c].told = hist[c].told /\ hist'[c].sent = X
  BY <1>0, <1>2 DEF HistType
<1>12. Gate(c)'
  BY <1>0, <1>1, <1>10, <1>11 DEF CallInv, Gate, At, Unrouted, Early
<1>13. Matrix(c)'
  <2>1. /\ call[c].local_only => Scope(Target(c)) = "Local"
        /\ call[c].remote_only => Scope(Target(c)) = "Remote"
    BY DEF RouteDispatch, InScope
  <2>2. fan'[c][Fallback] = fan[c][Fallback]
    BY <1>1, <1>7 DEF Sites
  <2> QED  BY <2>1, <2>2, <1>0, <1>10, <1>11 DEF CallInv, Matrix
<1>14. Before(c)'
  BY <1>0, <1>1, <1>10, <1>11 DEF CallInv, Before, At
<1>15. Mirrored(c)'
  BY <1>0, <1>1, <1>10, <1>11 DEF CallInv, Mirrored, At
<1>16. Informed(c)'
  BY <1>0, <1>2, <1>11 DEF CallInv, Informed, registries
<1>17. Ahead(c)'
  <2>1. \A i \in 1..Len(call[c].ts) : call[c].ts[i] \in Sites
    BY <1>0 DEF CallType, Sites
  <2> QED  BY <2>1, <1>1, <1>7, <1>10, <1>11 DEF Ahead, At
<1>18. ASSUME NEW s \in Sites  PROVE SiteInv(c, s)'
  <2>1. CASE fan'[c][s] = fan[c][s]
    BY <2>1, <1>2, <1>11, SiteKept
  <2>2. CASE fan'[c][s] # fan[c][s]
    <3>1. s = Target(c) /\ fan'[c][s] = [NoFan EXCEPT !.st = "pending"]
      BY <2>2, <1>1, <1>7 DEF f
    <3> QED  BY <3>1, <1>1, <1>2, <1>11, PendingSite
  <2> QED  BY <2>1, <2>2
<1> QED  BY <1>2, <1>3, <1>7, <1>8, <1>9, <1>12, <1>13, <1>14, <1>15, <1>16, <1>17, <1>18,
            CallerStep
         DEF CallInv, FanInv, IndInv, Types

-----------------------------------------------------------------------------
(* Steps of one fan-out *)

\* A step of a fan-out that is under way disturbs only its own site, and what
\* the history says of failures and of refusals.
LEMMA FanOutStep ==
    ASSUME IndInv, NEW c \in Calls, NEW s \in Sites, fan[c][s].st # "none",
           NEW f \in FanType, fan' = [fan EXCEPT ![c][s] = f], UNCHANGED registries,
           UNCHANGED call, UNCHANGED <<published, dropped>>,
           hist' = [hist EXCEPT ![c] = hist'[c]], hist'[c] \in HistType,
           hist'[c].live = hist[c].live, hist'[c].gone = hist[c].gone,
           hist'[c].known = hist[c].known, hist'[c].vetoed = hist[c].vetoed,
           hist'[c].before = hist[c].before, hist'[c].after = hist[c].after,
           hist'[c].sent = hist[c].sent, hist'[c].refused \subseteq hist[c].refused \cup {s},
           hist[c].refused \subseteq hist'[c].refused,
           hist'[c].failed => hist'[c].known \subseteq hist'[c].told,
           ~hist'[c].failed => hist'[c].told \subseteq MayThrow,
           SiteInv(c, s)'
    PROVE  IndInv'
<1>0. call[c] \in CallType /\ CallInv(c) /\ fan[c] \in [Sites -> FanType]
  BY DEF IndInv, Types
<1>1. /\ fan'[c] = [fan[c] EXCEPT ![s] = f] /\ fan'[c] \in [Sites -> FanType]
      /\ fan' = [fan EXCEPT ![c] = fan'[c]]
      /\ \A u \in Sites : u # s => fan'[c][u] = fan[c][u]
  BY <1>0 DEF IndInv, Types
<1>2. fan[c][s] # NoFan /\ ~Unrouted(c) /\ At(c) # "idle"
  BY <1>0 DEF CallInv, Gate, Unrouted, Early, NoFan
<1>3. Gate(c)'
  BY <1>0, <1>2 DEF CallInv, Gate, At, Unrouted, Early
<1>4. Matrix(c)'
  <2>1. Fallback \in Sites
    BY DEF Sites
  <2>2. call[c].remote_only => fan'[c][Fallback] = fan[c][Fallback]
    BY <2>1, <1>0, <1>1 DEF CallInv, Matrix
  <2> QED  BY <2>2, <1>0 DEF CallInv, Matrix
<1>5. Before(c)'
  BY <1>0 DEF CallInv, Before, At
<1>6. Mirrored(c)'
  BY <1>0 DEF CallInv, Mirrored, At
<1>7. Informed(c)'
  BY <1>0 DEF CallInv, Informed, registries
<1>8. Ahead(c)'
  <2>1. \A i \in 1..Len(call[c].ts) : call[c].ts[i] \in Sites
    BY <1>0 DEF CallType, Sites
  <2> QED  BY <2>1, <1>0, <1>1, <1>2 DEF CallInv, Ahead, At
<1>9. ASSUME NEW u \in Sites, u # s  PROVE SiteInv(c, u)'
  BY <1>1, <1>9, SiteKept
<1> QED  BY <1>0, <1>1, <1>3, <1>4, <1>5, <1>6, <1>7, <1>8, <1>9, CallerStep
         DEF CallInv, FanInv, IndInv, Types

\* What holds of a site before any step of its fan-out.
LEMMA SiteFacts ==
    ASSUME IndInv, NEW c \in Calls, NEW s \in Sites
    PROVE  /\ hist[c] \in HistType /\ fan[c][s] \in FanType /\ SiteInv(c, s) /\ Informed(c)
           /\ Audience(s) \in Seq(Callee(s)) /\ Callee(s) \subseteq Listeners \cup Routes
           /\ Distinct(Audience(s)) /\ RangeOf(Audience(s)) \cap Departed(s) = {}
           /\ s \notin Relays => Ordered(Audience(s))
  BY DEF IndInv, Types, CallInv, FanInv, Registries, Audience, Callee

\* What the steps assign to a fan-out keeps its types.
LEMMA FanTyped ==
    ASSUME NEW f \in FanType, NEW st \in {"none", "pending", "running", "done"},
           NEW q \in Seq(Listeners \cup Routes), NEW h \in Seq(Listeners \cup Routes)
    PROVE  /\ [f EXCEPT !.st = st] \in FanType /\ [f EXCEPT !.todo = q] \in FanType
           /\ [f EXCEPT !.st = st, !.todo = q] \in FanType
           /\ [f EXCEPT !.todo = q, !.heard = h] \in FanType
  BY DEF FanType

\* The inbound predicate refused: nobody is called.
LEMMA FanFilteredStep ==
    ASSUME IndInv, NEW c \in Calls, NEW s \in Sites, FanFiltered(c, s)
    PROVE  IndInv'
<1>0. /\ hist[c] \in HistType /\ fan[c][s] \in FanType /\ SiteInv(c, s) /\ Informed(c)
      /\ fan[c][s].st = "pending" /\ s \in Transports
  BY SiteFacts, TransportsAssumption DEF FanFiltered
<1> DEFINE f == [fan[c][s] EXCEPT !.st = "done"]
<1>1. /\ fan' = [fan EXCEPT ![c][s] = f] /\ fan'[c][s] = f
      /\ UNCHANGED registries /\ UNCHANGED call /\ UNCHANGED <<published, dropped>>
  BY DEF FanFiltered, IndInv, Types
<1>2. /\ hist'[c] = [hist[c] EXCEPT !.refused = hist[c].refused \cup {s}]
      /\ hist' = [hist EXCEPT ![c] = hist'[c]]
  BY DEF FanFiltered, IndInv, Types
<1>3. f \in FanType /\ f.st = "done" /\ f.todo = <<>> /\ f.heard = <<>>
  BY <1>0 DEF FanType, SiteInv, Shape
<1> HIDE DEF f
<1>4. hist'[c] \in HistType
  <2>1. hist[c].refused \cup {s} \in SUBSET Transports
    BY <1>0 DEF HistType
  <2>2. [hist[c] EXCEPT !.refused = hist[c].refused \cup {s}] \in HistType
    BY <1>0, <2>1, HistTyped, Zenon
  <2> QED  BY <2>2, <1>2
<1>5. /\ hist'[c].live = hist[c].live /\ hist'[c].gone = hist[c].gone
      /\ hist'[c].known = hist[c].known /\ hist'[c].vetoed = hist[c].vetoed
      /\ hist'[c].before = hist[c].before /\ hist'[c].after = hist[c].after
      /\ hist'[c].sent = hist[c].sent /\ hist'[c].refused = hist[c].refused \cup {s}
      /\ hist'[c].failed = hist[c].failed /\ hist'[c].told = hist[c].told
  BY <1>0, <1>2 DEF HistType
<1>6. /\ hist'[c].failed => hist'[c].known \subseteq hist'[c].told
      /\ ~hist'[c].failed => hist'[c].told \subseteq MayThrow
  BY <1>0, <1>5 DEF Informed
<1>7. SiteInv(c, s)'
  <2>1. Shape(c, s)'
    BY <1>1, <1>3, EmptyFacts DEF Shape
  <2>2. Once(c, s)' /\ InOrder(c, s)'
    BY <1>1, <1>3, EmptyFacts DEF Once, InOrder
  <2>3. Covered(c, s)'
    BY <1>0, <1>1, <1>5 DEF SiteInv, Covered, Audience, Departed, registries
  <2> QED  BY <2>1, <2>2, <2>3 DEF SiteInv
<1> QED  BY <1>0, <1>1, <1>2, <1>3, <1>4, <1>5, <1>6, <1>7, FanOutStep

\* The copy that the fan-out walks is made of those who are there now.
LEMMA FanStartStep ==
    ASSUME IndInv, NEW c \in Calls, NEW s \in Sites, FanStart(c, s)
    PROVE  IndInv'
<1>0. /\ hist[c] \in HistType /\ fan[c][s] \in FanType /\ SiteInv(c, s) /\ Informed(c)
      /\ fan[c][s].st = "pending" /\ Audience(s) \in Seq(Callee(s))
      /\ Audience(s) \in Seq(Listeners \cup Routes)
      /\ Distinct(Audience(s)) /\ RangeOf(Audience(s)) \cap Departed(s) = {}
      /\ s \notin Relays => Ordered(Audience(s))
  BY SiteFacts DEF FanStart
<1> DEFINE f == [fan[c][s] EXCEPT !.st = "running", !.todo = Audience(s)]
<1>1. /\ fan' = [fan EXCEPT ![c][s] = f] /\ fan'[c][s] = f /\ UNCHANGED hist
      /\ UNCHANGED registries /\ UNCHANGED call /\ UNCHANGED <<published, dropped>>
  BY DEF FanStart, IndInv, Types
<1>2. f \in FanType
  BY <1>0, FanTyped
<1>3. f.st = "running" /\ f.todo = Audience(s) /\ f.heard = <<>> /\ s \notin hist[c].refused
  BY <1>0 DEF FanType, SiteInv, Shape
<1>4. Audience(s)' = Audience(s) /\ Departed(s)' = Departed(s)
  BY <1>1 DEF registries, Audience, Departed
<1> HIDE DEF f
<1>5. SiteInv(c, s)'
  <2>1. Shape(c, s)'
    BY <1>0, <1>1, <1>3, EmptyFacts DEF Shape
  <2>2. Once(c, s)'
    BY <1>0, <1>1, <1>3, EmptyFacts DEF Once, SiteInv, Covered
  <2>3. s \notin Relays => InOrder(c, s)'
    BY <1>0, <1>1, <1>3, EmptyFacts DEF InOrder
  <2>4. Covered(c, s)'
    BY <1>0, <1>1, <1>3, <1>4 DEF SiteInv, Covered
  <2> QED  BY <2>1, <2>2, <2>3, <2>4 DEF SiteInv
<1> QED  BY <1>0, <1>1, <1>2, <1>5, FanOutStep DEF IndInv, Types, Informed

\* The callee at the head does not match: nobody who has to be called is lost.
LEMMA FanSkipStep ==
    ASSUME IndInv, NEW c \in Calls, NEW s \in Sites, FanSkip(c, s)
    PROVE  IndInv'
<1> DEFINE q == fan[c][s].todo
           f == [fan[c][s] EXCEPT !.todo = Tail(q)]
<1>0. /\ hist[c] \in HistType /\ fan[c][s] \in FanType /\ SiteInv(c, s) /\ Informed(c)
      /\ fan[c][s].st = "running" /\ q # <<>> /\ Head(q) \notin Matching
      /\ Callee(s) \subseteq Listeners \cup Routes /\ q \in Seq(Callee(s))
  BY SiteFacts DEF FanSkip, FanStep, SiteInv, Shape
<1>1. /\ fan' = [fan EXCEPT ![c][s] = f] /\ fan'[c][s] = f /\ UNCHANGED hist
      /\ UNCHANGED registries /\ UNCHANGED call /\ UNCHANGED <<published, dropped>>
  BY DEF FanSkip, IndInv, Types
<1>2. /\ Tail(q) \in Seq(Callee(s)) /\ RangeOf(q) = RangeOf(Tail(q)) \cup {Head(q)}
      /\ Distinct(q) => Distinct(Tail(q))
      /\ Ordered(q) => Ordered(Tail(q))
  BY <1>0, TailFacts
<1>3. Tail(q) \in Seq(Listeners \cup Routes)
  BY <1>0, <1>2
<1>4. f \in FanType
  BY <1>0, <1>3, FanTyped
<1>5. f.st = "running" /\ f.todo = Tail(q) /\ f.heard = fan[c][s].heard
  BY <1>0 DEF FanType
<1>6. Audience(s)' = Audience(s) /\ Departed(s)' = Departed(s)
  BY <1>1 DEF registries, Audience, Departed
<1> HIDE DEF f
<1>7. SiteInv(c, s)'
  <2>1. Shape(c, s)'
    BY <1>0, <1>1, <1>2, <1>5 DEF Shape, SiteInv
  <2>2. Once(c, s)'
    BY <1>0, <1>1, <1>2, <1>5 DEF Once, SiteInv
  <2>3. s \notin Relays => InOrder(c, s)'
    <3> SUFFICES ASSUME s \notin Relays  PROVE InOrder(c, s)'
      OBVIOUS
    <3>1. InOrder(c, s)
      BY <1>0 DEF SiteInv
    <3>2. \A j \in 1..Len(Tail(q)) : j + 1 \in 1..Len(q) /\ Tail(q)[j] = q[j + 1]
      BY <1>0
    <3>3. Ordered(Tail(q)) /\ Ordered(fan[c][s].heard)
      BY <3>1, <1>2 DEF InOrder
    <3>4. ASSUME NEW i \in 1..Len(fan[c][s].heard), NEW j \in 1..Len(Tail(q))
          PROVE  Priority[fan[c][s].heard[i]] <= Priority[Tail(q)[j]]
      BY <3>1, <3>2 DEF InOrder
    <3> QED  BY <3>3, <3>4, <1>1, <1>5 DEF InOrder
  <2>4. Covered(c, s)'
    BY <1>0, <1>1, <1>2, <1>5, <1>6 DEF SiteInv, Covered
  <2> QED  BY <2>1, <2>2, <2>3, <2>4 DEF SiteInv
<1> QED  BY <1>0, <1>1, <1>4, <1>7, FanOutStep DEF IndInv, Types, Informed

\* The callee at the head is invoked, whether or not it throws: it moves from
\* those to call to those called, and all who are left come behind it.
LEMMA FanInvokeStep ==
    ASSUME IndInv, NEW c \in Calls, NEW s \in Sites, FanInvoke(c, s)
    PROVE  IndInv'
<1> DEFINE q == fan[c][s].todo
           h == fan[c][s].heard
           f == [fan[c][s] EXCEPT !.todo = Tail(q), !.heard = Append(h, Head(q))]
<1>0. /\ hist[c] \in HistType /\ fan[c][s] \in FanType /\ SiteInv(c, s) /\ Informed(c)
      /\ fan[c][s].st = "running" /\ q # <<>> /\ Callee(s) \subseteq Listeners \cup Routes
      /\ q \in Seq(Callee(s)) /\ h \in Seq(Callee(s))
  BY SiteFacts DEF FanInvoke, FanStep, SiteInv, Shape
<1>1. /\ fan' = [fan EXCEPT ![c][s] = f] /\ fan'[c][s] = f
      /\ UNCHANGED registries /\ UNCHANGED call /\ UNCHANGED <<published, dropped>>
  <2>1. fan' = [fan EXCEPT ![c][s] = f]
    BY DEF FanInvoke, IndInv, Types
  <2>2. UNCHANGED registries /\ UNCHANGED call /\ UNCHANGED <<published, dropped>>
    BY DEF FanInvoke
  <2> HIDE DEF f
  <2>3. fan'[c][s] = f
    BY <2>1 DEF IndInv, Types
  <2> QED  BY <2>1, <2>2, <2>3
<1>2. /\ Tail(q) \in Seq(Callee(s)) /\ Head(q) \in Callee(s)
      /\ RangeOf(q) = RangeOf(Tail(q)) \cup {Head(q)}
      /\ Distinct(q) => Distinct(Tail(q)) /\ Head(q) \notin RangeOf(Tail(q))
      /\ Ordered(q) => /\ Ordered(Tail(q))
                       /\ \A j \in 1..Len(Tail(q)) : Priority[Head(q)] <= Priority[Tail(q)[j]]
  <2>1. q \in Seq(Callee(s)) /\ q # <<>>
    BY <1>0
  <2> HIDE DEF q
  <2> QED  BY <2>1, TailFacts
<1>3. /\ Append(h, Head(q)) \in Seq(Callee(s))
      /\ RangeOf(Append(h, Head(q))) = RangeOf(h) \cup {Head(q)}
      /\ Distinct(h) /\ Head(q) \notin RangeOf(h) => Distinct(Append(h, Head(q)))
      /\ Ordered(h) /\ (\A i \in 1..Len(h) : Priority[h[i]] <= Priority[Head(q)])
            => Ordered(Append(h, Head(q)))
  BY <1>0, <1>2, AppendFacts
<1>4. f \in FanType
  <2>1. Tail(q) \in Seq(Listeners \cup Routes) /\ Append(h, Head(q)) \in Seq(Listeners \cup Routes)
    BY <1>0, <1>2, <1>3
  <2> QED  BY <1>0, <2>1, FanTyped
<1>5. f.st = "running" /\ f.todo = Tail(q) /\ f.heard = Append(h, Head(q))
  BY <1>0 DEF FanType
<1>6. Audience(s)' = Audience(s) /\ Departed(s)' = Departed(s)
  BY <1>1 DEF registries, Audience, Departed
<1> HIDE DEF f
<1>7. /\ hist' = [hist EXCEPT ![c] = hist'[c]] /\ hist'[c] \in HistType
      /\ hist'[c].live = hist[c].live /\ hist'[c].gone = hist[c].gone
      /\ hist'[c].known = hist[c].known /\ hist'[c].vetoed = hist[c].vetoed
      /\ hist'[c].before = hist[c].before /\ hist'[c].after = hist[c].after
      /\ hist'[c].sent = hist[c].sent /\ hist'[c].refused = hist[c].refused
      /\ hist'[c].failed => hist'[c].known \subseteq hist'[c].told
      /\ ~hist'[c].failed => hist'[c].told \subseteq MayThrow
  <2>1. CASE UNCHANGED hist
    BY <2>1, <1>0 DEF IndInv, Types, Informed
  <2>2. CASE hist' = Told(c)
    <3>1. /\ hist'[c] = [hist[c] EXCEPT !.told = hist[c].told \cup RangeOf(middleware),
                                        !.failed = TRUE]
          /\ hist' = [hist EXCEPT ![c] = hist'[c]]
      BY <2>2 DEF Told, IndInv, Types
    <3>2. hist[c].told \in SUBSET Middleware /\ middleware \in Seq(Middleware)
      BY <1>0 DEF HistType, IndInv, Types
    <3>3. hist[c].told \cup RangeOf(middleware) \in SUBSET Middleware
      BY <3>2 DEF RangeOf
    <3>4. [hist[c] EXCEPT !.told = hist[c].told \cup RangeOf(middleware),
                          !.failed = TRUE] \in HistType
      BY <1>0, <3>3, HistTyped, Zenon
    <3>5. /\ hist'[c].live = hist[c].live /\ hist'[c].gone = hist[c].gone
          /\ hist'[c].known = hist[c].known /\ hist'[c].vetoed = hist[c].vetoed
          /\ hist'[c].before = hist[c].before /\ hist'[c].after = hist[c].after
          /\ hist'[c].sent = hist[c].sent /\ hist'[c].refused = hist[c].refused
          /\ hist'[c].told = hist[c].told \cup RangeOf(middleware) /\ hist'[c].failed = TRUE
      BY <1>0, <3>1 DEF HistType
    <3>6. hist'[c].known \subseteq hist'[c].told
      BY <1>0, <3>5 DEF Informed
    <3> QED  BY <3>1, <3>4, <3>5, <3>6
  <2>3. hist' = hist \/ hist' = Told(c)
    BY DEF FanInvoke, Reported
  <2> QED  BY <2>1, <2>2, <2>3
<1>8. SiteInv(c, s)'
  <2>1. Shape(c, s)'
    BY <1>0, <1>1, <1>2, <1>3, <1>5, <1>7 DEF Shape, SiteInv
  <2>2. Once(c, s)'
    <3>1. Once(c, s) /\ Head(q) \in RangeOf(q)
      BY <1>0, <1>2 DEF SiteInv
    <3>2. Distinct(Tail(q)) /\ Distinct(Append(h, Head(q)))
      BY <3>1, <1>2, <1>3 DEF Once
    <3>3. /\ RangeOf(Tail(q)) \cap RangeOf(Append(h, Head(q))) = {}
          /\ (RangeOf(Tail(q)) \cup RangeOf(Append(h, Head(q)))) \cap hist[c].gone[s] = {}
      BY <3>1, <1>2, <1>3 DEF Once
    <3> QED  BY <3>2, <3>3, <1>1, <1>5, <1>7 DEF Once
  <2>3. s \notin Relays => InOrder(c, s)'
    <3> SUFFICES ASSUME s \notin Relays  PROVE InOrder(c, s)'
      OBVIOUS
    <3>1. InOrder(c, s)
      BY <1>0 DEF SiteInv
    <3>2. Head(q) = q[1] /\ 1 \in 1..Len(q)
      BY <1>0
    <3>3. \A j \in 1..Len(Tail(q)) : j + 1 \in 1..Len(q) /\ Tail(q)[j] = q[j + 1]
      BY <1>0
    <3>4. \A i \in 1..Len(h) : Priority[h[i]] <= Priority[Head(q)]
      BY <3>1, <3>2 DEF InOrder
    <3>5. Ordered(Tail(q)) /\ Ordered(Append(h, Head(q)))
      BY <3>1, <3>4, <1>2, <1>3 DEF InOrder
    <3>6. ASSUME NEW i \in 1..Len(Append(h, Head(q))), NEW j \in 1..Len(Tail(q))
          PROVE  Priority[Append(h, Head(q))[i]] <= Priority[Tail(q)[j]]
      <4>1. Len(h) \in Nat /\ Len(Append(h, Head(q))) = Len(h) + 1
        BY <1>0
      <4>2. CASE i = Len(h) + 1
        <5>1. Append(h, Head(q))[i] = Head(q)
          BY <4>2, <1>0
        <5> QED  BY <5>1, <3>1, <1>2 DEF InOrder
      <4>3. CASE i # Len(h) + 1
        <5>1. i \in 1..Len(h) /\ Append(h, Head(q))[i] = h[i]
          BY <4>1, <4>3, <1>0
        <5> QED  BY <5>1, <3>1, <3>3 DEF InOrder
      <4> QED  BY <4>2, <4>3
    <3> QED  BY <3>5, <3>6, <1>1, <1>5 DEF InOrder
  <2>4. Covered(c, s)'
    BY <1>0, <1>1, <1>2, <1>3, <1>5, <1>6, <1>7 DEF SiteInv, Covered
  <2> QED  BY <2>1, <2>2, <2>3, <2>4 DEF SiteInv
<1> QED  BY <1>0, <1>1, <1>4, <1>7, <1>8, FanOutStep

\* The copy has been walked to its end.
LEMMA FanEndStep ==
    ASSUME IndInv, NEW c \in Calls, NEW s \in Sites, FanEnd(c, s)
    PROVE  IndInv'
<1> DEFINE f == [fan[c][s] EXCEPT !.st = "done"]
<1>0. /\ hist[c] \in HistType /\ fan[c][s] \in FanType /\ SiteInv(c, s) /\ Informed(c)
      /\ fan[c][s].st = "running" /\ fan[c][s].todo = <<>>
  BY SiteFacts DEF FanEnd
<1>1. /\ fan' = [fan EXCEPT ![c][s] = f] /\ fan'[c][s] = f /\ UNCHANGED hist
      /\ UNCHANGED registries /\ UNCHANGED call /\ UNCHANGED <<published, dropped>>
  BY DEF FanEnd, IndInv, Types
<1>2. f \in FanType /\ f.st = "done" /\ f.todo = fan[c][s].todo /\ f.heard = fan[c][s].heard
  BY <1>0 DEF FanType
<1>3. Audience(s)' = Audience(s) /\ Departed(s)' = Departed(s)
  BY <1>1 DEF registries, Audience, Departed
<1> HIDE DEF f
<1>4. SiteInv(c, s)'
  <2>1. Shape(c, s)'
    BY <1>0, <1>1, <1>2 DEF Shape, SiteInv
  <2>2. Once(c, s)'
    BY <1>0, <1>1, <1>2 DEF Once, SiteInv
  <2>3. s \notin Relays => InOrder(c, s)'
    BY <1>0, <1>1, <1>2 DEF InOrder, SiteInv
  <2>4. Covered(c, s)'
    BY <1>0, <1>1, <1>2, <1>3 DEF SiteInv, Covered
  <2> QED  BY <2>1, <2>2, <2>3, <2>4 DEF SiteInv
<1> QED  BY <1>0, <1>1, <1>2, <1>4, FanOutStep DEF IndInv, Types, Informed

-----------------------------------------------------------------------------
(* The theorems *)

\* Every step, of any registration, call or fan-out, preserves the invariant.
LEMMA NextStep == IndInv /\ [Next]_vars => IndInv'
<1> SUFFICES ASSUME IndInv, [Next]_vars  PROVE IndInv'
  OBVIOUS
<1>1. CASE Register
  BY <1>1, UseMiddlewareStep, UseTransportStep, ListenStep, ReleaseStep, AddRouteStep,
     RemoveRouteStep DEF Register
<1>2. ASSUME NEW c \in Calls, Step(c)  PROVE IndInv'
  BY <1>2, BeforeOkStep, BeforeThrowStep, BeforeVetoStep, BeforeDoneStep, SnapshotStep,
     ConflictStep, RouteSkipStep, RouteFilteredStep, RouteDispatchStep, RouteThrowStep,
     InlineReturnStep, RouteFallbackStep, RouteDoneStep, AfterStep, ReturnStep DEF Step
<1>3. ASSUME NEW c \in Calls, NEW F \in FlagSets, Publish(c, F)  PROVE IndInv'
  BY <1>3, PublishStep
<1>4. ASSUME NEW c \in Calls, NEW s \in Sites, FanOut(c, s)  PROVE IndInv'
  BY <1>4, FanFilteredStep, FanStartStep, FanSkipStep, FanInvokeStep, FanEndStep DEF FanOut
<1>5. CASE UNCHANGED vars
  <2>1. UNCHANGED <<call, fan, hist>> /\ UNCHANGED registries
    BY <1>5 DEF vars
  <2>2. Types' /\ Registries'
    BY <1>5 DEF vars, registries, IndInv, Types, Registries, Audience, Departed
  <2>3. Grows
    BY <2>1 DEF IndInv, Registries, Grows, registries, Audience, Departed
  <2> QED  BY <2>1, <2>2, <2>3, GrowsKeepsCalls DEF IndInv
<1> QED  BY <1>1, <1>2, <1>3, <1>4, <1>5 DEF Next

\* The inductive invariant holds throughout every behaviour of the bus.
THEOREM Invariance == Spec => []IndInv
  BY InitInv, NextStep, PTL DEF Spec

\* Where registration puts an element is never open, and always exists: the
\* middleware, the transports and the listeners of a bus have one place each for
\* whatever is registered next, behind its equals and before what is higher.
OnePlace ==
    /\ \A m \in Middleware : \E r : Insert(middleware, m) = {r}
    /\ \A t \in Transports : \E r : Insert(transports, t) = {r}
    /\ \A l \in Listeners : \E r : Insert(listeners, l) = {r}

InPriorityOrder == Ordered(middleware) /\ Ordered(transports) /\ Ordered(listeners)

\* The containers of the bus are in priority order, whatever is registered or
\* released in between, so use_middleware(), use_transport() and listen() can
\* always insert, in exactly one place.
THEOREM RegistrationHasOnePlace == Spec => [](InPriorityOrder /\ OnePlace)
<1>1. Init => InPriorityOrder
  BY DEF Init, InPriorityOrder, Ordered
<1>2. IndInv /\ InPriorityOrder /\ [Next]_vars => InPriorityOrder'
  <2> SUFFICES ASSUME IndInv, InPriorityOrder, [Next]_vars  PROVE InPriorityOrder'
    OBVIOUS
  <2>1. /\ middleware \in Seq(Middleware) /\ transports \in Seq(Transports)
        /\ listeners \in Seq(Listeners) /\ Distinct(listeners)
    <3>1. Fallback \in Sites /\ Fallback \notin Relays
      BY TransportsAssumption DEF Sites, Relays
    <3>2. Audience(Fallback) = listeners
      BY <3>1 DEF Audience
    <3> QED  BY <3>1, <3>2 DEF IndInv, Types, Registries
  <2>2. ASSUME NEW m \in Middleware, UseMiddleware(m)  PROVE InPriorityOrder'
    BY <2>1, <2>2, InsertFacts, PriorityInt DEF UseMiddleware, InPriorityOrder, Ordered
  <2>3. ASSUME NEW t \in Transports, UseTransport(t)  PROVE InPriorityOrder'
    BY <2>1, <2>3, InsertFacts, PriorityInt DEF UseTransport, InPriorityOrder, Ordered
  <2>4. ASSUME NEW l \in Listeners, Listen(l)  PROVE InPriorityOrder'
    BY <2>1, <2>4, InsertFacts, PriorityInt DEF Listen, InPriorityOrder, Ordered
  <2>5. ASSUME NEW l \in Listeners, Release(l)  PROVE InPriorityOrder'
    BY <2>1, <2>5, EraseFacts DEF Release, InPriorityOrder, Ordered
  <2>6. ASSUME UNCHANGED <<middleware, transports, listeners>>  PROVE InPriorityOrder'
    BY <2>6 DEF InPriorityOrder, Ordered
  <2>7. ASSUME UNCHANGED registries  PROVE InPriorityOrder'
    BY <2>6, <2>7 DEF registries
  <2>8. CASE Register
    BY <2>2, <2>3, <2>4, <2>5, <2>6, <2>8 DEF Register, AddRoute, RemoveRoute
  <2>9. ASSUME NEW c \in Calls, Step(c)  PROVE UNCHANGED registries
    BY <2>9 DEF Step, BeforeOk, BeforeThrow, BeforeVeto, BeforeDone, Snapshot, Conflict, RouteSkip,
       RouteFiltered, RouteDispatch, RouteThrow, InlineReturn, RouteFallback, RouteDone, After, Return
  <2>10. ASSUME NEW c \in Calls, NEW F \in FlagSets, Publish(c, F)  PROVE UNCHANGED registries
    BY <2>10 DEF Publish
  <2>11. ASSUME NEW c \in Calls, NEW s \in Sites, FanOut(c, s)  PROVE UNCHANGED registries
    BY <2>11 DEF FanOut, FanFiltered, FanStart, FanSkip, FanInvoke, FanEnd, FanStep
  <2>12. CASE UNCHANGED vars
    BY <2>7, <2>12 DEF vars
  <2> QED  BY <2>7, <2>8, <2>9, <2>10, <2>11, <2>12 DEF Next
<1>3. IndInv /\ InPriorityOrder => OnePlace
  BY OneFit, PriorityInt DEF IndInv, Types, InPriorityOrder, OnePlace
<1> QED  BY <1>1, <1>2, <1>3, Invariance, PTL DEF Spec

\* What a middleware vetoed in publish_impl(), or what is published both
\* LocalOnly and RemoteOnly, reaches no transport and starts no fan-out.
THEOREM DroppedStops == Spec => []DroppedGoesNowhere
<1>1. IndInv => DroppedGoesNowhere
  BY DEF IndInv, CallInv, Gate, DroppedGoesNowhere, Unrouted, NoFan
<1> QED  BY <1>1, Invariance, PTL

\* The scope test of publish_impl() keeps a LocalOnly envelope away from remote
\* transports, and a RemoteOnly one away from local transports and the fallback.
THEOREM RoutingRespectsScope == Spec => []RoutingMatrix
<1>1. IndInv => RoutingMatrix
  BY DEF IndInv, CallInv, Matrix, RoutingMatrix
<1> QED  BY <1>1, Invariance, PTL

\* A publish_impl() that has returned has run after_dispatch, in reverse, on
\* exactly the middleware it copied for before_dispatch.
THEOREM AfterMirrors == Spec => []AfterMirrorsBefore
<1>1. IndInv => AfterMirrorsBefore
  BY DEF IndInv, CallInv, Before, Mirrored, AfterMirrorsBefore
<1> QED  BY <1>1, Invariance, PTL

\* run_on_error() reaches every middleware registered before the failed call,
\* unless that call skips middleware.
THEOREM FailuresAreReported == Spec => []FailuresReachMiddleware
<1>1. IndInv => FailuresReachMiddleware
  BY DEF IndInv, CallInv, Informed, FailuresReachMiddleware
<1> QED  BY <1>1, Invariance, PTL

\* A FilteredTransport that refuses, its predicate throwing or not, on the
\* outbound or the inbound leg, causes no on_error.
THEOREM RefusalsAreNotReported == Spec => []RefusalsAreSilent
<1>1. IndInv => RefusalsAreSilent
  BY DEF IndInv, CallInv, Informed, RefusalsAreSilent
<1> QED  BY <1>1, Invariance, PTL

\* deliver_to_listeners() invokes handlers in priority order.
THEOREM HandlersInOrder == Spec => []PriorityOrder
<1>1. IndInv => PriorityOrder
  BY DEF IndInv, CallInv, FanInv, SiteInv, InOrder, Ordered, PriorityOrder
<1> QED  BY <1>1, Invariance, PTL

\* A fan-out of deliver_to_listeners(), or of a relay, calls everyone it must,
\* once, and nobody who left before the call or whom a filter kept away.
THEOREM FanOutIsExact == Spec => []FanOutExact
<1>1. ASSUME IndInv, NEW c \in Calls, NEW s \in Sites
      PROVE  /\ fan[c][s].st = "done" /\ s \notin hist[c].refused =>
                    \A l \in Matching \cap hist[c].live[s] \cap RangeOf(Audience(s)) :
                        Times(l, fan[c][s].heard) = 1
             /\ RangeOf(fan[c][s].heard) \cap hist[c].gone[s] = {}
             /\ s \in hist[c].refused => fan[c][s].heard = <<>>
  <2>1. Shape(c, s) /\ Once(c, s) /\ Covered(c, s)
    BY <1>1 DEF IndInv, CallInv, FanInv, SiteInv
  <2>2. ASSUME fan[c][s].st = "done", s \notin hist[c].refused,
               NEW l \in Matching \cap hist[c].live[s] \cap RangeOf(Audience(s))
        PROVE  Times(l, fan[c][s].heard) = 1
    <3> DEFINE h == fan[c][s].heard
    <3>1. l \in RangeOf(h) /\ Distinct(h)
      BY <2>1, <2>2, EmptyFacts DEF Shape, Covered, Once
    <3>2. PICK n \in 1..Len(h) : h[n] = l
      BY <3>1 DEF RangeOf
    <3>3. {i \in 1..Len(h) : h[i] = l} = {n}
      BY <3>1, <3>2 DEF Distinct
    <3> QED  BY <3>3, FS_Singleton DEF Times
  <2>3. RangeOf(fan[c][s].heard) \cap hist[c].gone[s] = {}
    BY <2>1 DEF Once
  <2> QED  BY <2>1, <2>2, <2>3 DEF Shape
<1>2. IndInv => FanOutExact
  BY <1>1 DEF FanOutExact
<1> QED  BY <1>2, Invariance, PTL
=============================================================================
