------------------------ MODULE AmqpTransportProofs ------------------------
(***************************************************************************)
(* Proofs about AmqpTransport, for any number of threads and calls: the    *)
(* self-pipe loses no wakeup, a connection error releases its waiters, an  *)
(* answered flush() covers its caller's publishes and confirms are not     *)
(* mixed up while the tags are in step, whatever times out or throws.      *)
(***************************************************************************)
EXTENDS AmqpTransport, SequenceTheorems, TLAPS

Elems(s) == {s[i] : i \in 1..Len(s)}
InFlight == Elems(batch) \cup Elems(queue)

\* x was posted by the thread that posted y, and before it.
Precedes(x, y) == x.p[1] = y.p[1] => x.p[2] < y.p[2]
Fifo(s) == \A i, j \in 1..Len(s) : i < j => Precedes(s[i], s[j])

\* The n-th task of a thread resolves its n-th promise.
Numbered ==
    /\ \A c \in Callers : /\ calls[c] <= MaxCalls[c]
                          /\ cur[c].kind = "none" => calls[c] = 0
                          /\ cur[c].kind # "none" => cur[c].p = <<c, calls[c]>>
                          /\ pc[c] \in {"posted", "waiting"} => cur[c].kind # "none"
                          /\ pc[c] = "waiting" /\ cur[c].kind = "publish" => cur[c].ack
    /\ \A t \in InFlight : /\ t.kind # "none" /\ t.p[2] <= calls[t.p[1]]
                           /\ t.p = cur[t.p[1]].p => t = cur[t.p[1]]

\* The tasks of a thread are run in the order it posted them, so whoever has a
\* task in flight has its last one in flight.
InOrder ==
    /\ Fifo(batch) /\ Fifo(queue)
    /\ \A x \in Elems(batch), y \in Elems(queue) : Precedes(x, y)
    /\ \A t \in InFlight : cur[t.p[1]] \in InFlight
    /\ io \notin {"tasks", "undefined"} => batch = <<>>

\* A promise is resolved by at most one of: the task it was posted with, the
\* confirm that is awaited for it, the answer to connect_and_declare().
Fresh ==
    /\ \A p \in Promises : p[2] > calls[p[1]] => outcome[p] = "none"
    /\ \A t \in InFlight : outcome[t.p] = "none" /\ t.p \notin shared_p
    /\ \A e \in pending : /\ outcome[e.p] = "none" /\ e.p \notin shared_p
                          /\ e.p[2] <= calls[e.p[1]] /\ \A t \in InFlight : t.p # e.p
    /\ \A d, e \in pending : d.p = e.p => d = e
    /\ \A p \in shared_p : p[2] <= calls[p[1]]

\* From the swap on, whatever is queued or stopped has its byte, or will have.
Wakeups ==
    /\ io \in {"tasks", "poll"} /\ ~pipe /\ queue # <<>> => \E c \in Callers : pc[c] = "posted"
    /\ io = "poll" /\ ~pipe /\ stop => pc[Owner] = "stopping"

\* Whoever waits for a confirm is told, or its message is in flight or pending.
Waiters ==
    /\ \A c \in Callers :
          pc[c] \in {"posted", "waiting"} /\ cur[c].kind = "publish" /\ cur[c].ack =>
              \/ outcome[cur[c].p] # "none" \/ cur[c] \in InFlight
              \/ \E e \in pending : e.p = cur[c].p
    /\ conn = "failed" => \A e \in pending : e.p \in strays

IndInv == TypeOK /\ Numbered /\ InOrder /\ Fresh /\ Wakeups /\ Waiters

\* A channel that was opened on the first tag met no confirms of another.
FirstTag == base <= next_tag /\ (next_tag = 1 => pending = {})

\* The awaited confirms are those of the unanswered messages that asked for one.
Tagged ==
    InStep /\ conn = "open" =>
        /\ next_tag = Len(wire) + 1
        /\ \A e \in pending : e.tag \in unanswered /\ wire[e.tag].p = e.p /\ wire[e.tag].ack
        /\ \A i \in unanswered : wire[i].ack => [tag |-> i, p |-> wire[i].p] \in pending

-----------------------------------------------------------------------------
(* Promises and sequences of tasks *)

\* A promise is named by a thread and the number of one of its calls.
LEMMA PromiseFacts ==
    /\ \A p \in Promises : p[1] \in Callers /\ p[2] \in 1..MaxCalls[p[1]] /\ p = <<p[1], p[2]>>
    /\ \A c \in Callers : \A n \in 1..MaxCalls[c] : <<c, n>> \in Promises
  BY DEF Promises

\* Nobody is in an empty sequence.
LEMMA NilFacts == Elems(<<>>) = {} /\ Fifo(<<>>) /\ \A S : <<>> \in Seq(S)
  BY DEF Elems, Fifo

\* Taking the head off leaves tasks that come behind it, in order.
LEMMA HeadFacts ==
    ASSUME NEW S, NEW s \in Seq(S), s # <<>>
    PROVE  /\ Head(s) \in S /\ Tail(s) \in Seq(S)
           /\ Elems(s) = Elems(Tail(s)) \cup {Head(s)}
           /\ Fifo(s) => Fifo(Tail(s)) /\ \A x \in Elems(Tail(s)) : Precedes(Head(s), x)
<1> DEFINE r == Tail(s)
<1>1. /\ Head(s) \in S /\ r \in Seq(S) /\ Head(s) = s[1]
      /\ Len(s) \in Nat /\ Len(s) >= 1 /\ Len(r) = Len(s) - 1
      /\ \A i \in 1..Len(r) : r[i] = s[i + 1]
  BY HeadTailProperties, EmptySeq, LenProperties
<1> HIDE DEF r
<1>2. Elems(s) = Elems(r) \cup {Head(s)}
  <2>1. Elems(r) \cup {Head(s)} \subseteq Elems(s)
    BY <1>1 DEF Elems
  <2>2. ASSUME NEW i \in 1..Len(s)  PROVE s[i] \in Elems(r) \cup {Head(s)}
    <3>1. CASE i = 1
      BY <3>1, <1>1
    <3>2. CASE i # 1
      <4>1. i - 1 \in 1..Len(r) /\ r[i - 1] = s[i]
        BY <3>2, <1>1
      <4> QED  BY <4>1 DEF Elems
    <3> QED  BY <3>1, <3>2
  <2> QED  BY <2>1, <2>2 DEF Elems
<1>3. ASSUME Fifo(s)  PROVE Fifo(r)
  BY <1>1, <1>3 DEF Fifo
<1>4. ASSUME Fifo(s)  PROVE \A x \in Elems(r) : Precedes(Head(s), x)
  BY <1>1, <1>4 DEF Fifo, Elems
<1> QED  BY <1>1, <1>2, <1>3, <1>4 DEF r

\* Posting adds one task, which comes behind all others of its thread.
LEMMA PushFacts ==
    ASSUME NEW S, NEW s \in Seq(S), NEW x \in S
    PROVE  /\ Append(s, x) \in Seq(S) /\ Elems(Append(s, x)) = Elems(s) \cup {x}
           /\ Append(s, x) # <<>>
           /\ Fifo(s) /\ (\A y \in Elems(s) : Precedes(y, x)) => Fifo(Append(s, x))
<1> DEFINE r == Append(s, x)
<1>1. /\ r \in Seq(S) /\ Len(r) = Len(s) + 1 /\ r[Len(s) + 1] = x /\ r # <<>>
      /\ \A i \in 1..Len(s) : r[i] = s[i]
  BY AppendProperties
<1>2. Len(s) \in Nat
  BY LenProperties
<1> HIDE DEF r
<1>3. Elems(r) = Elems(s) \cup {x}
  <2>1. Elems(r) \subseteq Elems(s) \cup {x}
    BY <1>1, <1>2 DEF Elems
  <2>2. x \in Elems(r) /\ \A i \in 1..Len(s) : s[i] \in Elems(r)
    BY <1>1, <1>2 DEF Elems
  <2> QED  BY <2>1, <2>2 DEF Elems
<1>4. ASSUME Fifo(s), \A y \in Elems(s) : Precedes(y, x)  PROVE Fifo(r)
  <2> SUFFICES ASSUME NEW i \in 1..Len(r), NEW j \in 1..Len(r), i < j  PROVE Precedes(r[i], r[j])
    BY DEF Fifo
  <2>1. i \in 1..Len(s) /\ r[i] = s[i] /\ s[i] \in Elems(s)
    BY <1>1, <1>2 DEF Elems
  <2>2. CASE j = Len(s) + 1
    BY <2>1, <2>2, <1>1, <1>4
  <2>3. CASE j # Len(s) + 1
    BY <2>1, <2>3, <1>1, <1>2, <1>4 DEF Fifo
  <2> QED  BY <2>2, <2>3
<1> QED  BY <1>1, <1>3, <1>4 DEF r

\* The tasks in flight are tasks, and Queued is about them.
LEMMA FlightFacts ==
    ASSUME TypeOK
    PROVE  /\ InFlight \subseteq Task
           /\ \A t \in InFlight : t.p \in Promises /\ t.p[1] \in Callers
           /\ \A p : Queued(p) <=> \E t \in InFlight : t.p = p
<1>1. InFlight \subseteq Task
  BY DEF TypeOK, InFlight, Elems
<1>2. \A p : Queued(p) <=> \E t \in InFlight : t.p = p
  BY DEF Queued, InFlight, Elems
<1>3. \A t \in Task : t.p \in Promises
  BY DEF Task
<1> QED  BY <1>1, <1>2, <1>3, PromiseFacts

-----------------------------------------------------------------------------
(* The invariant *)

\* The invariant holds before the first attach().
LEMMA InitInv == Init => IndInv
<1> SUFFICES ASSUME Init  PROVE IndInv
  OBVIOUS
<1>0. InFlight = {}
  BY NilFacts DEF Init, InFlight
<1>1. TypeOK
  <2>1. <<Owner, 1>> \in Promises
    BY PromiseFacts, BoundsAssumption DEF Callers
  <2>2. NoTask \in Task
    BY <2>1 DEF NoTask, Task
  <2>3. cur \in [Callers -> Task] /\ calls \in [Callers -> Nat]
    BY <2>2 DEF Init
  <2>4. queue \in Seq(Task) /\ batch \in Seq(Task) /\ wire \in Seq(Task)
    BY NilFacts DEF Init
  <2>5. unanswered \subseteq 1..Len(wire) /\ pending \subseteq [tag : Nat, p : Promises]
    BY DEF Init
  <2>6. /\ pc \in [Callers -> {"idle", "posted", "waiting", "started", "shutdown", "stopping", "join"}]
        /\ outcome \in [Promises -> {"none", "ok", "error", "done", "ack", "nack"}]
        /\ answer \in [Promises -> {"none", "ack", "nack"}]
    BY DEF Init
  <2>7. /\ pipe \in BOOLEAN /\ stop \in BOOLEAN /\ error_seen \in BOOLEAN
        /\ inserted \in BOOLEAN
    BY DEF Init
  <2>8. /\ attaches \in Nat /\ next_tag \in Nat \ {0}
        /\ io = "none" /\ conn = "null" /\ stage = "none" /\ shared_p = {}
        /\ base \in Nat \ {0} /\ strays = {}
    BY DEF Init
  <2> QED  BY <2>3, <2>4, <2>5, <2>6, <2>7, <2>8 DEF TypeOK
<1>2. Numbered
  BY <1>0, BoundsAssumption DEF Init, Numbered, NoTask
<1>3. InOrder
  BY <1>0, NilFacts DEF Init, InOrder
<1>4. Fresh
  BY <1>0 DEF Init, Fresh
<1>5. Wakeups /\ Waiters
  BY DEF Init, Wakeups, Waiters
<1> QED  BY <1>1, <1>2, <1>3, <1>4, <1>5 DEF IndInv

\* A step that neither posts nor runs a task, and resolves at most the promise
\* of connect_and_declare() and those whose confirms it takes off the list.
LEMMA QuietStep ==
    ASSUME IndInv, TypeOK', Wakeups', UNCHANGED <<queue, batch, cur, calls>>,
           io' \notin {"tasks", "undefined"} \/ io' = io, shared_p' \subseteq shared_p,
           \A c \in Callers : pc'[c] \in {"posted", "waiting"} =>
               /\ pc[c] \in {"posted", "waiting"}
               /\ pc'[c] = "waiting" /\ cur[c].kind = "publish" => cur[c].ack,
           io \in {"tasks", "undefined"} => io' = io \/ batch = <<>>,
           pending' \subseteq pending, conn' = "failed" => \A e \in pending' : e.p \in strays',
           \A p \in Promises : \/ outcome'[p] = outcome[p]
                               \/ outcome[p] = "none" /\ p \in shared_p
                               \/ outcome[p] = "none" /\ \E e \in pending \ pending' : e.p = p,
           \A e \in pending \ pending' : outcome'[e.p] # "none"
    PROVE  IndInv'
<1>0. /\ TypeOK /\ InFlight' = InFlight /\ \A t \in InFlight : t.p \in Promises
      /\ pending \subseteq [tag : Nat, p : Promises]
  BY FlightFacts DEF IndInv, InFlight, TypeOK
<1>1. Numbered'
  BY <1>0 DEF IndInv, Numbered
<1>2. InOrder'
  BY <1>0 DEF IndInv, InOrder
<1>3. Fresh'
  <2>1. \A p \in Promises : p[2] > calls[p[1]] => outcome'[p] = "none"
    <3> SUFFICES ASSUME NEW p \in Promises, p[2] > calls[p[1]]  PROVE outcome'[p] = "none"
      OBVIOUS
    <3>1. calls[p[1]] \in Nat /\ p[2] \in Nat
      BY <1>0, PromiseFacts, BoundsAssumption DEF TypeOK
    <3>2. p \notin shared_p /\ \A e \in pending : e.p # p
      BY <3>1 DEF IndInv, Fresh
    <3> QED  BY <3>2 DEF IndInv, Fresh
  <2>2. \A t \in InFlight : outcome'[t.p] = "none" /\ t.p \notin shared_p'
    BY <1>0 DEF IndInv, Fresh
  <2>3. ASSUME NEW e \in pending'
        PROVE  /\ outcome'[e.p] = "none" /\ e.p \notin shared_p'
               /\ e.p[2] <= calls[e.p[1]] /\ \A t \in InFlight : t.p # e.p
    BY <1>0 DEF IndInv, Fresh
  <2> QED  BY <1>0, <2>1, <2>2, <2>3 DEF IndInv, Fresh
<1>4. Waiters'
  <2> SUFFICES ASSUME NEW c \in Callers, pc'[c] \in {"posted", "waiting"}, cur[c].kind = "publish",
                      cur[c].ack
               PROVE  \/ outcome'[cur[c].p] # "none" \/ cur[c] \in InFlight
                      \/ \E e \in pending' : e.p = cur[c].p
    BY <1>0 DEF Waiters
  <2>1. \/ outcome[cur[c].p] # "none" \/ cur[c] \in InFlight
        \/ \E e \in pending : e.p = cur[c].p
    BY DEF IndInv, Waiters
  <2>2. cur[c].p \in Promises
    BY <1>0 DEF TypeOK, Task
  <2> QED  BY <2>1, <2>2
<1> QED  BY <1>1, <1>2, <1>3, <1>4 DEF IndInv

\* post(): the new task is its thread's last, and its promise is unused.
LEMMA PostStep ==
    ASSUME IndInv, TypeOK', NEW c \in Callers,
           NEW kind \in {"publish", "flush", "close", "connect"}, NEW ack \in BOOLEAN,
           pc[c] \notin {"posted", "stopping"}, Post(c, kind, ack)
    PROVE  IndInv'
<1> DEFINE t == [kind |-> kind, p |-> <<c, calls[c] + 1>>, ack |-> ack]
<1>1. /\ calls[c] < MaxCalls[c] /\ queue' = Append(queue, t) /\ cur' = [cur EXCEPT ![c] = t]
      /\ calls' = [calls EXCEPT ![c] = @ + 1] /\ pc' = [pc EXCEPT ![c] = "posted"]
      /\ UNCHANGED <<pipe, batch, io, stop, conn, shared_p, pending, outcome, strays>>
  BY DEF Post, ioVars, link, tags
<1>2. /\ TypeOK /\ calls[c] \in Nat /\ MaxCalls[c] \in Nat /\ queue \in Seq(Task)
      /\ \A d \in Callers : calls[d] \in Nat
      /\ \A u \in InFlight : u.p \in Promises /\ u.p[1] \in Callers
  BY FlightFacts, BoundsAssumption DEF IndInv, TypeOK
<1>3. t \in Task /\ t.p = <<c, calls[c] + 1>> /\ t.p[1] = c /\ t.p[2] = calls[c] + 1 /\ t.p \in Promises
  <2>1. <<c, calls[c] + 1>> \in Promises
    BY <1>1, <1>2, PromiseFacts
  <2> QED  BY <2>1 DEF Task
<1>4. t.kind = kind /\ t.ack = ack
  OBVIOUS
<1> HIDE DEF t
<1>5. \A p \in Promises : p[1] \in Callers /\ p[2] \in Nat
  BY PromiseFacts, BoundsAssumption
<1>6. \A u \in InFlight : Precedes(u, t) /\ u.p # t.p
  BY <1>2, <1>3, <1>5 DEF IndInv, Numbered, Precedes
<1>7. Elems(queue') = Elems(queue) \cup {t} /\ Fifo(queue') /\ queue' # <<>>
  BY <1>1, <1>2, <1>3, <1>6, PushFacts DEF IndInv, InOrder, InFlight
<1>8. InFlight' = InFlight \cup {t}
  BY <1>1, <1>7 DEF InFlight
<1>9. /\ cur'[c] = t /\ calls'[c] = calls[c] + 1 /\ pc'[c] = "posted"
      /\ \A d \in Callers : d # c => cur'[d] = cur[d] /\ calls'[d] = calls[d] /\ pc'[d] = pc[d]
  BY <1>1, <1>2 DEF TypeOK
<1>10. Numbered'
  <2>1. ASSUME NEW d \in Callers
        PROVE  (/\ calls[d] <= MaxCalls[d]
                /\ cur[d].kind = "none" => calls[d] = 0
                /\ cur[d].kind # "none" => cur[d].p = <<d, calls[d]>>
                /\ pc[d] \in {"posted", "waiting"} => cur[d].kind # "none"
                /\ pc[d] = "waiting" /\ cur[d].kind = "publish" => cur[d].ack)'
    <3>1. CASE d = c
      BY <3>1, <1>1, <1>2, <1>3, <1>4, <1>9
    <3>2. CASE d # c
      BY <3>2, <1>9 DEF IndInv, Numbered
    <3> QED  BY <3>1, <3>2
  <2>2. ASSUME NEW u \in InFlight'
        PROVE  (/\ u.kind # "none" /\ u.p[2] <= calls[u.p[1]]
                /\ u.p = cur[u.p[1]].p => u = cur[u.p[1]])'
    <3>1. CASE u = t
      BY <3>1, <1>2, <1>3, <1>4, <1>9
    <3>2. CASE u # t
      <4>1. u \in InFlight /\ u.p[1] \in Callers /\ u.p[2] \in Nat /\ u.p # t.p
        BY <3>2, <1>2, <1>5, <1>6, <1>8
      <4>2. /\ u.kind # "none" /\ u.p[2] <= calls[u.p[1]]
            /\ u.p = cur[u.p[1]].p => u = cur[u.p[1]]
        BY <4>1 DEF IndInv, Numbered
      <4>3. CASE u.p[1] = c
        BY <4>1, <4>2, <4>3, <1>2, <1>9
      <4>4. CASE u.p[1] # c
        BY <4>1, <4>2, <4>4, <1>9
      <4> QED  BY <4>3, <4>4
    <3> QED  BY <3>1, <3>2
  <2> QED  BY <2>1, <2>2 DEF Numbered
<1>11. InOrder'
  <2>1. \A x \in Elems(batch), y \in Elems(queue') : Precedes(x, y)
    BY <1>6, <1>7 DEF IndInv, InOrder, InFlight
  <2>2. \A u \in InFlight' : cur'[u.p[1]] \in InFlight'
    BY <1>2, <1>3, <1>8, <1>9 DEF IndInv, InOrder
  <2> QED  BY <2>1, <2>2, <1>1, <1>7 DEF IndInv, InOrder
<1>12. Fresh'
  <2>0. outcome[t.p] = "none" /\ t.p \notin shared_p /\ \A e \in pending : e.p # t.p
    BY <1>2, <1>3 DEF IndInv, Fresh
  <2>1. \A p \in Promises : p[2] > calls'[p[1]] => p[2] > calls[p[1]]
    BY <1>2, <1>5, <1>9
  <2>2. \A p \in Promises : p[2] <= calls[p[1]] => p[2] <= calls'[p[1]]
    BY <1>2, <1>5, <1>9
  <2>3. pending \subseteq [tag : Nat, p : Promises] /\ shared_p \subseteq Promises
    BY <1>2 DEF TypeOK
  <2>4. \A e \in pending : e.p \in Promises
    BY <2>3
  <2> QED  BY <2>0, <2>1, <2>2, <2>3, <2>4, <1>1, <1>8 DEF IndInv, Fresh
<1>13. Wakeups'
  BY <1>1, <1>9 DEF IndInv, Wakeups
<1>14. Waiters'
  BY <1>1, <1>8, <1>9 DEF IndInv, Waiters
<1> QED  BY <1>10, <1>11, <1>12, <1>13, <1>14 DEF IndInv

\* drain_tasks(): the queue becomes the batch.
LEMMA SwapStep ==
    ASSUME IndInv, TypeOK', IoSwap
    PROVE  IndInv'
<1>1. /\ batch = <<>> /\ batch' = queue /\ queue' = <<>> /\ io' = "tasks"
      /\ UNCHANGED <<pipe, stop, conn, shared_p, pending, pc, cur, calls, outcome, strays>>
  BY DEF IoSwap, IndInv, InOrder, link, callVars, tags
<1>2. Elems(queue') = {} /\ Elems(batch) = {} /\ InFlight' = InFlight /\ Fifo(queue')
  BY <1>1, NilFacts DEF InFlight
<1>3. Numbered' /\ Fresh'
  BY <1>1, <1>2 DEF IndInv, Numbered, Fresh
<1>4. InOrder'
  BY <1>1, <1>2 DEF IndInv, InOrder
<1>5. Wakeups' /\ Waiters'
  BY <1>1, <1>2 DEF IndInv, Wakeups, Waiters
<1> QED  BY <1>3, <1>4, <1>5 DEF IndInv

\* A task is run: it resolves its own promise, or leaves that to the confirm it
\* now awaits or to the answers to connect_and_declare().
LEMMA RunStep ==
    ASSUME IndInv, TypeOK', io = "tasks", batch # <<>>, batch' = Tail(batch), io' \in {"tasks", "undefined"},
           UNCHANGED <<queue, pipe, stop, pc, cur, calls>>,
           \A p \in Promises : p # Head(batch).p => outcome'[p] = outcome[p],
           shared_p' = shared_p \/ (shared_p' = {Head(batch).p} /\ pending' = pending),
           \/ pending' = pending
           \/ /\ pending' = pending \cup {[tag |-> next_tag, p |-> Head(batch).p]}
              /\ outcome' = outcome,
           conn' = "failed" => \A e \in pending' : e.p \in strays',
           Head(batch).kind = "publish" /\ Head(batch).ack =>
               \/ outcome'[Head(batch).p] # "none"
               \/ \E e \in pending' : e.p = Head(batch).p
    PROVE  IndInv'
<1> DEFINE t == Head(batch)
<1>1. /\ batch' = Tail(batch) /\ UNCHANGED <<queue, pipe, stop, pc, cur, calls>>
  OBVIOUS
<1>2. /\ t \in Task /\ Elems(batch) = Elems(batch') \cup {t} /\ Fifo(batch')
      /\ \A x \in Elems(batch') : Precedes(t, x)
  <2>1. batch \in Seq(Task)
    BY DEF IndInv, TypeOK
  <2> QED  BY <2>1, <1>1, HeadFacts DEF IndInv, InOrder
<1>3. /\ TypeOK /\ \A d \in Callers : calls[d] \in Nat
      /\ \A u \in InFlight : u.p \in Promises /\ u.p[1] \in Callers
      /\ pending \subseteq [tag : Nat, p : Promises] /\ shared_p \subseteq Promises
  BY FlightFacts DEF IndInv, TypeOK
<1>4. \A p \in Promises : p[1] \in Callers /\ p[2] \in Nat
  BY PromiseFacts, BoundsAssumption
<1>5. InFlight = InFlight' \cup {t} /\ t \in InFlight
  BY <1>1, <1>2 DEF InFlight
<1>6. \A u \in InFlight' : u \in InFlight /\ u.p # t.p /\ Precedes(t, u)
  <2>1. \A u \in InFlight' : Precedes(t, u) /\ u \in InFlight
    BY <1>1, <1>2, <1>5 DEF IndInv, InOrder, InFlight
  <2> QED  BY <2>1, <1>3, <1>4, <1>5 DEF Precedes
<1> HIDE DEF t
<1>7. Numbered'
  BY <1>1, <1>5 DEF IndInv, Numbered
<1>8. InOrder'
  <2>1. ASSUME NEW u \in InFlight'  PROVE cur[u.p[1]] \in InFlight'
    <3>1. cur[u.p[1]] \in InFlight /\ u \in InFlight /\ u.p[2] <= calls[u.p[1]]
      BY <1>6 DEF IndInv, InOrder, Numbered
    <3>2. CASE cur[u.p[1]] # t
      BY <3>1, <3>2, <1>5
    <3>3. CASE cur[u.p[1]] = t
      <4>1. t.kind # "none" /\ u.p[1] \in Callers
        BY <3>1, <1>3, <1>5 DEF IndInv, Numbered
      <4>2. t.p = <<u.p[1], calls[u.p[1]]>>
        BY <3>3, <4>1 DEF IndInv, Numbered
      <4>3. t.p[1] = u.p[1] /\ t.p[2] = calls[u.p[1]]
        BY <4>2
      <4>4. t.p[2] < u.p[2]
        BY <4>3, <1>6 DEF Precedes
      <4>5. u.p[2] \in Nat /\ calls[u.p[1]] \in Nat
        BY <3>1, <4>1, <1>3, <1>4
      <4> QED  BY <3>1, <4>3, <4>4, <4>5
    <3> QED  BY <3>2, <3>3
  <2> QED  BY <2>1, <1>1, <1>2 DEF IndInv, InOrder
<1>9. Fresh'
  <2>0. outcome[t.p] = "none" /\ t.p \notin shared_p /\ t.p \in Promises /\ t.p[2] <= calls[t.p[1]]
    BY <1>3, <1>5 DEF IndInv, Fresh, Numbered
  <2>1. ASSUME NEW p \in Promises, p[2] > calls[p[1]]  PROVE outcome'[p] = "none"
    <3>1. p # t.p
      BY <2>0, <2>1, <1>3, <1>4
    <3> QED  BY <2>1, <3>1 DEF IndInv, Fresh, t
  <2>2. ASSUME NEW u \in InFlight'  PROVE outcome'[u.p] = "none" /\ u.p \notin shared_p'
    BY <1>3, <1>6 DEF IndInv, Fresh, t
  <2>3. ASSUME NEW e \in pending  PROVE e.p \in Promises /\ e.p # t.p
    BY <1>3, <1>5 DEF IndInv, Fresh
  <2>4. ASSUME NEW e \in pending'
        PROVE  /\ outcome'[e.p] = "none" /\ e.p \notin shared_p'
               /\ e.p[2] <= calls[e.p[1]] /\ \A u \in InFlight' : u.p # e.p
    <3>1. CASE e \in pending
      BY <3>1, <2>3, <1>6 DEF IndInv, Fresh, t
    <3>2. CASE e \notin pending
      <4>1. e.p = t.p /\ outcome' = outcome /\ shared_p' = shared_p
        BY <3>2 DEF t
      <4> QED  BY <4>1, <2>0, <1>6
    <3> QED  BY <3>1, <3>2
  <2>5. \A d, e \in pending' : d.p = e.p => d = e
    <3>1. CASE pending' = pending
      BY <3>1 DEF IndInv, Fresh
    <3>2. CASE pending' = pending \cup {[tag |-> next_tag, p |-> t.p]}
      BY <3>2, <2>3 DEF IndInv, Fresh
    <3> QED  BY <3>1, <3>2 DEF t
  <2>6. \A p \in shared_p' : p[2] <= calls[p[1]]
    BY <2>0 DEF IndInv, Fresh, t
  <2> QED  BY <2>1, <2>2, <2>4, <2>5, <2>6, <1>1 DEF Fresh
<1>10. Wakeups'
  BY <1>1 DEF IndInv, Wakeups
<1>11. Waiters'
  <2>1. ASSUME NEW c \in Callers, pc[c] \in {"posted", "waiting"}, cur[c].kind = "publish",
               cur[c].ack
        PROVE  \/ outcome'[cur[c].p] # "none" \/ cur[c] \in InFlight'
               \/ \E e \in pending' : e.p = cur[c].p
    <3>1. CASE cur[c] = t
      BY <3>1, <2>1 DEF t
    <3>2. CASE cur[c] # t
      <4>1. \/ outcome[cur[c].p] # "none" \/ cur[c] \in InFlight
            \/ \E e \in pending : e.p = cur[c].p
        BY <2>1 DEF IndInv, Waiters
      <4>2. cur[c].p \in Promises
        BY <1>3 DEF TypeOK, Task
      <4>3. outcome[t.p] = "none" /\ pending \subseteq pending'
        BY <1>5 DEF IndInv, Fresh
      <4> QED  BY <3>2, <4>1, <4>2, <4>3, <1>5 DEF t
    <3> QED  BY <3>1, <3>2
  <2> QED  BY <2>1, <1>1 DEF IndInv, Waiters
<1> QED  BY <1>7, <1>8, <1>9, <1>10, <1>11 DEF IndInv

-----------------------------------------------------------------------------
(* Types *)

\* set_value() on any promises, with any of the results in use.
LEMMA ResolveFacts ==
    ASSUME TypeOK, NEW ps, NEW v \in {"ok", "error", "done", "ack", "nack"}
    PROVE  /\ Resolve(ps, v) \in [Promises -> {"none", "ok", "error", "done", "ack", "nack"}]
           /\ \A p \in Promises : Resolve(ps, v)[p] =
                 IF p \in ps /\ outcome[p] = "none" THEN v ELSE outcome[p]
  BY DEF TypeOK, Resolve

\* Posting keeps the types: the new promise is one of the thread's own.
LEMMA PostTypes ==
    ASSUME TypeOK, NEW c \in Callers, NEW kind \in {"publish", "flush", "close", "connect"},
           NEW ack \in BOOLEAN, Post(c, kind, ack)
    PROVE  TypeOK'
<1> DEFINE t == [kind |-> kind, p |-> <<c, calls[c] + 1>>, ack |-> ack]
<1>1. /\ calls[c] < MaxCalls[c] /\ queue' = Append(queue, t) /\ cur' = [cur EXCEPT ![c] = t]
      /\ calls' = [calls EXCEPT ![c] = calls[c] + 1] /\ pc' = [pc EXCEPT ![c] = "posted"]
      /\ UNCHANGED <<pipe, batch, io, stop, link, attaches, inserted, outcome, answer, tags>>
  BY DEF Post, ioVars
<1>2. calls[c] \in Nat /\ MaxCalls[c] \in Nat
  BY BoundsAssumption DEF TypeOK
<1>3. <<c, calls[c] + 1>> \in Promises
  BY <1>1, <1>2, PromiseFacts
<1>4. t \in Task
  BY <1>3 DEF Task
<1> HIDE DEF t
<1>5. queue' \in Seq(Task)
  BY <1>1, <1>4, PushFacts DEF TypeOK
<1>6. /\ cur' \in [Callers -> Task] /\ calls' \in [Callers -> Nat]
      /\ pc' \in [Callers -> {"idle", "posted", "waiting", "started", "shutdown", "stopping", "join"}]
  BY <1>1, <1>2, <1>4 DEF TypeOK
<1> QED  BY <1>1, <1>5, <1>6 DEF TypeOK, link, tags

\* The steps of the callers keep the types.
LEMMA CallerTypes ==
    ASSUME TypeOK,
           \/ Attach \/ Detach \/ OwnerStep
           \/ \E c \in Callers : CallerStep(c) \/ Flush(c) \/ (\E ack \in BOOLEAN : Dispatch(c, ack))
    PROVE  TypeOK'
<1>0. Owner \in Callers
  BY DEF Callers
<1>1. CASE Attach
  <2>1. attaches' \in Nat
    BY <1>1 DEF Attach, TypeOK
  <2>4. stop' \in BOOLEAN
    BY <1>1 DEF Attach
  <2>2. pc' \in [Callers -> {"idle", "posted", "waiting", "started", "shutdown", "stopping", "join"}]
    BY <1>1, <1>0 DEF Attach, TypeOK
  <2>3. /\ io' = "top"
        /\ UNCHANGED <<queue, batch, pipe, link, cur, calls, inserted, outcome, answer, tags>>
    BY <1>1 DEF Attach
  <2> QED  BY <2>1, <2>2, <2>3, <2>4 DEF TypeOK, link, tags
<1>2. CASE Connect
  BY <1>2, <1>0, PostTypes DEF Connect
<1>3. CASE AttachReturn
  BY <1>3, <1>0 DEF AttachReturn, TypeOK, vars, ioVars, link, callVars, tags
<1>4. CASE AttachFail \/ Detach
  BY <1>4, <1>0 DEF AttachFail, Detach, Goto, TypeOK, vars, ioVars, link, callVars, tags
<1>5. CASE PostClose
  BY <1>5, <1>0, PostTypes DEF PostClose
<1>6. CASE RequestStop
  BY <1>6, <1>0 DEF RequestStop, TypeOK, vars, ioVars, link, callVars, tags
<1>7. CASE WakeToStop
  BY <1>7, <1>0 DEF WakeToStop, TypeOK, vars, ioVars, link, callVars, tags
<1>8. CASE Join
  BY <1>8, <1>0, NilFacts DEF Join, TypeOK, vars, ioVars, link, callVars, tags
<1>9. ASSUME NEW c \in Callers, Wake(c)  PROVE TypeOK'
  BY <1>9 DEF Wake, TypeOK, vars, ioVars, link, callVars, tags
<1>10. ASSUME NEW c \in Callers, DispatchReturn(c) \/ FlushReturn(c)  PROVE TypeOK'
  BY <1>10 DEF DispatchReturn, FlushReturn, Goto, TypeOK, vars, ioVars, link, callVars, tags
<1>11. ASSUME NEW c \in Callers, NEW ack \in BOOLEAN, Flush(c) \/ Dispatch(c, ack)  PROVE TypeOK'
  BY <1>11, PostTypes DEF Flush, Dispatch
<1> QED  BY <1>1, <1>2, <1>3, <1>4, <1>5, <1>6, <1>7, <1>8, <1>9, <1>10, <1>11
            DEF OwnerStep, CallerStep

\* The steps of the IO thread keep the types.
LEMMA IoTypes ==
    ASSUME TypeOK, IoStep
    PROVE  TypeOK'
<1>0. ASSUME batch # <<>>
      PROVE  Head(batch) \in Task /\ Tail(batch) \in Seq(Task) /\ Head(batch).p \in Promises
  <2>1. batch \in Seq(Task)
    BY DEF TypeOK
  <2>2. Head(batch) \in Task /\ Tail(batch) \in Seq(Task)
    BY <1>0, <2>1, HeadFacts
  <2> QED  BY <2>2 DEF Task
<1>1. CASE IoSwap
  BY <1>1, NilFacts DEF IoSwap, TypeOK, vars, ioVars, link, callVars, tags
<1>2. CASE IoExit \/ IoTasksDone \/ HandlerEnd
  BY <1>2 DEF IoExit, IoTasksDone, HandlerEnd, IoGoto, TypeOK, vars, ioVars, link, callVars, tags
<1>3. CASE IoWoken
  BY <1>3 DEF IoWoken, TypeOK, vars, ioVars, link, callVars, tags
<1>4. CASE RunFlush
  BY <1>4, <1>0, ResolveFacts
     DEF RunFlush, Running, TaskDone, TypeOK, vars, ioVars, link, callVars, tags
<1>5. CASE RunClose
  BY <1>5, <1>0, ResolveFacts
     DEF RunClose, Running, Closed, TaskDone, TypeOK, vars, ioVars, link, callVars, tags
<1>6. CASE RunConnect
  BY <1>6, <1>0, NilFacts
     DEF RunConnect, Running, TaskDone, NextStage, TypeOK, vars, ioVars, link, callVars, tags
<1>7. CASE RunConnectThrow
  BY <1>7, <1>0, ResolveFacts
     DEF RunConnectThrow, Running, TaskDone, TypeOK, vars, ioVars, link, callVars, tags
<1>8. CASE RunPublish
  <2>1. /\ batch # <<>> /\ wire' = Append(wire, Head(batch)) /\ wire \in Seq(Task)
    BY <1>8 DEF RunPublish, Running, TypeOK
  <2>2. wire' \in Seq(Task) /\ Len(wire') = Len(wire) + 1 /\ Len(wire) \in Nat
    BY <2>1, <1>0
  <2>7. unanswered \subseteq 1..Len(wire)
    BY DEF TypeOK
  <2>8. unanswered' = unanswered \cup {Len(wire) + 1}
    BY <1>8 DEF RunPublish
  <2>3. unanswered' \subseteq 1..Len(wire')
    <3> SUFFICES ASSUME NEW i \in unanswered'  PROVE i \in 1..(Len(wire) + 1)
      BY <2>2
    <3>1. i \in 1..Len(wire) \/ i = Len(wire) + 1
      BY <2>7, <2>8
    <3> QED  BY <3>1, <2>2
  <2>4. next_tag' \in Nat \ {0} /\ next_tag \in Nat
    BY <1>8 DEF RunPublish, TypeOK
  <2>5. pending' \subseteq [tag : Nat, p : Promises]
    BY <1>8, <1>0, <2>1, <2>4 DEF RunPublish, Awaited, TypeOK
  <2>6. /\ batch' \in Seq(Task)
        /\ UNCHANGED <<queue, pipe, io, stop, callVars, conn, stage, shared_p, error_seen, outcome,
                       answer, tags>>
    BY <1>8, <1>0, <2>1 DEF RunPublish, TaskDone
  <2> QED  BY <2>2, <2>3, <2>4, <2>5, <2>6 DEF TypeOK, callVars, tags
<1>9. CASE RunPublishRefused
  BY <1>9, <1>0, ResolveFacts
     DEF RunPublishRefused, Running, TaskDone, TypeOK, vars, ioVars, link, callVars, tags
<1>10. CASE RunPublishNowhere
  BY <1>10, <1>0, ResolveFacts
     DEF RunPublishNowhere, Running, TaskDone, TypeOK, vars, ioVars, link, callVars, tags
<1>11. CASE RunDangling
  BY <1>11, <1>0
     DEF RunDangling, Running, Closed, TypeOK, vars, ioVars, link, callVars, tags
<1>12. CASE RunPublishThrow
  <2>1. batch # <<>> /\ next_tag \in Nat /\ next_tag' \in Nat \ {0}
    BY <1>12 DEF RunPublishThrow, Running, TypeOK
  <2>2. pending' \subseteq [tag : Nat, p : Promises] /\ strays' \subseteq Promises
    BY <1>12, <1>0, <2>1 DEF RunPublishThrow, Awaited, TypeOK
  <2>3. outcome' \in [Promises -> {"none", "ok", "error", "done", "ack", "nack"}]
    BY <1>12, <1>0, <2>1, ResolveFacts DEF RunPublishThrow, TypeOK
  <2>4. /\ batch' \in Seq(Task)
        /\ UNCHANGED <<queue, pipe, io, stop, callVars, conn, stage, shared_p, error_seen, wire,
                       unanswered, answer, base>>
    BY <1>12, <1>0, <2>1 DEF RunPublishThrow, TaskDone
  <2> QED  BY <2>1, <2>2, <2>3, <2>4 DEF TypeOK, callVars
<1> QED  BY <1>1, <1>2, <1>3, <1>4, <1>5, <1>6, <1>7, <1>8, <1>9, <1>10, <1>11, <1>12 DEF IoStep

\* What the broker sends, and what poll() reports, keep the types.
LEMMA EnvironmentTypes ==
    ASSUME TypeOK, Environment
    PROVE  TypeOK'
<1>1. CASE IoPollTimeout \/ IoPollError
  BY <1>1 DEF IoPollTimeout, IoPollError, IoGoto, TypeOK, vars, ioVars, link, callVars, tags
<1>2. CASE SetupReply
  <2>1. stage' \in {"none", "ready"} \cup DOMAIN NextStage
    BY <1>2 DEF SetupReply, NextStage
  <2>2. outcome' \in [Promises -> {"none", "ok", "error", "done", "ack", "nack"}]
    BY <1>2, ResolveFacts DEF SetupReply, TypeOK
  <2>3. /\ io' = "top" /\ pipe' = FALSE
        /\ UNCHANGED <<queue, batch, stop, conn, shared_p, error_seen, next_tag, pending, wire,
                       unanswered, callVars, answer, tags>>
    BY <1>2 DEF SetupReply, Readable
  <2> QED  BY <2>1, <2>2, <2>3 DEF TypeOK, callVars, tags
<1>3. CASE ChannelError
  BY <1>3, ResolveFacts DEF ChannelError, Readable, TypeOK, vars, ioVars, link, callVars, tags
<1>4. CASE OnError
  BY <1>4 DEF OnError, Readable, TypeOK, vars, ioVars, link, callVars, tags
<1>5. CASE Deliver
  BY <1>5 DEF Deliver, Readable, TypeOK, vars, ioVars, link, callVars, tags
<1>6. ASSUME NEW tag \in unanswered, NEW multiple \in BOOLEAN, NEW v \in {"ack", "nack"},
             Confirm(tag, multiple, v)
      PROVE  TypeOK'
  BY <1>6, ResolveFacts
     DEF Confirm, ResolveConfirm, Settled, Readable, TypeOK, vars, ioVars, link, callVars, tags
<1> QED  BY <1>1, <1>2, <1>3, <1>4, <1>5, <1>6 DEF Environment

-----------------------------------------------------------------------------
(* The steps *)

\* Every step keeps the types.
LEMMA TypesStep == TypeOK /\ [Next]_vars => TypeOK'
<1>1. CASE UNCHANGED vars
  BY <1>1 DEF TypeOK, vars, ioVars, link, callVars, tags
<1> QED  BY <1>1, CallerTypes, IoTypes, EnvironmentTypes DEF Next

\* The steps of the callers, of attach() and of detach() preserve the invariant.
LEMMA CallersKeep ==
    ASSUME IndInv, TypeOK',
           \/ Attach \/ Detach \/ OwnerStep
           \/ \E c \in Callers : CallerStep(c) \/ Flush(c) \/ (\E ack \in BOOLEAN : Dispatch(c, ack))
    PROVE  IndInv'
<1>0. Owner \in Callers /\ pc \in [Callers -> {"idle", "posted", "waiting", "started", "shutdown", "stopping", "join"}]
      /\ Wakeups
  BY DEF Callers, IndInv, TypeOK
<1>1. CASE Attach
  BY <1>1, <1>0, QuietStep DEF Attach, Wakeups, link, tags, IndInv, Waiters, Numbered
<1>2. CASE Connect
  BY <1>2, <1>0, PostStep DEF Connect
<1>3. CASE AttachReturn
  BY <1>3, <1>0, QuietStep
     DEF AttachReturn, Waiting, Wakeups, link, tags, ioVars, IndInv, Waiters, Numbered
<1>4. CASE AttachFail \/ Detach
  BY <1>4, <1>0, QuietStep
     DEF AttachFail, Detach, Goto, Waiting, Wakeups, link, tags, ioVars, IndInv, Waiters, Numbered
<1>5. CASE PostClose
  BY <1>5, <1>0, PostStep DEF PostClose
<1>6. CASE RequestStop
  BY <1>6, <1>0, QuietStep
     DEF RequestStop, Waiting, Wakeups, link, tags, ioVars, IndInv, Waiters, Numbered
<1>7. CASE WakeToStop
  BY <1>7, <1>0, QuietStep DEF WakeToStop, Wakeups, link, tags, ioVars, IndInv, Waiters, Numbered
<1>8. CASE Join
  BY <1>8, <1>0, QuietStep DEF Join, Wakeups, tags, IndInv, Waiters, Numbered
<1>9. ASSUME NEW c \in Callers, Wake(c)  PROVE IndInv'
  BY <1>9, <1>0, QuietStep DEF Wake, Wakeups, link, tags, ioVars, IndInv, Waiters, Numbered
<1>10. ASSUME NEW c \in Callers, DispatchReturn(c) \/ FlushReturn(c)  PROVE IndInv'
  BY <1>10, <1>0, QuietStep DEF DispatchReturn, FlushReturn, Goto, Waiting, Wakeups, link, tags, ioVars,
     IndInv, Waiters, Numbered
<1>11. ASSUME NEW c \in Callers, NEW ack \in BOOLEAN, Flush(c) \/ Dispatch(c, ack)  PROVE IndInv'
  BY <1>11, <1>0, PostStep DEF Flush, Dispatch, CanCall
<1> QED  BY <1>1, <1>2, <1>3, <1>4, <1>5, <1>6, <1>7, <1>8, <1>9, <1>10, <1>11
            DEF OwnerStep, CallerStep

\* The steps of the IO thread preserve the invariant.
LEMMA IoKeeps ==
    ASSUME IndInv, TypeOK', IoStep
    PROVE  IndInv'
<1>0. /\ Wakeups /\ TypeOK /\ (conn = "failed" => \A e \in pending : e.p \in strays)
      /\ (io \notin {"tasks", "undefined"} => batch = <<>>)
      /\ \A c \in Callers : /\ pc[c] = "waiting" /\ cur[c].kind = "publish" => cur[c].ack
                            /\ pc[c] = "posted" => cur[c].kind # "none"
  BY DEF IndInv, Waiters, Numbered, InOrder
<1>1. ASSUME io = "tasks", batch # <<>>  PROVE Head(batch) \in Task /\ Head(batch).p \in Promises
  <2>1. batch \in Seq(Task)
    BY <1>0 DEF TypeOK
  <2>2. Head(batch) \in Task
    BY <1>1, <2>1, HeadFacts
  <2> QED  BY <2>2 DEF Task
<1>2. CASE IoSwap
  BY <1>2, SwapStep
<1>3. CASE IoExit \/ IoTasksDone \/ HandlerEnd
  <2>1. Wakeups'
    BY <1>0, <1>3 DEF IoExit, IoTasksDone, HandlerEnd, IoGoto, Wakeups, callVars
  <2> QED  BY <2>1, <1>0, <1>3, QuietStep
              DEF IoExit, IoTasksDone, HandlerEnd, IoGoto, link, callVars, tags
<1>4. CASE IoWoken
  <2>1. Wakeups'
    BY <1>0, <1>4 DEF IoWoken, Wakeups
  <2> QED  BY <2>1, <1>0, <1>4, QuietStep DEF IoWoken, link, callVars, tags
<1>5. ASSUME io = "tasks", batch # <<>>, TaskDone
      PROVE  batch' = Tail(batch) /\ io' = "tasks" /\ UNCHANGED <<queue, pipe, stop, pc, cur, calls>>
  BY <1>5 DEF TaskDone, callVars
<1>6. CASE RunFlush \/ RunClose
  <2>1. /\ io = "tasks" /\ batch # <<>> /\ TaskDone /\ Head(batch).kind # "publish"
        /\ UNCHANGED <<shared_p, pending, strays>> /\ (conn' = "failed" => conn = "failed")
        /\ outcome' = Resolve({Head(batch).p}, "done")
    BY <1>6 DEF RunFlush, RunClose, Running, Closed, link, tags
  <2>2. \A p \in Promises : p # Head(batch).p => outcome'[p] = outcome[p]
    BY <2>1, <1>0, ResolveFacts
  <2> QED  BY <2>1, <2>2, <1>0, <1>5, RunStep
<1>7. CASE RunDangling
  <2>1. /\ io = "tasks" /\ batch # <<>> /\ Head(batch).kind # "publish"
        /\ batch' = Tail(batch) /\ io' \in {"tasks", "undefined"}
        /\ UNCHANGED <<queue, pipe, stop, pc, cur, calls>>
        /\ UNCHANGED <<shared_p, pending, strays, outcome>> /\ (conn' = "failed" => conn = "failed")
    BY <1>7 DEF RunDangling, Running, Closed, callVars, tags
  <2> QED  BY <2>1, <1>0, RunStep
<1>8. CASE RunConnect
  <2>1. /\ io = "tasks" /\ batch # <<>> /\ TaskDone /\ Head(batch).kind = "connect"
        /\ UNCHANGED <<outcome, pending>> /\ shared_p' = {Head(batch).p} /\ conn' = "open"
    BY <1>8 DEF RunConnect, Running
  <2> QED  BY <2>1, <1>5, RunStep
<1>9. CASE RunConnectThrow
  <2>1. /\ io = "tasks" /\ batch # <<>> /\ TaskDone /\ Head(batch).kind = "connect"
        /\ UNCHANGED <<shared_p, pending, conn, strays>> /\ outcome' = Resolve({Head(batch).p}, "error")
    BY <1>9 DEF RunConnectThrow, Running, link, tags
  <2>2. \A p \in Promises : p # Head(batch).p => outcome'[p] = outcome[p]
    BY <2>1, <1>0, ResolveFacts
  <2> QED  BY <2>1, <2>2, <1>0, <1>5, RunStep
<1>10. ASSUME Running("publish"), TaskDone, shared_p' = shared_p, pending' = Awaited, outcome' = outcome,
              conn' = "failed" => \A e \in pending' : e.p \in strays'
       PROVE  IndInv'
  <2>1. /\ io = "tasks" /\ batch # <<>>
        /\ pending' = IF Head(batch).ack THEN pending \cup {[tag |-> next_tag, p |-> Head(batch).p]}
                      ELSE pending
    BY <1>10 DEF Awaited, Running
  <2>2. ASSUME Head(batch).ack  PROVE \E e \in pending' : e.p = Head(batch).p
    <3> DEFINE e == [tag |-> next_tag, p |-> Head(batch).p]
    <3>1. e \in pending' /\ e.p = Head(batch).p
      BY <2>1, <2>2
    <3> QED  BY <3>1
  <2>3. \/ pending' = pending
        \/ /\ pending' = pending \cup {[tag |-> next_tag, p |-> Head(batch).p]}
           /\ outcome' = outcome
    BY <2>1, <1>10
  <2> QED  BY <1>10, <2>1, <2>2, <2>3, <1>5, RunStep
<1>11. CASE RunPublish
  BY <1>11, <1>10 DEF RunPublish
<1>12. ASSUME Running("publish"), TaskDone, UNCHANGED <<conn, shared_p, pending>>,
              strays \subseteq strays',
              outcome' = IF Head(batch).ack THEN Resolve({Head(batch).p}, "nack") ELSE outcome
       PROVE  IndInv'
  <2>1. io = "tasks" /\ batch # <<>>
    BY <1>12 DEF Running
  <2>2. /\ \A p \in Promises : p # Head(batch).p => outcome'[p] = outcome[p]
        /\ Head(batch).ack => outcome'[Head(batch).p] # "none"
    BY <2>1, <1>0, <1>1, <1>12, ResolveFacts
  <2> QED  BY <2>1, <2>2, <1>0, <1>5, <1>12, RunStep
<1>13. CASE RunPublishRefused \/ RunPublishNowhere
  BY <1>12, <1>13 DEF RunPublishRefused, RunPublishNowhere, link, tags
<1>14. CASE RunPublishThrow
  <2>1. /\ Running("publish") /\ TaskDone /\ UNCHANGED <<conn, shared_p>>
        /\ strays' = strays \cup {Head(batch).p}
        /\ \/ Head(batch).ack /\ outcome' = Resolve({Head(batch).p}, "nack") /\ pending' = pending
           \/ pending' = Awaited /\ outcome' = outcome
    BY <1>14 DEF RunPublishThrow
  <2>2. CASE Head(batch).ack /\ outcome' = Resolve({Head(batch).p}, "nack") /\ pending' = pending
    BY <2>1, <2>2, <1>12
  <2>3. CASE pending' = Awaited /\ outcome' = outcome
    <3>1. conn' = "failed" => \A e \in pending' : e.p \in strays'
      BY <2>1, <2>3, <1>0 DEF Awaited
    <3> QED  BY <2>1, <2>3, <3>1, <1>10
  <2> QED  BY <2>1, <2>2, <2>3
<1> QED  BY <1>2, <1>3, <1>4, <1>6, <1>7, <1>8, <1>9, <1>11, <1>13, <1>14 DEF IoStep

\* What the broker sends, and what poll() reports, preserve the invariant.
LEMMA EnvironmentKeeps ==
    ASSUME IndInv, TypeOK', Environment
    PROVE  IndInv'
<1>0. /\ Wakeups /\ TypeOK /\ (conn = "failed" => \A e \in pending : e.p \in strays)
      /\ (io \notin {"tasks", "undefined"} => batch = <<>>)
      /\ \A c \in Callers : /\ pc[c] = "waiting" /\ cur[c].kind = "publish" => cur[c].ack
                            /\ pc[c] = "posted" => cur[c].kind # "none"
      /\ pending \subseteq [tag : Nat, p : Promises]
  BY DEF IndInv, Waiters, Numbered, InOrder, TypeOK
<1>1. CASE IoPollTimeout \/ IoPollError
  <2>1. Wakeups'
    BY <1>1 DEF IoPollTimeout, IoPollError, IoGoto, Wakeups
  <2> QED  BY <2>1, <1>0, <1>1, QuietStep DEF IoPollTimeout, IoPollError, IoGoto, link, callVars, tags
<1>2. CASE SetupReply \/ ChannelError
  <2>1. /\ io' = "top" /\ io = "poll" /\ conn' # "failed"
        /\ UNCHANGED <<queue, batch, shared_p, pending, callVars>>
        /\ \/ outcome' = outcome \/ outcome' = Resolve(shared_p, "ok")
           \/ outcome' = Resolve(shared_p, "error")
    BY <1>2 DEF SetupReply, ChannelError, Readable
  <2>2. \A p \in Promises : outcome'[p] = outcome[p] \/ (outcome[p] = "none" /\ p \in shared_p)
    BY <2>1, <1>0, ResolveFacts
  <2>3. Wakeups'
    BY <2>1 DEF Wakeups
  <2> QED  BY <2>1, <2>2, <2>3, <1>0, QuietStep DEF callVars
<1>3. CASE OnError
  <2>1. /\ io' = "top" /\ io = "poll"
        /\ UNCHANGED <<queue, batch, shared_p, callVars>> /\ pending' = {}
    BY <1>3 DEF OnError, Readable
  <2>2. /\ \A p \in Promises : \/ outcome'[p] = outcome[p]
                               \/ outcome[p] = "none" /\ p \in shared_p
                               \/ outcome[p] = "none" /\ \E e \in pending : e.p = p
        /\ \A p \in Promises : (\E e \in pending : e.p = p) => outcome'[p] # "none"
    <3>1. PICK told \in {{}, shared_p} :
              outcome' = [p \in Promises |->
                             IF outcome[p] # "none" THEN outcome[p]
                             ELSE IF \E e \in pending : e.p = p THEN "nack"
                             ELSE IF p \in told THEN "error" ELSE "none"]
      BY <1>3 DEF OnError
    <3> QED  BY <3>1
  <2>3. Wakeups'
    BY <2>1 DEF Wakeups
  <2>4. \A e \in pending : e.p \in Promises
    BY <1>0
  <2> QED  BY <2>1, <2>2, <2>3, <2>4, <1>0, QuietStep DEF callVars
<1>4. CASE Deliver
  <2>1. Wakeups'
    BY <1>4 DEF Deliver, Wakeups
  <2> QED  BY <2>1, <1>0, <1>4, QuietStep DEF Deliver, Readable, link, callVars, tags
<1>5. ASSUME NEW tag \in unanswered, NEW multiple \in BOOLEAN, NEW v \in {"ack", "nack"},
             Confirm(tag, multiple, v)
      PROVE  IndInv'
  <2> DEFINE hit == ResolveConfirm(tag, multiple)
  <2>1. /\ io' = "top" /\ io = "poll" /\ conn = "open"
        /\ UNCHANGED <<queue, batch, shared_p, callVars, conn>>
        /\ pending' = pending \ hit /\ outcome' = Resolve({e.p : e \in hit}, v)
    BY <1>5 DEF Confirm, Readable
  <2>2. hit \subseteq pending
    BY DEF ResolveConfirm
  <2> HIDE DEF hit
  <2>3. /\ \A p \in Promises : \/ outcome'[p] = outcome[p]
                               \/ outcome[p] = "none" /\ \E e \in pending \ pending' : e.p = p
        /\ \A e \in pending \ pending' : outcome'[e.p] # "none"
    <3>1. \A p \in Promises : outcome'[p] =
              IF p \in {e.p : e \in hit} /\ outcome[p] = "none" THEN v ELSE outcome[p]
      BY <2>1, <1>0, ResolveFacts
    <3>2. pending \ pending' = hit /\ \A e \in hit : e.p \in Promises
      BY <2>1, <2>2, <1>0
    <3> QED  BY <3>1, <3>2
  <2>4. Wakeups'
    BY <2>1 DEF Wakeups
  <2> QED  BY <2>1, <2>3, <2>4, <1>0, QuietStep DEF callVars
<1> QED  BY <1>1, <1>2, <1>3, <1>4, <1>5 DEF Environment

\* Every step preserves the invariant.
LEMMA NextStep == IndInv /\ [Next]_vars => IndInv'
<1> SUFFICES ASSUME IndInv, [Next]_vars  PROVE IndInv'
  OBVIOUS
<1>1. TypeOK'
  BY TypesStep DEF IndInv
<1>2. CASE UNCHANGED vars
  <2>1. /\ UNCHANGED <<queue, batch, cur, calls, io, shared_p, pc, pending, conn, outcome, pipe,
                       stop, strays>>
    BY <1>2 DEF vars, ioVars, link, callVars, tags
  <2>2. Wakeups'
    BY <2>1 DEF IndInv, Wakeups
  <2> QED  BY <1>1, <2>1, <2>2, QuietStep DEF IndInv, Waiters, Numbered
<1> QED  BY <1>1, <1>2, CallersKeep, IoKeeps, EnvironmentKeeps DEF Next

\* The inductive invariant holds throughout every behaviour, whatever may happen.
THEOREM Invariance == Spec => []IndInv
  BY InitInv, NextStep, PTL DEF Spec

\* Every variable of the transport keeps its declared type.
THEOREM TypeCorrect == Spec => []TypeOK
  BY Invariance, PTL DEF IndInv

\* post() and request_stop() write their byte after the fact, io_loop() empties
\* the pipe after poll() and before it looks at the queue: no wakeup is lost.
THEOREM WakeupsArrive == Spec => []NoLostWakeup
<1>1. IndInv => NoLostWakeup
  BY DEF IndInv, Wakeups, NoLostWakeup
<1> QED  BY <1>1, Invariance, PTL

\* onError() releases every dispatch() whose message it takes down with it.
THEOREM ErrorsReleaseWaiters == Spec => []ErrorReleasesWaiters
<1>1. IndInv => ErrorReleasesWaiters
  <2> SUFFICES ASSUME IndInv, conn = "failed", NEW c \in Callers, Waiting(c, "publish"), ~Ready(c),
                      cur[c].p \notin strays
               PROVE  Queued(cur[c].p)
    BY DEF ErrorReleasesWaiters
  <2>1. /\ pc[c] = "waiting" /\ cur[c].kind = "publish" /\ cur[c].ack
        /\ \A e \in pending : e.p \in strays
    BY DEF IndInv, Numbered, Waiters, Waiting
  <2>2. cur[c] \in InFlight
    BY <2>1 DEF IndInv, Waiters, Ready
  <2> QED  BY <2>2, FlightFacts DEF IndInv
<1> QED  BY <1>1, Invariance, PTL

-----------------------------------------------------------------------------
(* flush() *)

\* Once the task of its caller's flush() has run, no earlier one is in flight.
LEMMA FlushedFacts ==
    ASSUME IndInv, NEW c \in Callers, Ready(c)
    PROVE  \A n \in 1..MaxCalls[c] : ~Queued(<<c, n>>)
<1> SUFFICES ASSUME NEW t \in InFlight, t.p[1] = c  PROVE FALSE
  BY FlightFacts DEF IndInv
<1>1. cur[c] \in InFlight
  BY DEF IndInv, InOrder
<1> QED  BY <1>1 DEF IndInv, Fresh, Ready

\* flush() posts behind the publishes of its thread and waits for its own task:
\* once that is answered, they have all been handed on.
THEOREM FlushIsBarrier == Spec => FlushCovers
<1>1. IndInv =>
          [\A c \in Users : Waiting(c, "flush") /\ Ready(c) /\ pc'[c] = "idle"
              => \A n \in 1..MaxCalls[c] : ~Queued(<<c, n>>)]_vars
  BY FlushedFacts DEF Callers
<1> QED  BY <1>1, Invariance, PTL DEF FlushCovers

-----------------------------------------------------------------------------
(* Confirms *)

\* A promise is resolved once; only a confirm says "ack", or is on record.
LEMMA ResolvedFacts ==
    ASSUME TypeOK, [Next]_vars
    PROVE  \/ /\ answer' = answer
              /\ \A p \in Promises : \/ outcome'[p] = outcome[p]
                                     \/ outcome[p] = "none" /\ outcome'[p] # "ack"
           \/ \E tag \in unanswered, multiple \in BOOLEAN, v \in {"ack", "nack"} :
                  Confirm(tag, multiple, v)
<1> DEFINE Kept == /\ answer' = answer
                   /\ \A p \in Promises : \/ outcome'[p] = outcome[p]
                                          \/ outcome[p] = "none" /\ outcome'[p] # "ack"
<1>0. ASSUME NEW ps, NEW v \in {"ok", "error", "done", "nack"}, NEW p \in Promises
      PROVE  Resolve(ps, v)[p] = outcome[p] \/ (outcome[p] = "none" /\ Resolve(ps, v)[p] # "ack")
  BY ResolveFacts
<1>1. CASE UNCHANGED vars
  BY <1>1 DEF vars
<1>2. CASE Attach \/ Detach \/ OwnerStep
  BY <1>2 DEF Attach, Detach, OwnerStep, Connect, AttachReturn, AttachFail, PostClose, RequestStop,
              WakeToStop, Join, Post, Goto
<1>3. CASE \E c \in Callers : CallerStep(c) \/ Flush(c) \/ (\E ack \in BOOLEAN : Dispatch(c, ack))
  BY <1>3 DEF CallerStep, Wake, DispatchReturn, FlushReturn, Flush, Dispatch, Post, Goto
<1>4. CASE IoStep
  <2>1. CASE IoSwap \/ IoExit \/ IoTasksDone \/ IoWoken \/ RunConnect \/ RunPublish \/ HandlerEnd
               \/ RunDangling
    BY <2>1 DEF IoSwap, IoExit, IoTasksDone, IoWoken, RunConnect, RunPublish, HandlerEnd, IoGoto,
       RunDangling
  <2>2. CASE RunFlush \/ RunClose
    BY <2>2, <1>0 DEF RunFlush, RunClose
  <2>3. CASE RunPublishRefused \/ RunPublishNowhere \/ RunPublishThrow \/ RunConnectThrow
    BY <2>3, <1>0 DEF RunPublishRefused, RunPublishNowhere, RunPublishThrow, RunConnectThrow
  <2> QED  BY <1>4, <2>1, <2>2, <2>3 DEF IoStep
<1>5. CASE IoPollTimeout \/ IoPollError \/ Deliver
  BY <1>5 DEF IoPollTimeout, IoPollError, Deliver, IoGoto
<1>6. CASE SetupReply \/ ChannelError
  BY <1>6, <1>0 DEF SetupReply, ChannelError
<1>7. CASE OnError
  <2>1. PICK told \in {{}, shared_p} :
            outcome' = [p \in Promises |->
                           IF outcome[p] # "none" THEN outcome[p]
                           ELSE IF \E e \in pending : e.p = p THEN "nack"
                           ELSE IF p \in told THEN "error" ELSE "none"]
    BY <1>7 DEF OnError
  <2>2. answer' = answer
    BY <1>7 DEF OnError
  <2> QED  BY <2>1, <2>2
<1> QED  BY <1>1, <1>2, <1>3, <1>4, <1>5, <1>6, <1>7 DEF Next, Environment

\* A confirm settles exactly the awaited confirms of the messages it covers.
LEMMA ConfirmFacts ==
    ASSUME IndInv, Tagged, InStep, NEW tag \in unanswered, NEW multiple \in BOOLEAN, NEW v \in {"ack", "nack"},
           Confirm(tag, multiple, v)
    PROVE  /\ Tagged'
           /\ \A p \in Promises : \/ outcome'[p] = v /\ answer'[p] = v
                                  \/ outcome'[p] = outcome[p] /\ answer'[p] = answer[p]
<1> DEFINE hit == ResolveConfirm(tag, multiple)
           gone == Settled(unanswered, tag, multiple)
           said == {wire[i].p : i \in {j \in gone : wire[j].ack}}
<1>1. /\ conn = "open" /\ UNCHANGED <<conn, next_tag, wire, tags>> /\ pending' = pending \ hit
      /\ outcome' = Resolve({e.p : e \in hit}, v)
      /\ answer' = [p \in Promises |-> IF p \in said THEN v ELSE answer[p]]
      /\ unanswered' = unanswered \ gone
  BY DEF Confirm, Readable
<1>2. \A e \in pending : e \in hit <=> e.tag \in gone
  BY <1>1 DEF ResolveConfirm, Settled, Tagged
<1>3. hit \subseteq pending /\ gone \subseteq unanswered
  BY DEF ResolveConfirm, Settled
<1> HIDE DEF hit, gone
<1>4. /\ next_tag = Len(wire) + 1
      /\ \A e \in pending : e.tag \in unanswered /\ wire[e.tag].p = e.p /\ wire[e.tag].ack
      /\ \A i \in unanswered : wire[i].ack => [tag |-> i, p |-> wire[i].p] \in pending
  BY <1>1 DEF Tagged
<1>5. Tagged'
  <2>1. ASSUME NEW e \in pending'
        PROVE  e.tag \in unanswered' /\ wire[e.tag].p = e.p /\ wire[e.tag].ack
    BY <1>1, <1>2, <1>4
  <2>2. ASSUME NEW i \in unanswered', wire[i].ack  PROVE [tag |-> i, p |-> wire[i].p] \in pending'
    <3> DEFINE e == [tag |-> i, p |-> wire[i].p]
    <3>1. e \in pending /\ e.tag = i /\ i \notin gone
      BY <1>1, <1>4, <2>2
    <3>2. e \notin hit
      BY <3>1, <1>2
    <3> QED  BY <3>1, <3>2, <1>1
  <2> QED  BY <2>1, <2>2, <1>1, <1>4 DEF Tagged
<1>6. ASSUME NEW e \in hit  PROVE e.p \in said
  BY <1>2, <1>3, <1>4
<1>7. ASSUME NEW p \in said  PROVE \E e \in hit : e.p = p
  <2>1. PICK i \in gone : wire[i].ack /\ p = wire[i].p
    OBVIOUS
  <2> DEFINE e == [tag |-> i, p |-> wire[i].p]
  <2>2. e \in pending /\ e.tag = i /\ e.p = p
    BY <2>1, <1>3, <1>4
  <2>3. e \in hit
    BY <2>1, <2>2, <1>2
  <2> QED  BY <2>2, <2>3
<1> HIDE DEF said
<1>8. \A e \in hit : outcome[e.p] = "none"
  BY <1>3 DEF IndInv, Fresh
<1>9. \A p \in Promises : outcome'[p] =
          IF p \in {e.p : e \in hit} /\ outcome[p] = "none" THEN v ELSE outcome[p]
  BY <1>1, ResolveFacts DEF IndInv
<1>10. \A p \in Promises : p \in {e.p : e \in hit} <=> p \in said
  BY <1>6, <1>7
<1>11. \A p \in Promises : p \in said => outcome[p] = "none"
  BY <1>7, <1>8
<1>12. \A p \in Promises : answer'[p] = IF p \in said THEN v ELSE answer[p]
  BY <1>1
<1> QED  BY <1>5, <1>9, <1>10, <1>11, <1>12

\* Publishing keeps the tags in step with the channel's own count.
LEMMA TagsStay ==
    ASSUME IndInv, FirstTag, Tagged, [Next]_vars
    PROVE  FirstTag' /\ Tagged'
<1>0. next_tag \in Nat /\ base \in Nat /\ next_tag >= 1 /\ base >= 1
  BY DEF IndInv, TypeOK
<1>1. ASSUME UNCHANGED <<next_tag, pending, wire, unanswered, base, strays>>,
             conn' = "open" => conn = "open"
      PROVE  FirstTag' /\ Tagged'
  BY <1>1 DEF FirstTag, Tagged, InStep
<1>2. CASE UNCHANGED vars
  BY <1>1, <1>2 DEF vars, link, tags
<1>3. CASE Attach \/ Detach \/ Connect \/ AttachReturn \/ AttachFail \/ PostClose \/ RequestStop
           \/ WakeToStop
  BY <1>1, <1>3 DEF Attach, Detach, Connect, AttachReturn, AttachFail, PostClose, RequestStop,
                    WakeToStop, Post, Goto, link, tags
<1>4. CASE Join
  BY <1>4 DEF Join, FirstTag, Tagged, tags
<1>5. CASE \E c \in Callers : CallerStep(c) \/ Flush(c) \/ (\E ack \in BOOLEAN : Dispatch(c, ack))
  BY <1>1, <1>5 DEF CallerStep, Wake, DispatchReturn, FlushReturn, Flush, Dispatch, Post, Goto, link,
     tags
<1>6. CASE IoSwap \/ IoExit \/ IoTasksDone \/ IoWoken \/ HandlerEnd \/ RunFlush
           \/ RunPublishNowhere \/ RunConnectThrow
  BY <1>1, <1>6 DEF IoSwap, IoExit, IoTasksDone, IoWoken, HandlerEnd, RunFlush, RunPublishNowhere,
                    RunConnectThrow, IoGoto, link, tags
<1>7. CASE RunClose \/ RunDangling
  BY <1>1, <1>7 DEF RunClose, RunDangling, Closed, tags
<1>8. CASE RunConnect
  <2>1. wire' = <<>> /\ unanswered' = {} /\ base' = next_tag /\ UNCHANGED <<next_tag, pending, strays>>
    BY <1>8 DEF RunConnect
  <2>2. base' = 1 => next_tag = 1 /\ pending = {}
    BY <2>1 DEF FirstTag
  <2>3. FirstTag'
    BY <2>1, <1>0 DEF FirstTag
  <2>4. InStep' => Tagged'
    BY <2>1, <2>2 DEF InStep, Tagged
  <2> QED  BY <2>3, <2>4 DEF Tagged
<1>9. CASE RunPublish
  <2>10. FirstTag' /\ UNCHANGED tags
    BY <1>0, <1>9 DEF RunPublish, FirstTag, tags
  <2> SUFFICES ASSUME InStep  PROVE Tagged'
    BY <2>10 DEF InStep, Tagged, tags
  <2> DEFINE t == Head(batch)
             n == Len(wire)
  <2>1. /\ conn = "open" /\ next_tag' = next_tag + 1 /\ wire' = Append(wire, t)
        /\ pending' = IF t.ack THEN pending \cup {[tag |-> next_tag, p |-> t.p]} ELSE pending
        /\ unanswered' = unanswered \cup {n + 1}
    BY <1>9 DEF RunPublish, Awaited
  <2>2. /\ next_tag = n + 1
        /\ \A e \in pending : e.tag \in unanswered /\ wire[e.tag].p = e.p /\ wire[e.tag].ack
        /\ \A i \in unanswered : wire[i].ack => [tag |-> i, p |-> wire[i].p] \in pending
    BY <2>1 DEF Tagged
  <2>3. n \in Nat /\ wire \in Seq(Task) /\ unanswered \subseteq 1..n /\ t \in Task
    <3>1. batch # <<>> /\ batch \in Seq(Task)
      BY <1>9 DEF RunPublish, Running, IndInv, TypeOK
    <3>2. wire \in Seq(Task) /\ unanswered \subseteq 1..n
      BY DEF IndInv, TypeOK
    <3> QED  BY <3>1, <3>2, HeadFacts, LenProperties
  <2>4. Len(wire') = n + 1 /\ wire'[n + 1] = t /\ \A i \in 1..n : wire'[i] = wire[i]
    BY <2>1, <2>3, AppendProperties
  <2> HIDE DEF t, n
  <2>5. \A i \in unanswered : i # n + 1 /\ wire'[i] = wire[i]
    BY <2>3, <2>4
  <2>6. ASSUME NEW e \in pending'
        PROVE  e.tag \in unanswered' /\ wire'[e.tag].p = e.p /\ wire'[e.tag].ack
    <3>1. CASE e \in pending
      BY <3>1, <2>1, <2>2, <2>5
    <3>2. CASE e \notin pending
      <4>1. t.ack /\ e = [tag |-> next_tag, p |-> t.p]
        BY <3>2, <2>1
      <4>2. e.tag = n + 1 /\ e.p = t.p
        BY <4>1, <2>2
      <4> QED  BY <4>1, <4>2, <2>1, <2>4
    <3> QED  BY <3>1, <3>2
  <2>7. ASSUME NEW i \in unanswered', wire'[i].ack  PROVE [tag |-> i, p |-> wire'[i].p] \in pending'
    <3>1. CASE i = n + 1
      BY <3>1, <2>1, <2>2, <2>4, <2>7
    <3>2. CASE i # n + 1
      <4>1. i \in unanswered /\ wire'[i] = wire[i]
        BY <3>2, <2>1, <2>5
      <4> QED  BY <4>1, <2>1, <2>2, <2>7
    <3> QED  BY <3>1, <3>2
  <2>8. next_tag' = Len(wire') + 1
    BY <2>1, <2>2, <2>4
  <2> QED  BY <2>6, <2>7, <2>8 DEF Tagged
<1>10. CASE RunPublishRefused
  BY <1>0, <1>10 DEF RunPublishRefused, FirstTag, Tagged, tags
<1>14. CASE RunPublishThrow
  <2>1. /\ next_tag' = next_tag + 1 /\ base' = base /\ strays' = strays \cup {Head(batch).p}
    BY <1>14 DEF RunPublishThrow
  <2>2. FirstTag'
    BY <1>0, <2>1 DEF FirstTag
  <2>3. ~InStep'
    BY <2>1 DEF InStep
  <2> QED  BY <2>2, <2>3 DEF Tagged
<1>11. CASE IoPollTimeout \/ IoPollError \/ SetupReply \/ Deliver
  BY <1>1, <1>11 DEF IoPollTimeout, IoPollError, SetupReply, Deliver, IoGoto, link, tags
<1>12. CASE ChannelError \/ OnError
  BY <1>12 DEF ChannelError, OnError, FirstTag, Tagged, tags
<1>13. ASSUME NEW tag \in unanswered, NEW multiple \in BOOLEAN, NEW v \in {"ack", "nack"},
              Confirm(tag, multiple, v)
       PROVE  FirstTag' /\ Tagged'
  <2>1. pending' \subseteq pending /\ UNCHANGED <<next_tag, tags>>
    BY <1>13 DEF Confirm
  <2>2. FirstTag' /\ (InStep' => InStep)
    BY <2>1 DEF FirstTag, InStep, tags
  <2>3. InStep => Tagged'
    BY <1>13, ConfirmFacts
  <2> QED  BY <2>2, <2>3 DEF Tagged
<1> QED  BY <1>2, <1>3, <1>4, <1>5, <1>6, <1>7, <1>8, <1>9, <1>10, <1>11, <1>12, <1>13, <1>14
         DEF Next, OwnerStep, IoStep, Environment

\* Tags that are out of step stay so: base only grows and strays are kept.
LEMMA StepsKept ==
    ASSUME IndInv, FirstTag, [Next]_vars, InStep'
    PROVE  InStep
<1>0. next_tag \in Nat /\ base \in Nat /\ next_tag >= 1 /\ base >= 1
  BY DEF IndInv, TypeOK
<1>1. CASE RunConnect
  BY <1>0, <1>1 DEF RunConnect, InStep, FirstTag
<1>2. CASE RunPublishThrow
  BY <1>2 DEF RunPublishThrow, InStep
<1>3. CASE UNCHANGED tags
  BY <1>3 DEF InStep, tags
<1>4. CASE UNCHANGED vars
  BY <1>3, <1>4 DEF vars
<1>5. CASE Attach \/ Detach \/ OwnerStep
  BY <1>3, <1>5 DEF Attach, Detach, OwnerStep, Connect, AttachReturn, AttachFail, PostClose,
                    RequestStop, WakeToStop, Join, Post, Goto
<1>6. CASE \E c \in Callers : CallerStep(c) \/ Flush(c) \/ (\E ack \in BOOLEAN : Dispatch(c, ack))
  BY <1>3, <1>6 DEF CallerStep, Wake, DispatchReturn, FlushReturn, Flush, Dispatch, Post, Goto
<1>7. CASE IoStep
  BY <1>1, <1>2, <1>3, <1>7 DEF IoStep, IoSwap, IoExit, IoTasksDone, IoWoken, RunFlush, RunClose,
     RunDangling, RunPublish, RunPublishRefused, RunPublishNowhere, RunConnectThrow, HandlerEnd, IoGoto
<1>8. CASE Environment
  BY <1>3, <1>8 DEF Environment, IoPollTimeout, IoPollError, SetupReply, ChannelError, OnError,
     Deliver, Confirm, IoGoto
<1> QED  BY <1>4, <1>5, <1>6, <1>7, <1>8 DEF Next

\* Publisher confirms are not mixed up between messages, for any number of
\* threads, messages and sessions, with any waits abandoned and any failures, as
\* long as every tag drawn from next_delivery_tag went out on this channel.
THEOREM ConfirmsAreMatched == Spec => []ConfirmsMatch
<1>1. Init => FirstTag /\ Tagged /\ ConfirmsMatch
  BY DEF Init, FirstTag, Tagged, ConfirmsMatch
<1>2. IndInv /\ FirstTag /\ Tagged /\ [Next]_vars => FirstTag' /\ Tagged'
  BY TagsStay
<1>3. IndInv /\ FirstTag /\ Tagged /\ ConfirmsMatch /\ [Next]_vars => ConfirmsMatch'
  <2> SUFFICES ASSUME IndInv, FirstTag, Tagged, ConfirmsMatch, [Next]_vars, InStep'
               PROVE  ConfirmsMatch'
    BY DEF ConfirmsMatch
  <2>0. InStep
    BY StepsKept
  <2>1. CASE \E tag \in unanswered, multiple \in BOOLEAN, v \in {"ack", "nack"} :
                 Confirm(tag, multiple, v)
    BY <2>0, <2>1, ConfirmFacts DEF ConfirmsMatch
  <2>2. CASE /\ answer' = answer
             /\ \A p \in Promises : \/ outcome'[p] = outcome[p]
                                    \/ outcome[p] = "none" /\ outcome'[p] # "ack"
    BY <2>0, <2>2 DEF ConfirmsMatch
  <2> QED  BY <2>1, <2>2, ResolvedFacts DEF IndInv
<1> QED  BY <1>1, <1>2, <1>3, Invariance, PTL DEF Spec
=============================================================================
