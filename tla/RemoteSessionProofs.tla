------------------------ MODULE RemoteSessionProofs ------------------------
(***************************************************************************)
(* Proofs about RemoteSession: the life of a bus with any set of local     *)
(* transports, any number of threads and any one of the zmq, redis, nats   *)
(* and mqtt adapters.                                                      *)
(*                                                                         *)
(* The invariant has three parts: BusInv says what shutdown() and drain()  *)
(* have covered, AdapterInv what the rest of a program of the adapter has  *)
(* still to do, and Coupling which call of the bus that program belongs    *)
(* to.  The lemmas Bus..., Step... and Couple... show that each action     *)
(* keeps its part; the lemmas Both... are the actions that move the bus    *)
(* and the adapter together.                                               *)
(***************************************************************************)
EXTENDS RemoteSession, SequenceTheorems, TLAPS

\* The discipline under which a session is safe: the application does not use
\* the bus while it is shut down, and the only callbacks are those of the
\* receiver.
Disciplined == Orderly /\ Callbacks = {rx}

ShutdownLabels == {"exchange", "take", "flush", "detach"}

-----------------------------------------------------------------------------
(* The bus *)

\* What a thread holds, and where it comes from.
Snapshots ==
    /\ transports \subseteq inserted /\ detached \subseteq inserted
    /\ \A th \in Threads :
          /\ todo[th] \subseteq held[th] /\ flushed[th] \subseteq held[th]
          /\ pc[th] \in {"idle", "exchange", "take"} => held[th] = {}
          /\ pc[th] = "detach" => \E t \in Transports : flushed[th] = {t}
          /\ pc[th] # "detach" => flushed[th] = {}
          /\ pc[th] # "insert" => held[th] \subseteq inserted
          /\ pc[th] = "insert" =>
                \E t \in Transports \ inserted :
                   held[th] = {t} /\ \A u \in Threads \ {th} : t \notin held[u]

\* shutdown() has the bus to itself, handlers of the receiver apart.
Phases ==
    /\ \A th, u \in Application : th # u /\ pc[th] \in ShutdownLabels => pc[u] = "idle"
    /\ shutdown \/ bus # "alive" =>
          \A th \in Application : pc[th] \in ShutdownLabels \cup {"idle"}
    /\ \A th \in Application : pc[th] \in {"take", "flush", "detach"} => shutdown
    /\ pc[rx] \in {"idle", "dispatch"}
    /\ bus # "alive" => shutdown \/ \E th \in Application : pc[th] = "exchange"
    /\ bus = "gone" => shutdown /\ \A th \in Application : pc[th] = "idle"
    /\ shutdown /\ (\A th \in Application : pc[th] # "take") => transports = {}

Looping(th) == pc[th] \in {"flush", "detach"}

\* A transport the bus has owned is still in transports_, or shutdown() has
\* detached it or is about to.
Covered ==
    \A t \in inserted :
        t \in transports \cup detached
          \/ \E th \in Application : Looping(th) /\ t \in todo[th] \cup flushed[th]

\* transports_, or those that shutdown() took from it and has yet to flush
Ahead(t) == t \in transports \/ \E th \in Application : Looping(th) /\ t \in todo[th]

\* What the application has pending is in transports that are still to be
\* flushed; a drain() has still to visit those where its caller has some.
OwnPending ==
    /\ \A th \in Threads : pending[th][remote] = 0
    /\ \A th \in Application, t \in Transports : pending[th][t] > 0 => Ahead(t)
    /\ \A th \in Application, t \in Transports :
          pc[th] = "dispatch" /\ t \in held[th] => t \in transports
    /\ \A th \in Application, t \in Transports :
          pc[th] = "drain" /\ pending[th][t] > 0 => t \in todo[th]

BusInv == TypeOK /\ Snapshots /\ Phases /\ Covered /\ OwnPending

\* An attach() that throws, and a visit of the adapter, as the bus sees them.
GiveUp(th) ==
    /\ pc[th] = "insert" /\ Leave(th)
    /\ UNCHANGED <<transports, shutdown, bus, detached, inserted, pending, flushed>>

Visit(th) == pc[th] = "dispatch" /\ Visited(th)

-----------------------------------------------------------------------------
(* The adapter *)

AttachSteps == {"context", "make", "connect", "subscribe", "online", "spawn"}
EndReceiver == {"join"}
EndMessages == {"unsubscribe", "disconnect"}
Releases == {"close", "term", "offline", "unsink"}
ShutdownSteps == {"stop", "wake"} \cup EndReceiver \cup EndMessages \cup Releases
Outcomes == {"attached", "threw", "unspawned", "detached", "freed"}
Names == {"context", "outbound", "inbound", "shutdown_sub", "shutdown_pub", "publisher",
          "subscriber_conn", "subscriber", "opts", "conn", "client", "tok", "sub", "subtok"}
Step == [do : AttachSteps \cup ShutdownSteps \cup {"end"}, on : {"-"} \cup Names \cup Outcomes]

\* The receiver is a thread of ours.
Threaded == which \in {"zmq", "redis"}

\* The transport has an inbound end.
Hearing == which = "zmq" => "inbound" \in ends

Goal(p) == p[Len(p)].on
Left(step) == \E i \in 1..Len(prog) : prog[i].do = step

\* In no program does a step a come before a step b unless:
Follows(a, b) ==
    /\ a \in {"spawn", "subscribe"} => b \in {"online", "end"}
    /\ a \in Releases => b \notin EndReceiver \cup EndMessages

\* A part of a program of the adapter at hand.
Body(s) ==
    /\ s \in Seq(Step)
    /\ \A i \in 1..Len(s) : s[i].do \in {"spawn", "stop", "join"} => Threaded
    /\ \A i \in 1..Len(s) : s[i].do \in {"subscribe"} \cup EndMessages => ~Threaded
    /\ \A i \in 1..Len(s) : s[i].do = "spawn" => Hearing
    /\ \A i \in 1..Len(s) : s[i].do \in {"online", "offline"} => which # "mqtt"
    /\ \A i, j \in 1..Len(s) : i < j => Follows(s[i].do, s[j].do)
    /\ \A i \in 1..Len(s) : s[i].do = "connect" => i < Len(s) /\ s[i + 1].do = "subscribe"

\* A program or what is left of it: its last step, and only that, tells its
\* outcome, and each step is one that leads to this outcome.
Proper(p) ==
    /\ Body(p)
    /\ Goal(p) \in Outcomes
    /\ \A i \in 1..Len(p) : p[i].do = "end" <=> i = Len(p)
    /\ \A i \in 1..Len(p) : p[i].do \in AttachSteps => Goal(p) = "attached"
    /\ \A i \in 1..Len(p) :
          p[i].do \in ShutdownSteps => Goal(p) \in {"threw", "detached", "freed"}
    /\ \A i \in 1..Len(p) : p[i].do = "unsink" => Goal(p) = "detached"
    /\ \A i \in 1..Len(p) : p[i].do = "close" => which # "mqtt" \/ Goal(p) = "freed"

Handles ==
    Of({"context", "outbound", "inbound", "shutdown_sub", "shutdown_pub"},
       {"publisher", "subscriber_conn", "subscriber"}, {"opts", "conn", "sub"},
       {"client", "tok", "sub", "subtok"})

AdapterTypes ==
    /\ which \in Adapters /\ ends \in SUBSET {"outbound", "inbound"}
    /\ outcome \in Outcomes \cup {"none"} /\ open \subseteq Handles
    /\ sink \in BOOLEAN /\ connected \in BOOLEAN
    /\ recv \in {"none", "check", "poll", "deliver", "handler", "nested", "report", "ended"}
    /\ stop \in BOOLEAN /\ wake \in BOOLEAN /\ inbox \in Nat
    /\ prog # <<>> => /\ Proper(prog)
                      /\ outcome # "freed"
                      /\ Goal(prog) = "detached" <=> outcome = "attached"
                      /\ Goal(prog) \in {"attached", "threw", "unspawned"} =>
                            outcome # "detached"
                      /\ \A i \in 1..Len(prog) :
                            prog[i].do = "make" => prog[i].on \in Handles \ {"sub", "subtok"}

Attaching == prog # <<>> /\ Goal(prog) = "attached"
Idle == outcome = "attached" /\ prog = <<>>

\* What is left of attach() cannot fail any more.
Starting == Attaching /\ \A i \in 1..Len(prog) : prog[i].do \in {"online", "end"}

\* From there until detach() has taken one of the steps, attach() having returned.
Live(steps) == \/ Starting \/ Idle
               \/ outcome = "attached" /\ \E s \in steps : Left(s)

\* The broker has been asked for messages.
Subscribed == "sub" \in open \/ "subtok" \in open

\* A thread of ours runs from the last step of attach() that can fail until
\* detach() has joined it, and the sink is set all that time; a subscription
\* lasts as long, but a callback of the client library may outlive it.
ReceiverInv ==
    /\ Threaded /\ recv # "none" => sink /\ Live(EndReceiver)
    /\ Subscribed => ~Threaded /\ Live(EndMessages)
    /\ ~Threaded /\ recv # "none" => Starting \/ outcome \in {"attached", "detached", "freed"}
    /\ Attaching => sink
    /\ ~Threaded => /\ recv \notin {"check", "ended"}
                    /\ recv = "poll" => "sub" \in open
                    /\ "sub" \in open => recv # "none"
    /\ "subtok" \in open => recv = "none"

\* What the receiver polls is there: attach() makes it before the thread.
PolledInv ==
    /\ recv \notin {"none", "ended"} => Polled \subseteq open
    /\ Attaching /\ Hearing =>
          \A h \in Polled : h \in open \/ \E i \in 1..Len(prog) : prog[i] = Make(h)

Ends(step, h) ==
    \/ step = Close(h)
    \/ step = Do("term") /\ h = "context"
    \/ step = Do("unsubscribe") /\ h = "sub"

\* What attach() has made, shutdown() has still to release.
ReleaseInv ==
    /\ inbox # 0 => open \cap {"inbound", "subscriber", "sub"} # {}
    /\ which # "mqtt" /\ prog # <<>> /\ Goal(prog) \in {"threw", "detached"} =>
          /\ \A h \in open : \E i \in 1..Len(prog) : Ends(prog[i], h)
          /\ connected => Left("offline")
    /\ which # "mqtt" /\ prog = <<>> /\ outcome \in {"threw", "detached"} => open = {} /\ ~connected

AdapterInv == AdapterTypes /\ ReceiverInv /\ PolledInv /\ ReleaseInv

-----------------------------------------------------------------------------
(* The two together *)

\* A thread inside the client library has a handle to send on (a callback of nats
\* may lose it, when it runs on behind detach()).
Sends(th) == (th = rx /\ which = "nats") \/ Outbound \in open

Coupling ==
    /\ prog # <<>> /\ Goal(prog) \in {"attached", "threw", "unspawned"} =>
          \E th \in Application : pc[th] = "insert" /\ remote \in held[th]
    /\ prog # <<>> /\ Goal(prog) = "detached" =>
          \E th \in Application : pc[th] = "detach" /\ remote \in flushed[th]
    /\ (prog # <<>> /\ Goal(prog) = "freed") \/ outcome = "freed" =>
          remote \notin transports /\ \A th \in Threads : remote \notin held[th]
    /\ \A th \in Application : pc[th] = "insert" /\ remote \in held[th] =>
          prog # <<>> /\ Goal(prog) \in {"attached", "threw", "unspawned"}
    /\ outcome = "attached" <=> remote \in inserted \ detached
    /\ outcome = "detached" => remote \in inserted
    /\ \A th \in using :
          pc[th] = "dispatch" /\ remote \in todo[th] /\ Sends(th) /\ th \in Threads
    /\ pc[rx] = "dispatch" => recv = "nested"

IndInv == BusInv /\ AdapterInv /\ Coupling

-----------------------------------------------------------------------------
(* Programs *)

\* A step of the program that is not its last leaves a proper program.
LEMMA AdvanceFacts ==
    ASSUME prog # <<>>, Proper(prog), Head(prog).do # "end", prog' = Tail(prog),
           UNCHANGED <<which, ends>>
    PROVE  /\ Len(prog) \in Nat /\ Len(prog) > 1 /\ Head(prog) = prog[1] /\ Head(prog) \in Step
           /\ prog' # <<>> /\ prog' \in Seq(Step) /\ Len(prog') = Len(prog) - 1
           /\ \A i \in 1..Len(prog') : prog'[i] = prog[i + 1] /\ i + 1 \in 1..Len(prog)
           /\ \A i \in 1..Len(prog) : i # 1 => i - 1 \in 1..Len(prog') /\ prog'[i - 1] = prog[i]
           /\ Goal(prog)' = Goal(prog) /\ Proper(prog)'
<1>1. prog \in Seq(Step) /\ Len(prog) \in Nat /\ Len(prog) > 0 /\ Head(prog) = prog[1]
  BY DEF Proper, Body
<1>2. Len(prog) > 1 /\ Head(prog) \in Step
  <2>1. 1 \in 1..Len(prog)
    BY <1>1
  <2>2. prog[1].do = "end" <=> 1 = Len(prog)
    BY <2>1 DEF Proper
  <2>3. prog[1].do # "end"
    BY <1>1
  <2>4. Len(prog) # 1
    BY <2>2, <2>3
  <2>5. Len(prog) > 1
    <3>1. \A n \in Nat : n > 0 /\ n # 1 => n > 1
      OBVIOUS
    <3> QED  BY <1>1, <2>4, <3>1
  <2>6. Head(prog) \in Step
    BY <1>1, <2>1
  <2> QED  BY <2>5, <2>6
<1>3. prog' \in Seq(Step) /\ Len(prog') = Len(prog) - 1
  BY <1>1
<1>4. \A i \in 1..Len(prog') : prog'[i] = prog[i + 1] /\ i + 1 \in 1..Len(prog)
  BY <1>1, <1>3
<1>5. \A i \in 1..Len(prog) : i # 1 => i - 1 \in 1..Len(prog') /\ prog'[i - 1] = prog[i]
  BY <1>1, <1>3, <1>4
<1>6. prog' # <<>>
  <2>1. Len(prog') # 0
    BY <1>1, <1>2, <1>3
  <2> QED  BY <2>1
<1>7. Goal(prog)' = Goal(prog)
  BY <1>2, <1>3, <1>4 DEF Goal
<1>8. Proper(prog)'
  <2>0. /\ Threaded' = Threaded /\ Hearing' = Hearing
    BY DEF Threaded, Hearing
  <2>1. Goal(prog)' \in Outcomes
    BY <1>7 DEF Proper
  <2>2. \A i \in 1..Len(prog') : prog'[i].do = "end" <=> i = Len(prog')
    <3> SUFFICES ASSUME NEW i \in 1..Len(prog')  PROVE prog'[i].do = "end" <=> i = Len(prog')
      OBVIOUS
    <3>1. prog'[i] = prog[i + 1] /\ i + 1 \in 1..Len(prog)
      BY <1>4
    <3>2. prog[i + 1].do = "end" <=> i + 1 = Len(prog)
      BY <3>1 DEF Proper
    <3>3. i = Len(prog') <=> i + 1 = Len(prog)
      BY <1>1, <1>3
    <3> QED  BY <3>1, <3>2, <3>3
  <2>3. \A i \in 1..Len(prog') : prog'[i].do \in AttachSteps => Goal(prog)' = "attached"
    BY <1>4, <1>7 DEF Proper
  <2>4. \A i \in 1..Len(prog') :
           prog'[i].do \in ShutdownSteps => Goal(prog)' \in {"threw", "detached", "freed"}
    BY <1>4, <1>7 DEF Proper
  <2>5. \A i \in 1..Len(prog') : prog'[i].do = "unsink" => Goal(prog)' = "detached"
    BY <1>4, <1>7 DEF Proper
  <2>7. \A i \in 1..Len(prog') :
           prog'[i].do = "close" => which' # "mqtt" \/ Goal(prog)' = "freed"
    BY <1>4, <1>7 DEF Proper
  <2>6. Body(prog)'
    <3>1. \A i \in 1..Len(prog') :
             /\ prog'[i].do \in {"spawn", "stop", "join"} => Threaded'
             /\ prog'[i].do \in {"subscribe"} \cup EndMessages => ~Threaded'
             /\ prog'[i].do = "spawn" => Hearing'
             /\ prog'[i].do \in {"online", "offline"} => which' # "mqtt"
      BY <1>4, <2>0 DEF Proper, Body
    <3>2. ASSUME NEW i \in 1..Len(prog'), NEW j \in 1..Len(prog'), i < j
          PROVE  Follows(prog'[i].do, prog'[j].do)
      <4>1. /\ i + 1 \in 1..Len(prog) /\ j + 1 \in 1..Len(prog) /\ i + 1 < j + 1
            /\ prog'[i] = prog[i + 1] /\ prog'[j] = prog[j + 1]
        BY <1>1, <1>3, <1>4, <3>2
      <4> QED  BY <4>1 DEF Proper, Body
    <3>3. ASSUME NEW i \in 1..Len(prog'), prog'[i].do = "connect"
          PROVE  i < Len(prog') /\ prog'[i + 1].do = "subscribe"
      <4>1. i + 1 \in 1..Len(prog) /\ prog'[i] = prog[i + 1]
        BY <1>4
      <4>2. i + 1 < Len(prog) /\ prog[(i + 1) + 1].do = "subscribe"
        BY <3>3, <4>1 DEF Proper, Body
      <4>3. i + 1 \in 1..Len(prog') /\ i < Len(prog')
        BY <1>1, <1>3, <4>2
      <4> QED  BY <1>4, <4>2, <4>3
    <3> QED  BY <1>3, <3>1, <3>2, <3>3 DEF Body
  <2> QED  BY <2>1, <2>2, <2>3, <2>4, <2>5, <2>6, <2>7 DEF Proper
<1> QED  BY <1>1, <1>2, <1>3, <1>4, <1>5, <1>6, <1>7, <1>8

\* Putting two parts of a program together.
LEMMA ConcatBody ==
    ASSUME NEW s, NEW t, Body(s), Body(t),
           \A i \in 1..Len(s), j \in 1..Len(t) : Follows(s[i].do, t[j].do)
    PROVE  /\ Body(s \o t) /\ Len(s) \in Nat /\ Len(t) \in Nat
           /\ Len(s \o t) = Len(s) + Len(t)
           /\ \A i \in 1..Len(s) : i \in 1..Len(s \o t) /\ (s \o t)[i] = s[i]
           /\ \A i \in 1..Len(t) : Len(s) + i \in 1..Len(s \o t) /\ (s \o t)[Len(s) + i] = t[i]
           /\ \A i \in 1..Len(s \o t) : \/ i \in 1..Len(s)
                                        \/ \E j \in 1..Len(t) : i = Len(s) + j
<1> DEFINE r == s \o t
<1>1. s \in Seq(Step) /\ t \in Seq(Step) /\ Len(s) \in Nat /\ Len(t) \in Nat
  BY DEF Body
<1>2. r \in Seq(Step) /\ Len(r) = Len(s) + Len(t)
  BY <1>1, ConcatProperties
<1>3. \A i \in 1..Len(s) + Len(t) : r[i] = IF i <= Len(s) THEN s[i] ELSE t[i - Len(s)]
  BY <1>1, ConcatProperties
<1> HIDE DEF r
<1>4. \A i \in 1..Len(s) : i \in 1..Len(r) /\ r[i] = s[i]
  BY <1>1, <1>2, <1>3
<1>5. ASSUME NEW i \in 1..Len(t)
      PROVE  Len(s) + i \in 1..Len(r) /\ r[Len(s) + i] = t[i]
  <2>1. \A m, n \in Nat :
           \A k \in 1..n : /\ m + k \in 1..m + n /\ ~(m + k <= m) /\ (m + k) - m = k
    OBVIOUS
  <2>2. /\ Len(s) + i \in 1..Len(s) + Len(t)
        /\ ~(Len(s) + i <= Len(s)) /\ (Len(s) + i) - Len(s) = i
    BY <1>1, <2>1
  <2> QED  BY <1>2, <1>3, <2>2
<1>6. ASSUME NEW i \in 1..Len(r)
      PROVE  i \in 1..Len(s) \/ \E j \in 1..Len(t) : i = Len(s) + j
  <2>1. CASE i > Len(s)
    <3>1. i - Len(s) \in 1..Len(t) /\ i = Len(s) + (i - Len(s))
      BY <1>1, <1>2, <2>1
    <3> QED  BY <3>1
  <2> QED  BY <1>1, <1>2, <2>1
<1>7. \A i \in 1..Len(r) :
         /\ r[i].do \in {"spawn", "stop", "join"} => Threaded
         /\ r[i].do \in {"subscribe"} \cup EndMessages => ~Threaded
         /\ r[i].do = "spawn" => Hearing
         /\ r[i].do \in {"online", "offline"} => which # "mqtt"
  <2> SUFFICES ASSUME NEW i \in 1..Len(r)
               PROVE  \/ \E k \in 1..Len(s) : r[i] = s[k]
                      \/ \E k \in 1..Len(t) : r[i] = t[k]
    BY DEF Body
  <2> QED  BY <1>4, <1>5, <1>6
<1>8. ASSUME NEW i \in 1..Len(r), NEW j \in 1..Len(r), i < j
      PROVE  Follows(r[i].do, r[j].do)
  <2>1. CASE i \in 1..Len(s) /\ j \in 1..Len(s)
    BY <1>4, <1>8, <2>1 DEF Body
  <2>2. CASE i \in 1..Len(s) /\ \E k \in 1..Len(t) : j = Len(s) + k
    BY <1>4, <1>5, <2>2
  <2>3. CASE (\E k \in 1..Len(t) : i = Len(s) + k) /\ (\E k \in 1..Len(t) : j = Len(s) + k)
    <3>1. PICK k \in 1..Len(t) : i = Len(s) + k
      BY <2>3
    <3>2. PICK l \in 1..Len(t) : j = Len(s) + l
      BY <2>3
    <3>3. k < l
      BY <1>1, <1>8, <3>1, <3>2
    <3> QED  BY <1>5, <3>1, <3>2, <3>3 DEF Body
  <2>4. CASE (\E k \in 1..Len(t) : i = Len(s) + k) /\ j \in 1..Len(s)
    BY <1>1, <1>8, <2>4
  <2> QED  BY <1>6, <2>1, <2>2, <2>3, <2>4
<1>9. ASSUME NEW i \in 1..Len(r), r[i].do = "connect"
      PROVE  i < Len(r) /\ r[i + 1].do = "subscribe"
  <2>1. CASE i \in 1..Len(s)
    <3>1. i < Len(s) /\ s[i + 1].do = "subscribe"
      BY <1>4, <1>9, <2>1 DEF Body
    <3>2. i + 1 \in 1..Len(s)
      BY <1>1, <2>1, <3>1
    <3> QED  BY <1>1, <1>2, <1>4, <3>1, <3>2
  <2>2. ASSUME NEW k \in 1..Len(t), i = Len(s) + k
        PROVE  i < Len(r) /\ r[i + 1].do = "subscribe"
    <3>1. k < Len(t) /\ t[k + 1].do = "subscribe"
      BY <1>5, <1>9, <2>2 DEF Body
    <3>2. k + 1 \in 1..Len(t) /\ Len(s) + (k + 1) = i + 1
      BY <1>1, <2>2, <3>1
    <3> QED  BY <1>1, <1>2, <1>5, <2>2, <3>1, <3>2
  <2> QED  BY <1>6, <2>1, <2>2
<1>10. Body(r)
  BY <1>2, <1>7, <1>8, <1>9 DEF Body
<1> QED  BY <1>1, <1>2, <1>4, <1>5, <1>6, <1>10 DEF r

\* Impl::shutdown() or disconnect_blocking() of the adapter at hand
Shutting ==
    Of(Zmq!ShutdownProgram, Redis!ShutdownProgram, Nats!ShutdownProgram, Mqtt!ShutdownProgram)

\* It ends our thread or the messages, and releases all handles after that.
ShutsDown(s) ==
    /\ Threaded => \E i \in 1..Len(s) : s[i].do \in EndReceiver
    /\ ~Threaded => \E i \in 1..Len(s) : s[i].do \in EndMessages
    /\ which # "mqtt" => \A h \in Handles : \E i \in 1..Len(s) : Ends(s[i], h)
    /\ which # "mqtt" => \E i \in 1..Len(s) : s[i].do = "offline"

\* A sequence of steps of a shutdown is a part of a program if it is in order.
LEMMA ShutdownBody ==
    ASSUME NEW s \in Seq(Step),
           \A i \in 1..Len(s) : s[i].do \in ShutdownSteps \ {"unsink"},
           \A i \in 1..Len(s) : s[i].do \in {"stop", "join"} => Threaded,
           \A i \in 1..Len(s) : s[i].do \in EndMessages => ~Threaded,
           \A i \in 1..Len(s) : s[i].do = "offline" => which # "mqtt",
           \A i, j \in 1..Len(s) : i < j => Follows(s[i].do, s[j].do)
    PROVE  Body(s)
<1>1. \A i \in 1..Len(s) : s[i].do \notin {"spawn", "subscribe", "connect"}
  BY DEF ShutdownSteps, EndReceiver, EndMessages, Releases
<1>2. \A i \in 1..Len(s) : s[i].do \in {"spawn", "stop", "join"} => Threaded
  BY <1>1
<1>3. \A i \in 1..Len(s) : s[i].do \in {"subscribe"} \cup EndMessages => ~Threaded
  BY <1>1
<1>4. \A i \in 1..Len(s) : s[i].do \in {"online", "offline"} => which # "mqtt"
  BY DEF ShutdownSteps, EndReceiver, EndMessages, Releases
<1> QED  BY <1>1, <1>2, <1>3, <1>4 DEF Body

\* The shutdown of every adapter does so, in the order that a program needs.
LEMMA ShuttingFacts ==
    ASSUME which \in Adapters
    PROVE  /\ Body(Shutting) /\ ShutsDown(Shutting)
           /\ \A i \in 1..Len(Shutting) : Shutting[i].do \in ShutdownSteps \ {"unsink"}
           /\ which = "mqtt" => \A i \in 1..Len(Shutting) : Shutting[i].do # "close"
<1>1. which \in {"zmq", "redis", "nats", "mqtt"}
  BY AdaptersAssumption
<1>2. CASE which = "zmq"
  <2>1. Shutting = Zmq!ShutdownProgram
    BY <1>2 DEF Shutting, Of
  <2>2. Zmq!ShutdownProgram \in Seq(Step) /\ Len(Zmq!ShutdownProgram) = 9
    BY DEF Zmq!ShutdownProgram, Zmq!Do, Zmq!Close, Step, Names, AttachSteps, ShutdownSteps,
       EndReceiver,
           EndMessages, Releases
  <2>3. \A i \in 1..9 : Zmq!ShutdownProgram[i].do \in ShutdownSteps \ {"unsink"}
    BY DEF Zmq!ShutdownProgram, Zmq!Do, Zmq!Close, ShutdownSteps, EndReceiver, EndMessages,
       Releases
  <2>4. \A i \in 1..9 : Zmq!ShutdownProgram[i].do \in {"stop", "join"} => Threaded
    BY <1>2 DEF Zmq!ShutdownProgram, Zmq!Do, Zmq!Close, Threaded
  <2>5. \A i \in 1..9 : Zmq!ShutdownProgram[i].do \in EndMessages => ~Threaded
    BY <1>2 DEF Zmq!ShutdownProgram, Zmq!Do, Zmq!Close, Threaded, EndMessages
  <2>6. \A i, j \in 1..9 :
           i < j => Follows(Zmq!ShutdownProgram[i].do, Zmq!ShutdownProgram[j].do)
    BY DEF Zmq!ShutdownProgram, Zmq!Do, Zmq!Close, Follows, EndReceiver, EndMessages, Releases
  <2>7. \E i \in 1..9 : Zmq!ShutdownProgram[i].do \in EndReceiver
    BY DEF Zmq!ShutdownProgram, Zmq!Do, Zmq!Close, EndReceiver
  <2>8. ~Threaded => \E i \in 1..9 : Zmq!ShutdownProgram[i].do \in EndMessages
    BY <1>2 DEF Zmq!ShutdownProgram, Zmq!Do, Zmq!Close, EndMessages, Threaded
  <2>9. \A h \in Handles : \E i \in 1..9 : Ends(Zmq!ShutdownProgram[i], h)
    BY <1>2 DEF Zmq!ShutdownProgram, Zmq!Do, Zmq!Close, Handles, Of, Ends, Do, Close
  <2>10. \E i \in 1..9 : Zmq!ShutdownProgram[i].do = "offline"
    BY DEF Zmq!ShutdownProgram, Zmq!Do, Zmq!Close
  <2>13. \A i \in 1..9 : Zmq!ShutdownProgram[i].do = "offline" => which # "mqtt"
    BY <1>2 DEF Zmq!ShutdownProgram, Zmq!Do, Zmq!Close
  <2>11. Body(Zmq!ShutdownProgram)
    BY <2>2, <2>3, <2>4, <2>5, <2>6, <2>13, ShutdownBody
  <2>12. ShutsDown(Zmq!ShutdownProgram)
    BY <2>2, <2>7, <2>8, <2>9, <2>10 DEF ShutsDown
  <2> QED  BY <1>2, <2>1, <2>2, <2>3, <2>11, <2>12
<1>3. CASE which = "redis"
  <2>1. Shutting = Redis!ShutdownProgram
    BY <1>3 DEF Shutting, Of
  <2>2. Redis!ShutdownProgram \in Seq(Step) /\ Len(Redis!ShutdownProgram) = 6
    BY DEF Redis!ShutdownProgram, Redis!Do, Redis!Close, Step, Names, AttachSteps,
       ShutdownSteps, EndReceiver,
           EndMessages, Releases
  <2>3. \A i \in 1..6 : Redis!ShutdownProgram[i].do \in ShutdownSteps \ {"unsink"}
    BY DEF Redis!ShutdownProgram, Redis!Do, Redis!Close, ShutdownSteps, EndReceiver,
       EndMessages, Releases
  <2>4. \A i \in 1..6 : Redis!ShutdownProgram[i].do \in {"stop", "join"} => Threaded
    BY <1>3 DEF Redis!ShutdownProgram, Redis!Do, Redis!Close, Threaded
  <2>5. \A i \in 1..6 : Redis!ShutdownProgram[i].do \in EndMessages => ~Threaded
    BY <1>3 DEF Redis!ShutdownProgram, Redis!Do, Redis!Close, Threaded, EndMessages
  <2>6. \A i, j \in 1..6 :
           i < j => Follows(Redis!ShutdownProgram[i].do, Redis!ShutdownProgram[j].do)
    BY DEF Redis!ShutdownProgram, Redis!Do, Redis!Close, Follows, EndReceiver, EndMessages,
       Releases
  <2>7. \E i \in 1..6 : Redis!ShutdownProgram[i].do \in EndReceiver
    BY DEF Redis!ShutdownProgram, Redis!Do, Redis!Close, EndReceiver
  <2>8. ~Threaded => \E i \in 1..6 : Redis!ShutdownProgram[i].do \in EndMessages
    BY <1>3 DEF Redis!ShutdownProgram, Redis!Do, Redis!Close, EndMessages, Threaded
  <2>9. \A h \in Handles : \E i \in 1..6 : Ends(Redis!ShutdownProgram[i], h)
    BY <1>3 DEF Redis!ShutdownProgram, Redis!Do, Redis!Close, Handles, Of, Ends, Do, Close
  <2>10. \E i \in 1..6 : Redis!ShutdownProgram[i].do = "offline"
    BY DEF Redis!ShutdownProgram, Redis!Do, Redis!Close
  <2>13. \A i \in 1..6 : Redis!ShutdownProgram[i].do = "offline" => which # "mqtt"
    BY <1>3 DEF Redis!ShutdownProgram, Redis!Do, Redis!Close
  <2>11. Body(Redis!ShutdownProgram)
    BY <2>2, <2>3, <2>4, <2>5, <2>6, <2>13, ShutdownBody
  <2>12. ShutsDown(Redis!ShutdownProgram)
    BY <2>2, <2>7, <2>8, <2>9, <2>10 DEF ShutsDown
  <2> QED  BY <1>3, <2>1, <2>2, <2>3, <2>11, <2>12
<1>4. CASE which = "nats"
  <2>1. Shutting = Nats!ShutdownProgram
    BY <1>4 DEF Shutting, Of
  <2>2. Nats!ShutdownProgram \in Seq(Step) /\ Len(Nats!ShutdownProgram) = 4
    BY DEF Nats!ShutdownProgram, Nats!Do, Nats!Close, Step, Names, AttachSteps, ShutdownSteps,
       EndReceiver,
           EndMessages, Releases
  <2>3. \A i \in 1..4 : Nats!ShutdownProgram[i].do \in ShutdownSteps \ {"unsink"}
    BY DEF Nats!ShutdownProgram, Nats!Do, Nats!Close, ShutdownSteps, EndReceiver, EndMessages,
       Releases
  <2>4. \A i \in 1..4 : Nats!ShutdownProgram[i].do \in {"stop", "join"} => Threaded
    BY <1>4 DEF Nats!ShutdownProgram, Nats!Do, Nats!Close, Threaded
  <2>5. \A i \in 1..4 : Nats!ShutdownProgram[i].do \in EndMessages => ~Threaded
    BY <1>4 DEF Nats!ShutdownProgram, Nats!Do, Nats!Close, Threaded, EndMessages
  <2>6. \A i, j \in 1..4 :
           i < j => Follows(Nats!ShutdownProgram[i].do, Nats!ShutdownProgram[j].do)
    BY DEF Nats!ShutdownProgram, Nats!Do, Nats!Close, Follows, EndReceiver, EndMessages,
       Releases
  <2>8. ~Threaded => \E i \in 1..4 : Nats!ShutdownProgram[i].do \in EndMessages
    BY <1>4 DEF Nats!ShutdownProgram, Nats!Do, Nats!Close, EndMessages, Threaded
  <2>9. \A h \in Handles : \E i \in 1..4 : Ends(Nats!ShutdownProgram[i], h)
    BY <1>4 DEF Nats!ShutdownProgram, Nats!Do, Nats!Close, Handles, Of, Ends, Do, Close
  <2>10. \E i \in 1..4 : Nats!ShutdownProgram[i].do = "offline"
    BY DEF Nats!ShutdownProgram, Nats!Do, Nats!Close
  <2>13. \A i \in 1..4 : Nats!ShutdownProgram[i].do = "offline" => which # "mqtt"
    BY <1>4 DEF Nats!ShutdownProgram, Nats!Do, Nats!Close
  <2>11. Body(Nats!ShutdownProgram)
    BY <2>2, <2>3, <2>4, <2>5, <2>6, <2>13, ShutdownBody
  <2>12. ShutsDown(Nats!ShutdownProgram)
    BY <1>4, <2>2, <2>8, <2>9, <2>10 DEF ShutsDown, Threaded
  <2> QED  BY <1>4, <2>1, <2>2, <2>3, <2>11, <2>12
<1>5. CASE which = "mqtt"
  <2>1. Shutting = Mqtt!ShutdownProgram
    BY <1>5 DEF Shutting, Of
  <2>2. Mqtt!ShutdownProgram \in Seq(Step) /\ Len(Mqtt!ShutdownProgram) = 1
    BY DEF Mqtt!ShutdownProgram, Mqtt!Do, Step, Names, AttachSteps, ShutdownSteps, EndReceiver,
           EndMessages, Releases
  <2>3. \A i \in 1..1 : Mqtt!ShutdownProgram[i].do \in ShutdownSteps \ {"unsink"}
    BY DEF Mqtt!ShutdownProgram, Mqtt!Do, ShutdownSteps, EndReceiver, EndMessages, Releases
  <2>4. \A i \in 1..1 : Mqtt!ShutdownProgram[i].do \in {"stop", "join"} => Threaded
    BY <1>5 DEF Mqtt!ShutdownProgram, Mqtt!Do, Threaded
  <2>5. \A i \in 1..1 : Mqtt!ShutdownProgram[i].do \in EndMessages => ~Threaded
    BY <1>5 DEF Mqtt!ShutdownProgram, Mqtt!Do, Threaded, EndMessages
  <2>6. \A i, j \in 1..1 :
           i < j => Follows(Mqtt!ShutdownProgram[i].do, Mqtt!ShutdownProgram[j].do)
    BY DEF Mqtt!ShutdownProgram, Mqtt!Do, Follows, EndReceiver, EndMessages, Releases
  <2>7. \A i \in 1..1 : Mqtt!ShutdownProgram[i].do # "close"
    BY DEF Mqtt!ShutdownProgram, Mqtt!Do
  <2>8. ~Threaded => \E i \in 1..1 : Mqtt!ShutdownProgram[i].do \in EndMessages
    BY <1>5 DEF Mqtt!ShutdownProgram, Mqtt!Do, EndMessages, Threaded
  <2>13. \A i \in 1..1 : Mqtt!ShutdownProgram[i].do = "offline" => which # "mqtt"
    BY <1>5 DEF Mqtt!ShutdownProgram, Mqtt!Do
  <2>11. Body(Mqtt!ShutdownProgram)
    BY <2>2, <2>3, <2>4, <2>5, <2>6, <2>13, ShutdownBody
  <2>12. ShutsDown(Mqtt!ShutdownProgram)
    BY <1>5, <2>2, <2>8 DEF ShutsDown, Threaded
  <2> QED  BY <2>1, <2>2, <2>3, <2>7, <2>11, <2>12
<1> QED  BY <1>1, <1>2, <1>3, <1>4, <1>5

\* How the programs that run a shutdown go on after it.
Endings == {<<End("threw")>>, <<Do("unsink"), End("detached")>>, <<End("freed")>>,
            <<Close("client"), End("freed")>>}

\* What the endings have in common.
LEMMA EndingFacts ==
    ASSUME NEW t \in Endings
    PROVE  /\ Body(t) /\ Len(t) > 0 /\ t[Len(t)].on \in {"threw", "detached", "freed"}
           /\ \A i \in 1..Len(t) : t[i].do = "end" <=> i = Len(t)
           /\ \A i \in 1..Len(t) : t[i].do \in {"close", "unsink", "end"}
           /\ \A i \in 1..Len(t) : t[i].do = "unsink" => t[Len(t)].on = "detached"
           /\ \A i \in 1..Len(t) : t[i].do = "close" => t[Len(t)].on = "freed"
<1>1. CASE t = <<End("threw")>>
  <2>1. t \in Seq(Step) /\ Len(t) = 1
    BY <1>1 DEF End, Do, Close, Step, Names, Outcomes, AttachSteps, ShutdownSteps, EndReceiver,
                 EndMessages, Releases
  <2>2. \A i \in 1..1 : t[i].do \in {"close", "unsink", "end"} /\ (t[i].do = "end" <=> i = 1)
    BY <1>1 DEF End, Do, Close
  <2>3. t[1].on = "threw" /\ \A i \in 1..1 : t[i].do = "unsink" => "threw" = "detached"
    BY <1>1 DEF End, Do, Close
  <2>6. \A i \in 1..1 : t[i].do = "close" => "threw" = "freed"
    BY <1>1 DEF End, Do, Close
  <2>4. \A i, j \in 1..1 : i < j => Follows(t[i].do, t[j].do)
    BY <1>1 DEF Follows, End, Do, Close, EndReceiver, EndMessages, Releases
  <2>5. Body(t)
    BY <2>1, <2>2, <2>4 DEF Body, EndMessages
  <2> QED  BY <2>1, <2>2, <2>3, <2>5, <2>6
<1>2. CASE t = <<Do("unsink"), End("detached")>>
  <2>1. t \in Seq(Step) /\ Len(t) = 2
    BY <1>2 DEF End, Do, Close, Step, Names, Outcomes, AttachSteps, ShutdownSteps, EndReceiver,
                 EndMessages, Releases
  <2>2. \A i \in 1..2 : t[i].do \in {"close", "unsink", "end"} /\ (t[i].do = "end" <=> i = 2)
    BY <1>2 DEF End, Do, Close
  <2>3. t[2].on = "detached" /\ \A i \in 1..2 : t[i].do = "unsink" => "detached" = "detached"
    BY <1>2 DEF End, Do, Close
  <2>6. \A i \in 1..2 : t[i].do = "close" => "detached" = "freed"
    BY <1>2 DEF End, Do, Close
  <2>4. \A i, j \in 1..2 : i < j => Follows(t[i].do, t[j].do)
    BY <1>2 DEF Follows, End, Do, Close, EndReceiver, EndMessages, Releases
  <2>5. Body(t)
    BY <2>1, <2>2, <2>4 DEF Body, EndMessages
  <2> QED  BY <2>1, <2>2, <2>3, <2>5, <2>6
<1>3. CASE t = <<End("freed")>>
  <2>1. t \in Seq(Step) /\ Len(t) = 1
    BY <1>3 DEF End, Do, Close, Step, Names, Outcomes, AttachSteps, ShutdownSteps, EndReceiver,
                 EndMessages, Releases
  <2>2. \A i \in 1..1 : t[i].do \in {"close", "unsink", "end"} /\ (t[i].do = "end" <=> i = 1)
    BY <1>3 DEF End, Do, Close
  <2>3. t[1].on = "freed" /\ \A i \in 1..1 : t[i].do = "unsink" => "freed" = "detached"
    BY <1>3 DEF End, Do, Close
  <2>6. \A i \in 1..1 : t[i].do = "close" => "freed" = "freed"
    BY <1>3 DEF End, Do, Close
  <2>4. \A i, j \in 1..1 : i < j => Follows(t[i].do, t[j].do)
    BY <1>3 DEF Follows, End, Do, Close, EndReceiver, EndMessages, Releases
  <2>5. Body(t)
    BY <2>1, <2>2, <2>4 DEF Body, EndMessages
  <2> QED  BY <2>1, <2>2, <2>3, <2>5, <2>6
<1>4. CASE t = <<Close("client"), End("freed")>>
  <2>1. t \in Seq(Step) /\ Len(t) = 2
    BY <1>4 DEF End, Do, Close, Step, Names, Outcomes, AttachSteps, ShutdownSteps, EndReceiver,
                 EndMessages, Releases
  <2>2. \A i \in 1..2 : t[i].do \in {"close", "unsink", "end"} /\ (t[i].do = "end" <=> i = 2)
    BY <1>4 DEF End, Do, Close
  <2>3. t[2].on = "freed" /\ \A i \in 1..2 : t[i].do = "unsink" => "freed" = "detached"
    BY <1>4 DEF End, Do, Close
  <2>6. \A i \in 1..2 : t[i].do = "close" => "freed" = "freed"
    BY <1>4 DEF End, Do, Close
  <2>4. \A i, j \in 1..2 : i < j => Follows(t[i].do, t[j].do)
    BY <1>4 DEF Follows, End, Do, Close, EndReceiver, EndMessages, Releases
  <2>5. Body(t)
    BY <2>1, <2>2, <2>4 DEF Body, EndMessages
  <2> QED  BY <2>1, <2>2, <2>3, <2>5, <2>6
<1> QED  BY <1>1, <1>2, <1>3, <1>4 DEF Endings

\* A shutdown with an ending is a proper program, and shuts down.
LEMMA ShutdownProper ==
    ASSUME which \in Adapters, NEW t \in Endings
    PROVE  /\ Proper(Shutting \o t) /\ Goal(Shutting \o t) = t[Len(t)].on
           /\ Shutting \o t # <<>> /\ ShutsDown(Shutting \o t)
           /\ \A i \in 1..Len(Shutting \o t) : (Shutting \o t)[i].do \notin AttachSteps
<1>1. PICK s : s = Shutting
  OBVIOUS
<1> DEFINE p == s \o t
<1>2. /\ Body(s) /\ ShutsDown(s) /\ \A i \in 1..Len(s) : s[i].do \in ShutdownSteps \ {"unsink"}
      /\ which = "mqtt" => \A i \in 1..Len(s) : s[i].do # "close"
  BY <1>1, ShuttingFacts
<1>3. Body(t) /\ Len(t) > 0 /\ t[Len(t)].on \in {"threw", "detached", "freed"}
  BY EndingFacts
<1>4. /\ \A i \in 1..Len(t) : t[i].do = "end" <=> i = Len(t)
      /\ \A i \in 1..Len(t) : t[i].do \in {"close", "unsink", "end"}
      /\ \A i \in 1..Len(t) : t[i].do = "unsink" => t[Len(t)].on = "detached"
      /\ \A i \in 1..Len(t) : t[i].do = "close" => t[Len(t)].on = "freed"
  BY EndingFacts
<1>5. \A i \in 1..Len(s), j \in 1..Len(t) : Follows(s[i].do, t[j].do)
  BY <1>2, <1>4 DEF Follows, ShutdownSteps, EndReceiver, EndMessages, Releases
<1>6. /\ Body(p) /\ Len(s) \in Nat /\ Len(t) \in Nat /\ Len(p) = Len(s) + Len(t)
      /\ \A i \in 1..Len(s) : i \in 1..Len(p) /\ p[i] = s[i]
      /\ \A i \in 1..Len(t) : Len(s) + i \in 1..Len(p) /\ p[Len(s) + i] = t[i]
      /\ \A i \in 1..Len(p) : i \in 1..Len(s) \/ \E j \in 1..Len(t) : i = Len(s) + j
  <2>0. Body(s) /\ Body(t)
    BY <1>2, <1>3
  <2>1. Body(s \o t) /\ Len(s) \in Nat /\ Len(t) \in Nat
    BY ONLY <1>5, <2>0, ConcatBody
  <2>2. Len(s \o t) = Len(s) + Len(t)
    BY ONLY <1>5, <2>0, ConcatBody
  <2>3. \A i \in 1..Len(s) : i \in 1..Len(s \o t) /\ (s \o t)[i] = s[i]
    BY ONLY <1>5, <2>0, ConcatBody
  <2>4. \A i \in 1..Len(t) : Len(s) + i \in 1..Len(s \o t) /\ (s \o t)[Len(s) + i] = t[i]
    BY ONLY <1>5, <2>0, ConcatBody
  <2>5. \A i \in 1..Len(s \o t) : i \in 1..Len(s) \/ \E j \in 1..Len(t) : i = Len(s) + j
    BY ONLY <1>5, <2>0, ConcatBody
  <2> QED  BY <2>1, <2>2, <2>3, <2>4, <2>5
<1> HIDE DEF p
<1>7. Goal(p) = t[Len(t)].on /\ p # <<>>
  <2>1. Len(t) \in 1..Len(t) /\ Len(p) = Len(s) + Len(t) /\ Len(p) > 0
    BY <1>3, <1>6
  <2>2. p[Len(p)] = t[Len(t)]
    BY <1>6, <2>1
  <2> QED  BY <2>1, <2>2 DEF Goal
<1>8. ASSUME NEW i \in 1..Len(p)
      PROVE  /\ p[i].do = "end" <=> i = Len(p)
             /\ p[i].do \in ShutdownSteps \cup {"end"}
             /\ p[i].do = "unsink" => t[Len(t)].on = "detached"
             /\ p[i].do = "close" => which # "mqtt" \/ t[Len(t)].on = "freed"
  <2>1. CASE i \in 1..Len(s)
    <3>1. i # Len(p)
      BY <1>3, <1>6, <2>1
    <3>2. p[i].do \in ShutdownSteps \ {"unsink"}
      BY <1>2, <1>6, <2>1
    <3>3. which = "mqtt" => p[i].do # "close"
      BY <1>2, <1>6, <2>1
    <3> QED  BY <3>1, <3>2, <3>3 DEF ShutdownSteps, EndReceiver, EndMessages, Releases
  <2>2. ASSUME NEW j \in 1..Len(t), i = Len(s) + j
        PROVE  /\ p[i].do = "end" <=> i = Len(p)
               /\ p[i].do \in ShutdownSteps \cup {"end"}
               /\ p[i].do = "unsink" => t[Len(t)].on = "detached"
               /\ p[i].do = "close" => which # "mqtt" \/ t[Len(t)].on = "freed"
    <3>1. p[i] = t[j]
      BY <1>6, <2>2
    <3>2. i = Len(p) <=> j = Len(t)
      <4>1. \A m, n \in Nat : \A k \in 1..n : m + k = m + n <=> k = n
        OBVIOUS
      <4>2. Len(s) \in Nat /\ Len(t) \in Nat /\ Len(p) = Len(s) + Len(t)
        BY <1>6
      <4> QED  BY <2>2, <4>1, <4>2
    <3> QED  BY <1>4, <3>1, <3>2 DEF ShutdownSteps, Releases
  <2> QED  BY <1>6, <2>1, <2>2
<1>9. \A i \in 1..Len(p) : p[i].do \notin AttachSteps
  BY <1>8 DEF AttachSteps, ShutdownSteps, EndReceiver, EndMessages, Releases
<1>10. Proper(p)
  BY <1>3, <1>6, <1>7, <1>8, <1>9 DEF Proper, Outcomes
<1>11. ShutsDown(p)
  <2>1. Threaded => \E i \in 1..Len(p) : p[i].do \in EndReceiver
    BY <1>2, <1>6 DEF ShutsDown
  <2>2. ~Threaded => \E i \in 1..Len(p) : p[i].do \in EndMessages
    BY <1>2, <1>6 DEF ShutsDown
  <2>3. ASSUME which # "mqtt", NEW h \in Handles
        PROVE  \E i \in 1..Len(p) : Ends(p[i], h)
    BY <1>2, <1>6, <2>3 DEF ShutsDown
  <2>4. which # "mqtt" => \E i \in 1..Len(p) : p[i].do = "offline"
    BY <1>2, <1>6 DEF ShutsDown
  <2> QED  BY <2>1, <2>2, <2>3, <2>4 DEF ShutsDown
<1> QED  BY <1>1, <1>7, <1>9, <1>10, <1>11 DEF p

\* The steps of attach(), in order: the receiver last.
Attaches(p) ==
    /\ p \in Seq(Step) /\ Len(p) > 0 /\ p[Len(p)].on = "attached"
    /\ \A i \in 1..Len(p) : p[i].do \in AttachSteps \cup {"end"}
    /\ \A i \in 1..Len(p) : p[i].do = "end" <=> i = Len(p)
    /\ \A i \in 1..Len(p) : p[i].do = "spawn" => Threaded
    /\ \A i \in 1..Len(p) : p[i].do = "spawn" => Hearing
    /\ \A i \in 1..Len(p) : p[i].do = "online" => which # "mqtt"
    /\ \A i \in 1..Len(p) : p[i].do = "subscribe" => ~Threaded
    /\ \A i, j \in 1..Len(p) :
          i < j /\ p[i].do \in {"spawn", "subscribe"} => p[j].do \in {"online", "end"}
    /\ \A i \in 1..Len(p) : p[i].do = "connect" => i < Len(p) /\ p[i + 1].do = "subscribe"

\* They are a proper program.
LEMMA AttachBody ==
    ASSUME NEW p, Attaches(p)
    PROVE  Proper(p) /\ Goal(p) = "attached" /\ p # <<>>
<1> USE DEF Attaches
<1>1. \A i \in 1..Len(p) : p[i].do \notin ShutdownSteps
  BY DEF AttachSteps, ShutdownSteps, EndReceiver, EndMessages, Releases
<1>2. \A i \in 1..Len(p) : p[i].do \in {"spawn", "stop", "join"} => Threaded
  BY <1>1 DEF ShutdownSteps, EndReceiver
<1>3. \A i \in 1..Len(p) : p[i].do \in {"subscribe"} \cup EndMessages => ~Threaded
  BY <1>1 DEF ShutdownSteps, EndReceiver
<1>4. \A i, j \in 1..Len(p) : i < j => Follows(p[i].do, p[j].do)
  BY <1>1 DEF Follows, ShutdownSteps, EndReceiver
<1>5. \A i \in 1..Len(p) : p[i].do \in {"online", "offline"} => which # "mqtt"
  BY <1>1 DEF ShutdownSteps, Releases
<1>6. Body(p)
  BY <1>2, <1>3, <1>4, <1>5 DEF Body
<1>7. \A i \in 1..Len(p) : p[i].do \notin {"unsink", "close"}
  BY <1>1 DEF ShutdownSteps, Releases
<1>8. Goal(p) = "attached" /\ p # <<>>
  BY DEF Goal
<1> QED  BY <1>1, <1>6, <1>7, <1>8 DEF Proper, Outcomes

\* The steps of attach()
LEMMA StepTypes ==
    /\ \A s \in AttachSteps : Do(s) \in Step
    /\ \A h \in Names : Make(h) \in Step
    /\ \A o \in Outcomes : End(o) \in Step
    /\ {"context", "connect", "subscribe", "online", "spawn"} \subseteq AttachSteps
    /\ "attached" \in Outcomes
    /\ {"outbound", "inbound", "shutdown_sub", "shutdown_pub", "publisher", "subscriber_conn",
        "subscriber", "opts", "conn"} \subseteq Names
  BY DEF Do, Make, End, Step, Names, Outcomes, AttachSteps

\* The program of attach() is proper, and it makes what the receiver needs.
LEMMA AttachProper ==
    ASSUME which \in Adapters, NEW p, p = AttachProgram
    PROVE  /\ Proper(p) /\ Goal(p) = "attached" /\ p # <<>>
           /\ \A i \in 1..Len(p) : p[i].do \notin ShutdownSteps
           /\ \A i \in 1..Len(p) : p[i].do = "make" => p[i].on \in Handles \ {"sub", "subtok"}
           /\ Hearing => \A h \in Polled : \E i \in 1..Len(p) : p[i] = Make(h)
<1>1. which \in {"zmq", "redis", "nats", "mqtt"}
  BY AdaptersAssumption
<1>2. CASE which = "zmq"
  <2>1. CASE "outbound" \in ends /\ "inbound" \in ends
    <3>0. p = <<Do("context")>> \o (<<Make("outbound")>> \o
              <<Make("inbound"), Make("shutdown_sub"), Make("shutdown_pub")>>) \o
              <<Do("online"), Do("spawn"), End("attached")>>
      BY <1>2, <2>1 DEF AttachProgram, Of, Zmq!AttachProgram, Zmq!Sockets, Zmq!Do, Zmq!End,
         Zmq!Make, Do, Make, End
    <3>20. p[1] = Do("context")
      BY <3>0, StepTypes
    <3>21. p[2] = Make("outbound")
      BY <3>0, StepTypes
    <3>22. p[3] = Make("inbound")
      BY <3>0, StepTypes
    <3>23. p[4] = Make("shutdown_sub")
      BY <3>0, StepTypes
    <3>24. p[5] = Make("shutdown_pub")
      BY <3>0, StepTypes
    <3>25. p[6] = Do("online")
      BY <3>0, StepTypes
    <3>26. p[7] = Do("spawn")
      BY <3>0, StepTypes
    <3>27. p[8] = End("attached")
      BY <3>0, StepTypes
    <3>1. /\ p[1] = Do("context") /\ p[2] = Make("outbound") /\ p[3] = Make("inbound")
          /\ p[4] = Make("shutdown_sub") /\ p[5] = Make("shutdown_pub") /\ p[6] = Do("online")
          /\ p[7] = Do("spawn") /\ p[8] = End("attached")
      BY <3>20, <3>21, <3>22, <3>23, <3>24, <3>25, <3>26, <3>27
    <3>2. p \in Seq(Step) /\ Len(p) = 8
      BY <3>0, StepTypes
    <3>3. \A i \in 1..8 : p[i].do \in AttachSteps \cup {"end"}
      BY <3>1 DEF Do, Make, End, AttachSteps
    <3>4. p[8].on = "attached" /\ \A i \in 1..8 : p[i].do = "end" <=> i = 8
      BY <3>1 DEF Do, Make, End
    <3>5. /\ \A i \in 1..8 : p[i].do = "spawn" => Threaded
          /\ \A i \in 1..8 : p[i].do = "spawn" => Hearing
          /\ \A i \in 1..8 : p[i].do = "subscribe" => ~Threaded
          /\ \A i \in 1..8 : p[i].do = "online" => which # "mqtt"
      BY <1>2, <2>1, <3>1 DEF Do, Make, End, Threaded, Hearing
    <3>6. \A i, j \in 1..8 :
             i < j /\ p[i].do \in {"spawn", "subscribe"} => p[j].do \in {"online", "end"}
      BY <3>1 DEF Do, Make, End
    <3>7. \A i \in 1..8 : p[i].do = "connect" => i < 8 /\ p[i + 1].do = "subscribe"
      BY <3>1 DEF Do, Make, End
    <3>8. Proper(p) /\ Goal(p) = "attached" /\ p # <<>>
      <4>1. Attaches(p)
        BY <3>2, <3>3, <3>4, <3>5, <3>6, <3>7 DEF Attaches
      <4> QED  BY <4>1, AttachBody
    <3>9. \A i \in 1..8 : p[i].do = "make" => p[i].on \in Handles \ {"sub", "subtok"}
      BY <1>2, <2>1, <3>1 DEF Do, Make, End, Handles, Of
    <3>10. Hearing => \A h \in Polled : \E i \in 1..8 : p[i] = Make(h)
      BY <1>2, <2>1, <3>1 DEF Do, Make, End, Hearing, Polled, Of, Zmq!Polled
    <3>12. \A i \in 1..8 : p[i].do \notin ShutdownSteps
      BY <3>3 DEF AttachSteps, ShutdownSteps, EndReceiver, EndMessages, Releases
    <3> QED  BY <3>2, <3>8, <3>9, <3>10, <3>12
  <2>2. CASE "outbound" \in ends /\ "inbound" \notin ends
    <3>0. p = <<Do("context")>> \o (<<Make("outbound")>> \o <<>>) \o
              <<Do("online"), End("attached")>>
      BY <1>2, <2>2 DEF AttachProgram, Of, Zmq!AttachProgram, Zmq!Sockets, Zmq!Do, Zmq!End,
         Zmq!Make, Do, Make, End
    <3>20. p[1] = Do("context")
      BY <3>0, StepTypes
    <3>21. p[2] = Make("outbound")
      BY <3>0, StepTypes
    <3>22. p[3] = Do("online")
      BY <3>0, StepTypes
    <3>23. p[4] = End("attached")
      BY <3>0, StepTypes
    <3>1. /\ p[1] = Do("context") /\ p[2] = Make("outbound") /\ p[3] = Do("online")
          /\ p[4] = End("attached")
      BY <3>20, <3>21, <3>22, <3>23
    <3>2. p \in Seq(Step) /\ Len(p) = 4
      BY <3>0, StepTypes
    <3>3. \A i \in 1..4 : p[i].do \in AttachSteps \cup {"end"}
      BY <3>1 DEF Do, Make, End, AttachSteps
    <3>4. p[4].on = "attached" /\ \A i \in 1..4 : p[i].do = "end" <=> i = 4
      BY <3>1 DEF Do, Make, End
    <3>5. /\ \A i \in 1..4 : p[i].do = "spawn" => Threaded
          /\ \A i \in 1..4 : p[i].do = "spawn" => Hearing
          /\ \A i \in 1..4 : p[i].do = "subscribe" => ~Threaded
          /\ \A i \in 1..4 : p[i].do = "online" => which # "mqtt"
      BY <1>2, <2>2, <3>1 DEF Do, Make, End, Threaded, Hearing
    <3>6. \A i, j \in 1..4 :
             i < j /\ p[i].do \in {"spawn", "subscribe"} => p[j].do \in {"online", "end"}
      BY <3>1 DEF Do, Make, End
    <3>7. \A i \in 1..4 : p[i].do = "connect" => i < 4 /\ p[i + 1].do = "subscribe"
      BY <3>1 DEF Do, Make, End
    <3>8. Proper(p) /\ Goal(p) = "attached" /\ p # <<>>
      <4>1. Attaches(p)
        BY <3>2, <3>3, <3>4, <3>5, <3>6, <3>7 DEF Attaches
      <4> QED  BY <4>1, AttachBody
    <3>9. \A i \in 1..4 : p[i].do = "make" => p[i].on \in Handles \ {"sub", "subtok"}
      BY <1>2, <2>2, <3>1 DEF Do, Make, End, Handles, Of
    <3>10. Hearing => \A h \in Polled : \E i \in 1..4 : p[i] = Make(h)
      BY <1>2, <2>2, <3>1 DEF Do, Make, End, Hearing, Polled, Of, Zmq!Polled
    <3>12. \A i \in 1..4 : p[i].do \notin ShutdownSteps
      BY <3>3 DEF AttachSteps, ShutdownSteps, EndReceiver, EndMessages, Releases
    <3> QED  BY <3>2, <3>8, <3>9, <3>10, <3>12
  <2>3. CASE "outbound" \notin ends /\ "inbound" \in ends
    <3>0. p = <<Do("context")>> \o (<<>> \o
              <<Make("inbound"), Make("shutdown_sub"), Make("shutdown_pub")>>) \o
              <<Do("online"), Do("spawn"), End("attached")>>
      BY <1>2, <2>3 DEF AttachProgram, Of, Zmq!AttachProgram, Zmq!Sockets, Zmq!Do, Zmq!End,
         Zmq!Make, Do, Make, End
    <3>20. p[1] = Do("context")
      BY <3>0, StepTypes
    <3>21. p[2] = Make("inbound")
      BY <3>0, StepTypes
    <3>22. p[3] = Make("shutdown_sub")
      BY <3>0, StepTypes
    <3>23. p[4] = Make("shutdown_pub")
      BY <3>0, StepTypes
    <3>24. p[5] = Do("online")
      BY <3>0, StepTypes
    <3>25. p[6] = Do("spawn")
      BY <3>0, StepTypes
    <3>26. p[7] = End("attached")
      BY <3>0, StepTypes
    <3>1. /\ p[1] = Do("context") /\ p[2] = Make("inbound") /\ p[3] = Make("shutdown_sub")
          /\ p[4] = Make("shutdown_pub") /\ p[5] = Do("online") /\ p[6] = Do("spawn")
          /\ p[7] = End("attached")
      BY <3>20, <3>21, <3>22, <3>23, <3>24, <3>25, <3>26
    <3>2. p \in Seq(Step) /\ Len(p) = 7
      BY <3>0, StepTypes
    <3>3. \A i \in 1..7 : p[i].do \in AttachSteps \cup {"end"}
      BY <3>1 DEF Do, Make, End, AttachSteps
    <3>4. p[7].on = "attached" /\ \A i \in 1..7 : p[i].do = "end" <=> i = 7
      BY <3>1 DEF Do, Make, End
    <3>5. /\ \A i \in 1..7 : p[i].do = "spawn" => Threaded
          /\ \A i \in 1..7 : p[i].do = "spawn" => Hearing
          /\ \A i \in 1..7 : p[i].do = "subscribe" => ~Threaded
          /\ \A i \in 1..7 : p[i].do = "online" => which # "mqtt"
      BY <1>2, <2>3, <3>1 DEF Do, Make, End, Threaded, Hearing
    <3>6. \A i, j \in 1..7 :
             i < j /\ p[i].do \in {"spawn", "subscribe"} => p[j].do \in {"online", "end"}
      BY <3>1 DEF Do, Make, End
    <3>7. \A i \in 1..7 : p[i].do = "connect" => i < 7 /\ p[i + 1].do = "subscribe"
      BY <3>1 DEF Do, Make, End
    <3>8. Proper(p) /\ Goal(p) = "attached" /\ p # <<>>
      <4>1. Attaches(p)
        BY <3>2, <3>3, <3>4, <3>5, <3>6, <3>7 DEF Attaches
      <4> QED  BY <4>1, AttachBody
    <3>9. \A i \in 1..7 : p[i].do = "make" => p[i].on \in Handles \ {"sub", "subtok"}
      BY <1>2, <2>3, <3>1 DEF Do, Make, End, Handles, Of
    <3>10. Hearing => \A h \in Polled : \E i \in 1..7 : p[i] = Make(h)
      BY <1>2, <2>3, <3>1 DEF Do, Make, End, Hearing, Polled, Of, Zmq!Polled
    <3>12. \A i \in 1..7 : p[i].do \notin ShutdownSteps
      BY <3>3 DEF AttachSteps, ShutdownSteps, EndReceiver, EndMessages, Releases
    <3> QED  BY <3>2, <3>8, <3>9, <3>10, <3>12
  <2>4. CASE "outbound" \notin ends /\ "inbound" \notin ends
    <3>0. p = <<Do("context")>> \o (<<>> \o <<>>) \o <<Do("online"), End("attached")>>
      BY <1>2, <2>4 DEF AttachProgram, Of, Zmq!AttachProgram, Zmq!Sockets, Zmq!Do, Zmq!End,
         Zmq!Make, Do, Make, End
    <3>20. p[1] = Do("context")
      BY <3>0, StepTypes
    <3>21. p[2] = Do("online")
      BY <3>0, StepTypes
    <3>22. p[3] = End("attached")
      BY <3>0, StepTypes
    <3>1. p[1] = Do("context") /\ p[2] = Do("online") /\ p[3] = End("attached")
      BY <3>20, <3>21, <3>22
    <3>2. p \in Seq(Step) /\ Len(p) = 3
      BY <3>0, StepTypes
    <3>3. \A i \in 1..3 : p[i].do \in AttachSteps \cup {"end"}
      BY <3>1 DEF Do, Make, End, AttachSteps
    <3>4. p[3].on = "attached" /\ \A i \in 1..3 : p[i].do = "end" <=> i = 3
      BY <3>1 DEF Do, Make, End
    <3>5. /\ \A i \in 1..3 : p[i].do = "spawn" => Threaded
          /\ \A i \in 1..3 : p[i].do = "spawn" => Hearing
          /\ \A i \in 1..3 : p[i].do = "subscribe" => ~Threaded
          /\ \A i \in 1..3 : p[i].do = "online" => which # "mqtt"
      BY <1>2, <2>4, <3>1 DEF Do, Make, End, Threaded, Hearing
    <3>6. \A i, j \in 1..3 :
             i < j /\ p[i].do \in {"spawn", "subscribe"} => p[j].do \in {"online", "end"}
      BY <3>1 DEF Do, Make, End
    <3>7. \A i \in 1..3 : p[i].do = "connect" => i < 3 /\ p[i + 1].do = "subscribe"
      BY <3>1 DEF Do, Make, End
    <3>8. Proper(p) /\ Goal(p) = "attached" /\ p # <<>>
      <4>1. Attaches(p)
        BY <3>2, <3>3, <3>4, <3>5, <3>6, <3>7 DEF Attaches
      <4> QED  BY <4>1, AttachBody
    <3>9. \A i \in 1..3 : p[i].do = "make" => p[i].on \in Handles \ {"sub", "subtok"}
      BY <1>2, <2>4, <3>1 DEF Do, Make, End, Handles, Of
    <3>10. Hearing => \A h \in Polled : \E i \in 1..3 : p[i] = Make(h)
      BY <1>2, <2>4, <3>1 DEF Do, Make, End, Hearing, Polled, Of, Zmq!Polled
    <3>12. \A i \in 1..3 : p[i].do \notin ShutdownSteps
      BY <3>3 DEF AttachSteps, ShutdownSteps, EndReceiver, EndMessages, Releases
    <3> QED  BY <3>2, <3>8, <3>9, <3>10, <3>12
  <2> QED  BY <2>1, <2>2, <2>3, <2>4
<1>3. CASE which = "redis"
  <2>1. p = <<Make("publisher"), Make("subscriber_conn"), Make("subscriber"), Do("online"),
              Do("spawn"), End("attached")>>
    BY <1>3 DEF AttachProgram, Of, Redis!AttachProgram, Redis!Do, Redis!End, Redis!Make, Do,
       Make, End
  <2>2. p \in Seq(Step) /\ Len(p) = 6
    BY <2>1, StepTypes
  <2>3. \A i \in 1..6 : p[i].do \in AttachSteps \cup {"end"}
    BY <2>1 DEF Do, Make, End, AttachSteps
  <2>4. p[6].on = "attached" /\ \A i \in 1..6 : p[i].do = "end" <=> i = 6
    BY <2>1 DEF Do, Make, End
  <2>5. /\ \A i \in 1..6 : p[i].do = "spawn" => Threaded
        /\ \A i \in 1..6 : p[i].do = "spawn" => Hearing
        /\ \A i \in 1..6 : p[i].do = "subscribe" => ~Threaded
        /\ \A i \in 1..6 : p[i].do = "online" => which # "mqtt"
    BY <1>3, <2>1 DEF Do, Make, End, Threaded, Hearing
  <2>6. \A i, j \in 1..6 :
           i < j /\ p[i].do \in {"spawn", "subscribe"} => p[j].do \in {"online", "end"}
    BY <2>1 DEF Do, Make, End
  <2>7. \A i \in 1..6 : p[i].do = "connect" => i < 6 /\ p[i + 1].do = "subscribe"
    BY <2>1 DEF Do, Make, End
  <2>8. Proper(p) /\ Goal(p) = "attached" /\ p # <<>>
    <3>1. Attaches(p)
      BY <2>2, <2>3, <2>4, <2>5, <2>6, <2>7 DEF Attaches
    <3> QED  BY <3>1, AttachBody
  <2>9. \A i \in 1..6 : p[i].do = "make" => p[i].on \in Handles \ {"sub", "subtok"}
    BY <1>3, <2>1 DEF Do, Make, End, Handles, Of
  <2>10. Hearing => \A h \in Polled : \E i \in 1..6 : p[i] = Make(h)
    BY <1>3, <2>1 DEF Do, Make, End, Hearing, Polled, Of, Redis!Polled
  <2>12. \A i \in 1..6 : p[i].do \notin ShutdownSteps
    BY <2>3 DEF AttachSteps, ShutdownSteps, EndReceiver, EndMessages, Releases
  <2> QED  BY <2>2, <2>8, <2>9, <2>10, <2>12
<1>4. CASE which = "nats"
  <2>1. p = <<Make("opts"), Make("conn"), Do("subscribe"), Do("online"), End("attached")>>
    BY <1>4 DEF AttachProgram, Of, Nats!AttachProgram, Nats!Do, Nats!End, Nats!Make, Do, Make,
       End
  <2>2. p \in Seq(Step) /\ Len(p) = 5
    BY <2>1, StepTypes
  <2>3. \A i \in 1..5 : p[i].do \in AttachSteps \cup {"end"}
    BY <2>1 DEF Do, Make, End, AttachSteps
  <2>4. p[5].on = "attached" /\ \A i \in 1..5 : p[i].do = "end" <=> i = 5
    BY <2>1 DEF Do, Make, End
  <2>5. /\ \A i \in 1..5 : p[i].do = "spawn" => Threaded
        /\ \A i \in 1..5 : p[i].do = "spawn" => Hearing
        /\ \A i \in 1..5 : p[i].do = "subscribe" => ~Threaded
        /\ \A i \in 1..5 : p[i].do = "online" => which # "mqtt"
    BY <1>4, <2>1 DEF Do, Make, End, Threaded, Hearing
  <2>6. \A i, j \in 1..5 :
           i < j /\ p[i].do \in {"spawn", "subscribe"} => p[j].do \in {"online", "end"}
    BY <2>1 DEF Do, Make, End
  <2>7. \A i \in 1..5 : p[i].do = "connect" => i < 5 /\ p[i + 1].do = "subscribe"
    BY <2>1 DEF Do, Make, End
  <2>8. Proper(p) /\ Goal(p) = "attached" /\ p # <<>>
    <3>1. Attaches(p)
      BY <2>2, <2>3, <2>4, <2>5, <2>6, <2>7 DEF Attaches
    <3> QED  BY <3>1, AttachBody
  <2>9. \A i \in 1..5 : p[i].do = "make" => p[i].on \in Handles \ {"sub", "subtok"}
    BY <1>4, <2>1 DEF Do, Make, End, Handles, Of
  <2>10. Hearing => \A h \in Polled : \E i \in 1..5 : p[i] = Make(h)
    BY <1>4, <2>1 DEF Do, Make, End, Hearing, Polled, Of, Nats!Polled
  <2>12. \A i \in 1..5 : p[i].do \notin ShutdownSteps
    BY <2>3 DEF AttachSteps, ShutdownSteps, EndReceiver, EndMessages, Releases
  <2> QED  BY <2>2, <2>8, <2>9, <2>10, <2>12
<1>5. CASE which = "mqtt"
  <2>1. p = <<Do("connect"), Do("subscribe"), End("attached")>>
    BY <1>5 DEF AttachProgram, Of, Mqtt!AttachProgram, Mqtt!Do, Mqtt!End, Do, Make, End
  <2>2. p \in Seq(Step) /\ Len(p) = 3
    BY <2>1, StepTypes
  <2>3. \A i \in 1..3 : p[i].do \in AttachSteps \cup {"end"}
    BY <2>1 DEF Do, Make, End, AttachSteps
  <2>4. p[3].on = "attached" /\ \A i \in 1..3 : p[i].do = "end" <=> i = 3
    BY <2>1 DEF Do, Make, End
  <2>5. /\ \A i \in 1..3 : p[i].do = "spawn" => Threaded
        /\ \A i \in 1..3 : p[i].do = "spawn" => Hearing
        /\ \A i \in 1..3 : p[i].do = "subscribe" => ~Threaded
        /\ \A i \in 1..3 : p[i].do = "online" => which # "mqtt"
    BY <1>5, <2>1 DEF Do, Make, End, Threaded, Hearing
  <2>6. \A i, j \in 1..3 :
           i < j /\ p[i].do \in {"spawn", "subscribe"} => p[j].do \in {"online", "end"}
    BY <2>1 DEF Do, Make, End
  <2>7. \A i \in 1..3 : p[i].do = "connect" => i < 3 /\ p[i + 1].do = "subscribe"
    BY <2>1 DEF Do, Make, End
  <2>8. Proper(p) /\ Goal(p) = "attached" /\ p # <<>>
    <3>1. Attaches(p)
      BY <2>2, <2>3, <2>4, <2>5, <2>6, <2>7 DEF Attaches
    <3> QED  BY <3>1, AttachBody
  <2>9. \A i \in 1..3 : p[i].do = "make" => p[i].on \in Handles \ {"sub", "subtok"}
    BY <1>5, <2>1 DEF Do, Make, End, Handles, Of
  <2>10. Hearing => \A h \in Polled : \E i \in 1..3 : p[i] = Make(h)
    BY <1>5, <2>1 DEF Do, Make, End, Hearing, Polled, Of, Mqtt!Polled
  <2>12. \A i \in 1..3 : p[i].do \notin ShutdownSteps
    BY <2>3 DEF AttachSteps, ShutdownSteps, EndReceiver, EndMessages, Releases
  <2> QED  BY <2>2, <2>8, <2>9, <2>10, <2>12
<1> QED  BY <1>1, <1>2, <1>3, <1>4, <1>5

-----------------------------------------------------------------------------
(* Steps of a program *)

\* A step of the program that is not its last.
Advances ==
    /\ prog # <<>> /\ Head(prog).do # "end"
    /\ prog' = Tail(prog)
    /\ UNCHANGED <<which, ends, outcome>>

\* What the bus can tell of a step of the program: it goes on to the same end,
\* unless attach() fails; a nested publish goes on; and what it sends on is only
\* closed when our thread does not run, or the client library has it as well, or
\* the adapter is destroyed.
MayClose == (Threaded /\ recv = "none") \/ which = "nats" \/ Goal(prog) = "freed"

Progresses ==
    /\ UNCHANGED <<using, outcome, which, ends>> /\ prog # <<>> /\ prog' # <<>>
    /\ \/ Goal(prog)' = Goal(prog)
       \/ Goal(prog) = "attached" /\ Goal(prog)' \in {"threw", "unspawned"}
    /\ recv = "nested" => recv' = "nested"
    /\ Outbound \in open => Outbound \in open' \/ MayClose

\* What the adapter at hand stays.
LEMMA SameAdapter ==
    ASSUME UNCHANGED <<which, ends>>
    PROVE  /\ Threaded' = Threaded /\ Hearing' = Hearing /\ Handles' = Handles
           /\ Polled' = Polled /\ Outbound' = Outbound /\ which' = which
  BY DEF Threaded, Hearing, Handles, Polled, Outbound, Of, Zmq!Polled, Redis!Polled,
     Nats!Polled,
         Mqtt!Polled, Zmq!Outbound, Redis!Outbound, Nats!Outbound, Mqtt!Outbound

\* A client library polls for itself.
LEMMA LibraryPolls ==
    ASSUME which \in Adapters, ~Threaded
    PROVE  Polled = {}
  BY AdaptersAssumption DEF Threaded, Polled, Of, Nats!Polled, Mqtt!Polled

\* What is left of a program after a step of it.
LEMMA AdvanceLeft ==
    ASSUME AdapterTypes, Advances
    PROVE  /\ prog' # <<>> /\ Goal(prog)' = Goal(prog) /\ Proper(prog)'
           /\ Attaching' <=> Attaching
           /\ Starting => Starting'
           /\ ~Idle /\ ~Idle'
           /\ \A x : Left(x)' => Left(x)
           /\ \A x : Left(x) => x = Head(prog).do \/ Left(x)'
           /\ Left(Head(prog).do)
           /\ \A i \in 1..Len(prog') : Follows(Head(prog).do, prog'[i].do)
           /\ \A i \in 1..Len(prog') : \E j \in 1..Len(prog) : prog'[i] = prog[j]
           /\ \A i \in 1..Len(prog) :
                 prog[i] = Head(prog) \/ \E j \in 1..Len(prog') : prog'[j] = prog[i]
           /\ Head(prog).do \in AttachSteps => Goal(prog) = "attached"
           /\ Head(prog).do \in ShutdownSteps => Goal(prog) \in {"threw", "detached", "freed"}
<1>1. prog # <<>> /\ Proper(prog)
  BY DEF AdapterTypes, Advances
<1>2. /\ Len(prog) \in Nat /\ Len(prog) > 1 /\ Head(prog) = prog[1]
      /\ prog' # <<>> /\ Len(prog') = Len(prog) - 1
      /\ \A i \in 1..Len(prog') : prog'[i] = prog[i + 1] /\ i + 1 \in 1..Len(prog)
      /\ \A i \in 1..Len(prog) : i # 1 => i - 1 \in 1..Len(prog') /\ prog'[i - 1] = prog[i]
      /\ Goal(prog)' = Goal(prog) /\ Proper(prog)'
  BY <1>1, AdvanceFacts DEF Advances
<1>3. 1 \in 1..Len(prog)
  BY <1>2
<1>4. \A i \in 1..Len(prog') : \E j \in 1..Len(prog) : prog'[i] = prog[j]
  BY <1>2
<1>5. \A i \in 1..Len(prog) :
         prog[i] = Head(prog) \/ \E j \in 1..Len(prog') : prog'[j] = prog[i]
  BY <1>2
<1>6. ASSUME NEW i \in 1..Len(prog')
      PROVE  Follows(Head(prog).do, prog'[i].do)
  <2>1. i + 1 \in 1..Len(prog) /\ prog'[i] = prog[i + 1] /\ 1 < i + 1
    BY <1>2
  <2>2. Follows(prog[1].do, prog[i + 1].do)
    BY <1>1, <1>3, <2>1 DEF Proper, Body
  <2> QED  BY <1>2, <2>1, <2>2
<1>7. \A x : Left(x)' => Left(x)
  BY <1>4 DEF Left
<1>8. \A x : Left(x) => x = Head(prog).do \/ Left(x)'
  BY <1>5 DEF Left
<1>9. Left(Head(prog).do)
  BY <1>2, <1>3 DEF Left
<1>10. /\ Head(prog).do \in AttachSteps => Goal(prog) = "attached"
       /\ Head(prog).do \in ShutdownSteps => Goal(prog) \in {"threw", "detached", "freed"}
  BY <1>1, <1>2, <1>3 DEF Proper
<1>11. Attaching' <=> Attaching
  BY <1>1, <1>2 DEF Attaching
<1>12. ~Idle /\ ~Idle'
  BY <1>1, <1>2 DEF Idle
<1>13. Starting => Starting'
  BY <1>4, <1>11 DEF Starting
<1> QED  BY <1>2, <1>4, <1>5, <1>6, <1>7, <1>8, <1>9, <1>10, <1>11, <1>12, <1>13

\* A step keeps the types if it keeps those of the rest.
LEMMA AdvanceTypes ==
    ASSUME AdapterTypes, Advances,
           open' \subseteq Handles, sink' \in BOOLEAN, connected' \in BOOLEAN,
           recv' \in {"none", "check", "poll", "deliver", "handler", "nested", "report", "ended"},
           stop' \in BOOLEAN, wake' \in BOOLEAN, inbox' \in Nat
    PROVE  AdapterTypes'
<1>1. /\ prog' # <<>> /\ Goal(prog)' = Goal(prog) /\ Proper(prog)'
      /\ \A i \in 1..Len(prog') : \E j \in 1..Len(prog) : prog'[i] = prog[j]
  BY AdvanceLeft
<1>2. /\ which' \in Adapters /\ ends' \in SUBSET {"outbound", "inbound"}
      /\ outcome' \in Outcomes \cup {"none"} /\ outcome' # "freed"
      /\ Goal(prog)' = "detached" <=> outcome' = "attached"
      /\ Goal(prog)' \in {"attached", "threw", "unspawned"} => outcome' # "detached"
  BY <1>1 DEF AdapterTypes, Advances
<1>3. Handles' = Handles
  BY SameAdapter DEF Advances
<1>4. \A i \in 1..Len(prog') :
         prog'[i].do = "make" => prog'[i].on \in Handles' \ {"sub", "subtok"}
  BY <1>1, <1>3 DEF AdapterTypes, Advances
<1> QED  BY <1>1, <1>2, <1>3, <1>4 DEF AdapterTypes

\* Nothing is subscribed while attach() has more to do than connected.store(),
\* nor once a release of a shutdown is next; no thread of ours runs then, and in
\* attach() no callback of the client library.
LEMMA NotRunning ==
    ASSUME AdapterTypes, ReceiverInv, prog # <<>>, Head(prog).do # "end",
           Head(prog).do \in (AttachSteps \ {"online"}) \cup Releases
    PROVE  /\ "sub" \notin open /\ "subtok" \notin open
           /\ Threaded => recv = "none"
           /\ Head(prog).do \in AttachSteps => recv = "none"
<1>1. Proper(prog) /\ prog \in Seq(Step) /\ 1 \in 1..Len(prog) /\ Head(prog) = prog[1]
  BY DEF AdapterTypes, Proper, Body
<1>2. CASE Head(prog).do \in AttachSteps \ {"online"}
  <2>1. Attaching /\ ~Idle /\ outcome \notin {"attached", "detached", "freed"}
    BY <1>1, <1>2 DEF Proper, Attaching, Idle, AdapterTypes
  <2>2. ~Starting
    BY <1>1, <1>2 DEF Starting, AttachSteps
  <2>3. \A steps : ~Live(steps)
    BY <2>1, <2>2 DEF Live
  <2> QED  BY <2>1, <2>2, <2>3 DEF ReceiverInv, Subscribed
<1>3. CASE Head(prog).do \in Releases
  <2>1. ~Attaching /\ ~Idle /\ ~Starting
    BY <1>1, <1>3 DEF Proper, Attaching, Idle, ShutdownSteps, Starting
  <2>2. ASSUME NEW i \in 1..Len(prog), prog[i].do \in EndReceiver \cup EndMessages  PROVE FALSE
    <3>1. i # 1
      BY <1>1, <1>3, <2>2 DEF Releases, EndReceiver, EndMessages
    <3>2. 1 < i
      BY <3>1
    <3>3. Follows(prog[1].do, prog[i].do)
      BY <1>1, <3>2 DEF Proper, Body
    <3> QED  BY <1>1, <1>3, <2>2, <3>3 DEF Follows
  <2>3. ~Live(EndReceiver) /\ ~Live(EndMessages)
    BY <2>1, <2>2 DEF Live, Left
  <2>4. Head(prog).do \notin AttachSteps
    BY <1>3 DEF AttachSteps, Releases
  <2> QED  BY <2>3, <2>4 DEF ReceiverInv, Subscribed
<1> QED  BY <1>2, <1>3

\* Which steps keep the parts of the invariant.
LEMMA KeepsReceiver ==
    ASSUME AdapterTypes, ReceiverInv, Advances, recv' = recv,
           "sub" \in open' <=> "sub" \in open, "subtok" \in open' <=> "subtok" \in open,
           Threaded /\ recv # "none" => sink', Attaching => sink',
           Head(prog).do \notin EndReceiver \cup EndMessages
    PROVE  ReceiverInv'
<1>1. Threaded' = Threaded
  BY SameAdapter DEF Advances
<1>2. /\ Attaching' <=> Attaching
      /\ Starting => Starting'
      /\ ~Idle
      /\ \A x : Left(x) => x = Head(prog).do \/ Left(x)'
  BY AdvanceLeft
<1>3. outcome' = outcome
  BY DEF Advances
<1>4. Live(EndReceiver) => Live(EndReceiver)'
  BY <1>2, <1>3 DEF Live, EndReceiver
<1>5. Live(EndMessages) => Live(EndMessages)'
  BY <1>2, <1>3 DEF Live, EndMessages
<1> QED  BY <1>1, <1>2, <1>3, <1>4, <1>5 DEF ReceiverInv, Subscribed

\* The same while no receiver runs.
LEMMA KeepsStopped ==
    ASSUME AdapterTypes, Advances, recv' = "none", "sub" \notin open', "subtok" \notin open',
           Attaching => sink'
    PROVE  ReceiverInv'
<1>1. Attaching' <=> Attaching
  BY AdvanceLeft
<1> QED  BY <1>1 DEF ReceiverInv, Subscribed

\* A last step of attach() that can fail: the receiver or the subscription starts.
LEMMA KeepsStarting ==
    ASSUME AdapterTypes, ReceiverInv, Advances, Head(prog).do \in {"spawn", "subscribe"},
           sink' = sink
    PROVE  Starting' /\ Attaching' /\ sink'
<1>1. sink /\ Attaching
  BY AdvanceLeft DEF ReceiverInv, AttachSteps, Attaching, Advances
<1>2. \A i \in 1..Len(prog') : prog'[i].do \in {"online", "end"}
  BY AdvanceLeft DEF Follows
<1>3. Attaching'
  BY <1>1, AdvanceLeft
<1> QED  BY <1>1, <1>2, <1>3 DEF Starting

\* The subscription ends, and with it the wait for the next message; a callback
\* of the client library may go on.
LEMMA KeepsCallback ==
    ASSUME AdapterTypes, ReceiverInv, Advances, ~Threaded, ~Attaching,
           "sub" \notin open', "subtok" \notin open',
           recv' = IF recv \in {"deliver", "handler", "nested", "report"} THEN recv ELSE "none"
    PROVE  ReceiverInv'
<1>1. Threaded' = Threaded
  BY SameAdapter DEF Advances
<1>2. ~Attaching' /\ outcome' = outcome /\ ~Starting
  BY AdvanceLeft DEF Advances, Starting
<1>3. recv' # "none" => recv # "none" /\ recv' \notin {"poll", "check", "ended"}
  OBVIOUS
<1> QED  BY <1>1, <1>2, <1>3 DEF ReceiverInv, Subscribed

\* A step that takes nothing away from the receiver keeps what it polls.
LEMMA KeepsPolled ==
    ASSUME AdapterTypes, PolledInv, Advances,
           recv' \notin {"none", "ended"} => Polled \subseteq open',
           Attaching => \A h \in Polled : \/ h \in open'
                                          \/ h \notin open /\ Head(prog) # Make(h)
    PROVE  PolledInv'
<1>1. Hearing' = Hearing /\ Polled' = Polled
  BY SameAdapter DEF Advances
<1>2. /\ Attaching' <=> Attaching
      /\ \A i \in 1..Len(prog) :
            prog[i] = Head(prog) \/ \E j \in 1..Len(prog') : prog'[j] = prog[i]
  BY AdvanceLeft
<1>3. ASSUME Attaching, Hearing, NEW h \in Polled
      PROVE  h \in open' \/ \E i \in 1..Len(prog') : prog'[i] = Make(h)
  <2>1. CASE h \notin open'
    <3>1. h \notin open /\ Head(prog) # Make(h)
      BY <1>3, <2>1
    <3>2. PICK i \in 1..Len(prog) : prog[i] = Make(h)
      BY <1>3, <3>1 DEF PolledInv
    <3> QED  BY <1>2, <3>1, <3>2
  <2> QED  BY <2>1
<1>4. \A h : Make(h)' = Make(h)
  BY DEF Make
<1> QED  BY <1>1, <1>2, <1>3, <1>4 DEF PolledInv

\* A step that makes nothing new leaves no more to be released.
LEMMA KeepsRelease ==
    ASSUME AdapterTypes, ReleaseInv, Advances,
           inbox' # 0 => open' \cap {"inbound", "subscriber", "sub"} # {},
           ~Attaching => /\ \A h \in open' : h \in open /\ ~Ends(Head(prog), h)
                         /\ connected' => connected /\ Head(prog).do # "offline"
    PROVE  ReleaseInv'
<1>1. /\ prog' # <<>> /\ Goal(prog)' = Goal(prog) /\ prog # <<>> /\ which' = which
      /\ \A x : Left(x) => x = Head(prog).do \/ Left(x)'
      /\ \A i \in 1..Len(prog) :
            prog[i] = Head(prog) \/ \E j \in 1..Len(prog') : prog'[j] = prog[i]
  BY AdvanceLeft DEF Advances
<1>2. ASSUME which # "mqtt", Goal(prog) \in {"threw", "detached"}
      PROVE  /\ \A h \in open' : \E i \in 1..Len(prog') : Ends(prog'[i], h)
             /\ connected' => Left("offline")'
  <2>1. ~Attaching
    BY <1>2 DEF Attaching
  <2>2. ASSUME NEW h \in open'
        PROVE  \E i \in 1..Len(prog') : Ends(prog'[i], h)
    <3>1. PICK i \in 1..Len(prog) : Ends(prog[i], h)
      BY <1>1, <1>2, <2>1 DEF ReleaseInv
    <3>2. prog[i] # Head(prog)
      BY <2>1, <3>1
    <3> QED  BY <1>1, <3>1, <3>2
  <2>3. ASSUME connected'  PROVE Left("offline")'
    BY <1>1, <1>2, <2>1, <2>3 DEF ReleaseInv
  <2> QED  BY <2>2, <2>3
<1>3. \A s, h : Ends(s, h)' <=> Ends(s, h)
  BY DEF Ends, Close, Do
<1> QED  BY <1>1, <1>2, <1>3 DEF ReleaseInv

\* A step that shuts down is not one of attach().
LEMMA NotAttaching ==
    ASSUME AdapterTypes, Advances, Head(prog).do \in ShutdownSteps
    PROVE  ~Attaching /\ Goal(prog) \in {"threw", "detached", "freed"}
  BY AdvanceLeft DEF Attaching

\* A handle is made: the receiver does not run yet.
LEMMA StepMakeHandle ==
    ASSUME AdapterInv, MakeHandle
    PROVE  AdapterInv' /\ Progresses
<1> USE DEF AdapterInv
<1>1. Advances
  BY DEF Advances, MakeHandle, At, object, receiver
<1>2. Threaded' = Threaded /\ Hearing' = Hearing /\ Handles' = Handles /\ Polled' = Polled
  BY <1>1, SameAdapter DEF Advances
<1>3. Head(prog).do = "make" /\ prog # <<>> /\ Proper(prog)
  BY DEF MakeHandle, At, object, receiver, AdapterTypes
<1>4. prog \in Seq(Step) /\ 1 \in 1..Len(prog) /\ Head(prog) = prog[1]
  BY <1>3 DEF Proper, Body
<1>5. recv = "none" /\ "sub" \notin open /\ "subtok" \notin open
  BY <1>1, <1>3, NotRunning DEF Advances, AttachSteps, Releases
<1>6. AdapterTypes'
  BY <1>1, <1>3, <1>4, AdvanceTypes DEF MakeHandle, At, object, receiver, AdapterTypes, Handles,
     Of
<1>7. ReceiverInv'
  <2>1. recv' = "none" /\ "sub" \notin open' /\ "subtok" \notin open' /\ (Attaching => sink')
    BY <1>3, <1>4, <1>5 DEF MakeHandle, At, object, receiver, ReceiverInv, AdapterTypes
  <2> QED  BY <1>1, <2>1, KeepsStopped
<1>8. PolledInv'
  <2>1. recv' \notin {"none", "ended"} => Polled \subseteq open'
    BY <1>5, <1>3 DEF MakeHandle, At, object, receiver, PolledInv
  <2>2. \A h \in Polled : h \in open' \/ (h \notin open /\ Head(prog) # Make(h))
    BY <1>3 DEF MakeHandle, At, object, receiver, Make
  <2> QED  BY <1>1, <2>1, <2>2, KeepsPolled
<1>9. ReleaseInv'
  <2>1. inbox' # 0 => open' \cap {"inbound", "subscriber", "sub"} # {}
    BY <1>3, <1>4, <1>5 DEF MakeHandle, At, object, receiver, ReleaseInv, AdapterTypes
  <2>2. Attaching
    BY <1>1, <1>3, AdvanceLeft DEF AttachSteps, Attaching, Advances
  <2> QED  BY <1>1, <2>1, <2>2, KeepsRelease
<1>11. Progresses
  <2>1. prog' # <<>> /\ Goal(prog)' = Goal(prog)
    BY <1>1, AdvanceLeft
  <2>2. recv = "nested" => recv' = "nested"
    BY <1>5, <1>3 DEF MakeHandle, At, object, receiver
  <2>3. Outbound \in open => Outbound \in open' \/ MayClose
    BY <1>5, <1>3 DEF MakeHandle, At, object, receiver
  <2> QED  BY <1>3, <2>1, <2>2, <2>3 DEF Progresses, MakeHandle, At, object, receiver
<1> QED  BY <1>6, <1>7, <1>8, <1>9, <1>11

\* A handle is closed: the receiver does not run any more.
LEMMA StepCloseHandle ==
    ASSUME AdapterInv, CloseHandle
    PROVE  AdapterInv' /\ Progresses
<1> USE DEF AdapterInv
<1>1. Advances
  BY DEF Advances, CloseHandle, At, object, receiver
<1>2. Threaded' = Threaded /\ Hearing' = Hearing /\ Handles' = Handles /\ Polled' = Polled
  BY <1>1, SameAdapter DEF Advances
<1>3. Head(prog).do = "close" /\ prog # <<>> /\ Proper(prog)
  BY DEF CloseHandle, At, object, receiver, AdapterTypes
<1>4. prog \in Seq(Step) /\ 1 \in 1..Len(prog) /\ Head(prog) = prog[1]
  BY <1>3 DEF Proper, Body
<1>5. "sub" \notin open /\ "subtok" \notin open /\ (Threaded => recv = "none")
  BY <1>1, <1>3, NotRunning DEF Advances, AttachSteps, Releases
<1>6. ~Attaching
  BY <1>1, <1>3, NotAttaching DEF ShutdownSteps, EndReceiver, EndMessages, Releases
<1>7. AdapterTypes'
  BY <1>1, <1>3, <1>4, AdvanceTypes DEF CloseHandle, At, object, receiver, AdapterTypes,
     Handles, Of
<1>8. ReceiverInv'
  <2>1. recv' = recv /\ "sub" \notin open' /\ "subtok" \notin open'
    BY <1>3, <1>4, <1>5, <1>6 DEF CloseHandle, At, object, receiver, ReceiverInv, AdapterTypes
  <2>2. Head(prog).do \notin EndReceiver \cup EndMessages
    BY <1>3 DEF EndReceiver, EndMessages
  <2> QED  BY <1>1, <1>5, <1>6, <2>1, <2>2, KeepsReceiver
<1>9. PolledInv'
  <2>1. recv' \notin {"none", "ended"} => Polled \subseteq open'
    BY <1>5, <1>3, LibraryPolls DEF AdapterTypes, CloseHandle, At, object, receiver, PolledInv
  <2> QED  BY <1>1, <1>6, <2>1, KeepsPolled
<1>10. ReleaseInv'
  <2>1. inbox' # 0 => open' \cap {"inbound", "subscriber", "sub"} # {}
    BY <1>3, <1>4, <1>5 DEF CloseHandle, At, object, receiver, ReleaseInv, AdapterTypes,
       Handles, Of
  <2>2. ASSUME NEW h \in open'  PROVE h \in open /\ ~Ends(Head(prog), h)
    BY <1>3, <1>4 DEF CloseHandle, At, object, receiver, Ends, Close, Do
  <2>3. connected' => connected /\ Head(prog).do # "offline"
    BY <1>3 DEF CloseHandle, At, object, receiver
  <2> QED  BY <1>1, <2>1, <2>2, <2>3, KeepsRelease
<1>12. Progresses
  <2>1. prog' # <<>> /\ Goal(prog)' = Goal(prog)
    BY <1>1, AdvanceLeft
  <2>2. recv = "nested" => recv' = "nested"
    BY <1>5, <1>3 DEF CloseHandle, At, object, receiver
  <2>3. Outbound \in open => Outbound \in open' \/ MayClose
    <3>1. which \in {"zmq", "redis", "nats", "mqtt"}
      BY AdaptersAssumption DEF AdapterTypes
    <3>2. which # "mqtt" \/ Goal(prog) = "freed"
      BY <1>3, <1>4 DEF Proper
    <3> QED  BY <1>5, <3>1, <3>2 DEF MayClose, Threaded
  <2> QED  BY <1>3, <2>1, <2>2, <2>3 DEF Progresses, CloseHandle, At, object, receiver
<1> QED  BY <1>7, <1>8, <1>9, <1>10, <1>12

\* connected is set or reset.
LEMMA StepSetConnected ==
    ASSUME AdapterInv, SetConnected
    PROVE  AdapterInv' /\ Progresses
<1> USE DEF AdapterInv
<1>1. Advances
  BY DEF Advances, SetConnected, At, object, receiver
<1>2. Threaded' = Threaded /\ Hearing' = Hearing /\ Handles' = Handles /\ Polled' = Polled
  BY <1>1, SameAdapter DEF Advances
<1>3. Head(prog).do \in {"online", "offline"} /\ prog # <<>> /\ Proper(prog)
  BY DEF SetConnected, At, object, receiver, AdapterTypes
<1>4. prog \in Seq(Step) /\ 1 \in 1..Len(prog) /\ Head(prog) = prog[1]
  BY <1>3 DEF Proper, Body
<1>5. AdapterTypes'
  BY <1>1, <1>3, <1>4, AdvanceTypes DEF SetConnected, At, object, receiver, AdapterTypes,
     Handles, Of
<1>6. ReceiverInv'
  <2>1. recv' = recv /\ open' = open /\ sink' = sink
    BY DEF SetConnected, At, object, receiver
  <2>2. Head(prog).do \notin EndReceiver \cup EndMessages
    BY <1>3 DEF EndReceiver, EndMessages
  <2> QED  BY <1>1, <2>1, <2>2, KeepsReceiver DEF ReceiverInv
<1>7. PolledInv'
  <2>1. recv' \notin {"none", "ended"} => Polled \subseteq open'
    BY <1>3 DEF SetConnected, At, object, receiver, PolledInv
  <2>2. \A h \in Polled : h \in open' \/ (h \notin open /\ Head(prog) # Make(h))
    BY <1>3 DEF SetConnected, At, object, receiver, Make
  <2> QED  BY <1>1, <2>1, <2>2, KeepsPolled
<1>8. ReleaseInv'
  <2>1. inbox' # 0 => open' \cap {"inbound", "subscriber", "sub"} # {}
    BY <1>3, <1>4 DEF SetConnected, At, object, receiver, ReleaseInv, AdapterTypes
  <2>2. ASSUME NEW h \in open'  PROVE h \in open /\ ~Ends(Head(prog), h)
    BY <1>3, <1>4 DEF SetConnected, At, object, receiver, Ends, Close, Do
  <2>3. ~Attaching /\ connected' => connected /\ Head(prog).do # "offline"
    BY <1>3, <1>1, AdvanceLeft DEF SetConnected, At, object, receiver, Attaching, AttachSteps
  <2> QED  BY <1>1, <2>1, <2>2, <2>3, KeepsRelease
<1>10. Progresses
  <2>1. prog' # <<>> /\ Goal(prog)' = Goal(prog)
    BY <1>1, AdvanceLeft
  <2>2. recv = "nested" => recv' = "nested"
    BY <1>3 DEF SetConnected, At, object, receiver
  <2>3. Outbound \in open => Outbound \in open' \/ MayClose
    BY <1>3 DEF SetConnected, At, object, receiver
  <2> QED  BY <1>3, <2>1, <2>2, <2>3 DEF Progresses, SetConnected, At, object, receiver
<1> QED  BY <1>5, <1>6, <1>7, <1>8, <1>10

\* The receiver thread starts: everything it polls is there.
LEMMA StepSpawnThread ==
    ASSUME AdapterInv, SpawnThread
    PROVE  AdapterInv' /\ Progresses
<1> USE DEF AdapterInv
<1>1. Advances
  BY DEF Advances, SpawnThread, At, object, receiver
<1>2. Threaded' = Threaded /\ Hearing' = Hearing /\ Handles' = Handles /\ Polled' = Polled
  BY <1>1, SameAdapter DEF Advances
<1>3. Head(prog).do = "spawn" /\ prog # <<>> /\ Proper(prog)
  BY DEF SpawnThread, At, object, receiver, AdapterTypes
<1>4. prog \in Seq(Step) /\ 1 \in 1..Len(prog) /\ Head(prog) = prog[1]
  BY <1>3 DEF Proper, Body
<1>5. recv = "none" /\ "sub" \notin open /\ "subtok" \notin open
  BY <1>1, <1>3, NotRunning DEF Advances, AttachSteps, Releases
<1>6. AdapterTypes'
  BY <1>1, <1>3, <1>4, AdvanceTypes DEF SpawnThread, At, object, receiver, AdapterTypes,
     Handles, Of
<1>7. recv' = "check" /\ Threaded /\ Hearing /\ open' = open /\ sink' = sink
  BY <1>3, <1>4 DEF SpawnThread, At, object, receiver, Proper, Body, Threaded
<1>8. ReceiverInv'
  <2>1. Starting' /\ Attaching' /\ sink'
    BY <1>1, <1>3, <1>7, KeepsStarting
  <2> QED  BY <1>2, <1>5, <1>7, <2>1 DEF ReceiverInv, Subscribed, Live
<1>9. PolledInv'
  <2>1. Attaching
    BY <1>1, <1>3, AdvanceLeft DEF AttachSteps, Attaching, Advances
  <2>2. ASSUME NEW h \in Polled, h \notin open  PROVE FALSE
    <3>1. PICK i \in 1..Len(prog) : prog[i] = Make(h)
      BY <1>7, <2>1, <2>2 DEF PolledInv
    <3>2. prog[i] # Head(prog)
      BY <1>3, <3>1 DEF Make
    <3>3. PICK j \in 1..Len(prog') : prog'[j] = Make(h)
      BY <1>1, <3>1, <3>2, AdvanceLeft
    <3>4. Follows("spawn", "make")
      BY <1>1, <1>3, <3>3, AdvanceLeft DEF Make
    <3> QED  BY <3>4 DEF Follows
  <2> QED  BY <1>1, <1>7, <2>2, KeepsPolled
<1>10. ReleaseInv'
  <2>1. inbox' # 0 => open' \cap {"inbound", "subscriber", "sub"} # {}
    BY <1>3, <1>4, <1>5 DEF SpawnThread, At, object, receiver, ReleaseInv, AdapterTypes
  <2>2. Attaching
    BY <1>1, <1>3, AdvanceLeft DEF AttachSteps, Attaching, Advances
  <2> QED  BY <1>1, <2>1, <2>2, KeepsRelease
<1>12. Progresses
  <2>1. prog' # <<>> /\ Goal(prog)' = Goal(prog)
    BY <1>1, AdvanceLeft
  <2>2. recv = "nested" => recv' = "nested"
    BY <1>5, <1>3 DEF SpawnThread, At, object, receiver
  <2>3. Outbound \in open => Outbound \in open' \/ MayClose
    BY <1>5, <1>3 DEF SpawnThread, At, object, receiver
  <2> QED  BY <1>3, <2>1, <2>2, <2>3 DEF Progresses, SpawnThread, At, object, receiver
<1> QED  BY <1>6, <1>8, <1>9, <1>10, <1>12

\* The receiver thread is asked to stop.
LEMMA StepStopThread ==
    ASSUME AdapterInv, StopThread
    PROVE  AdapterInv' /\ Progresses
<1> USE DEF AdapterInv
<1>1. Advances
  BY DEF Advances, StopThread, At, object, receiver
<1>2. Threaded' = Threaded /\ Hearing' = Hearing /\ Handles' = Handles /\ Polled' = Polled
  BY <1>1, SameAdapter DEF Advances
<1>3. Head(prog).do = "stop" /\ prog # <<>> /\ Proper(prog)
  BY DEF StopThread, At, object, receiver, AdapterTypes
<1>4. prog \in Seq(Step) /\ 1 \in 1..Len(prog) /\ Head(prog) = prog[1]
  BY <1>3 DEF Proper, Body
<1>5. ~Attaching
  BY <1>1, <1>3, NotAttaching DEF ShutdownSteps, EndReceiver, EndMessages, Releases
<1>6. AdapterTypes'
  BY <1>1, <1>3, <1>4, AdvanceTypes DEF StopThread, At, object, receiver, AdapterTypes, Handles,
     Of
<1>7. ReceiverInv'
  <2>1. recv' = recv /\ open' = open /\ sink' = sink
    BY DEF StopThread, At, object, receiver
  <2>2. Head(prog).do \notin EndReceiver \cup EndMessages
    BY <1>3 DEF EndReceiver, EndMessages
  <2> QED  BY <1>1, <2>1, <2>2, KeepsReceiver DEF ReceiverInv
<1>8. PolledInv'
  <2>1. recv' \notin {"none", "ended"} => Polled \subseteq open'
    BY <1>3 DEF StopThread, At, object, receiver, PolledInv
  <2> QED  BY <1>1, <1>5, <2>1, KeepsPolled
<1>9. ReleaseInv'
  <2>1. inbox' # 0 => open' \cap {"inbound", "subscriber", "sub"} # {}
    BY <1>3, <1>4 DEF StopThread, At, object, receiver, ReleaseInv, AdapterTypes
  <2>2. ASSUME NEW h \in open'  PROVE h \in open /\ ~Ends(Head(prog), h)
    BY <1>3, <1>4 DEF StopThread, At, object, receiver, Ends, Close, Do
  <2>3. connected' => connected /\ Head(prog).do # "offline"
    BY <1>3 DEF StopThread, At, object, receiver
  <2> QED  BY <1>1, <2>1, <2>2, <2>3, KeepsRelease
<1>11. Progresses
  <2>1. prog' # <<>> /\ Goal(prog)' = Goal(prog)
    BY <1>1, AdvanceLeft
  <2>2. recv = "nested" => recv' = "nested"
    BY <1>3 DEF StopThread, At, object, receiver
  <2>3. Outbound \in open => Outbound \in open' \/ MayClose
    BY <1>3 DEF StopThread, At, object, receiver
  <2> QED  BY <1>3, <2>1, <2>2, <2>3 DEF Progresses, StopThread, At, object, receiver
<1> QED  BY <1>6, <1>7, <1>8, <1>9, <1>11

\* The receiver thread is joined: it has ended.
LEMMA StepJoinThread ==
    ASSUME AdapterInv, JoinThread
    PROVE  AdapterInv' /\ Progresses
<1> USE DEF AdapterInv
<1>1. Advances
  BY DEF Advances, JoinThread, At, object, receiver
<1>2. Threaded' = Threaded /\ Hearing' = Hearing /\ Handles' = Handles /\ Polled' = Polled
  BY <1>1, SameAdapter DEF Advances
<1>3. Head(prog).do = "join" /\ prog # <<>> /\ Proper(prog)
  BY DEF JoinThread, At, object, receiver, AdapterTypes
<1>4. prog \in Seq(Step) /\ 1 \in 1..Len(prog) /\ Head(prog) = prog[1]
  BY <1>3 DEF Proper, Body
<1>5. ~Attaching
  BY <1>1, <1>3, NotAttaching DEF ShutdownSteps, EndReceiver, EndMessages, Releases
<1>6. AdapterTypes'
  BY <1>1, <1>3, <1>4, AdvanceTypes DEF JoinThread, At, object, receiver, AdapterTypes, Handles,
     Of
<1>7. ReceiverInv'
  <2>1. Threaded
    BY <1>3, <1>4 DEF Proper, Body
  <2>2. "sub" \notin open' /\ "subtok" \notin open' /\ recv' = "none"
    BY <2>1 DEF JoinThread, At, object, receiver, ReceiverInv, Subscribed
  <2> QED  BY <1>1, <1>5, <2>2, KeepsStopped
<1>8. PolledInv'
  <2>1. recv' \notin {"none", "ended"} => Polled \subseteq open'
    BY <1>3 DEF JoinThread, At, object, receiver, PolledInv
  <2> QED  BY <1>1, <1>5, <2>1, KeepsPolled
<1>9. ReleaseInv'
  <2>1. inbox' # 0 => open' \cap {"inbound", "subscriber", "sub"} # {}
    BY <1>3, <1>4 DEF JoinThread, At, object, receiver, ReleaseInv, AdapterTypes
  <2>2. ASSUME NEW h \in open'  PROVE h \in open /\ ~Ends(Head(prog), h)
    BY <1>3, <1>4 DEF JoinThread, At, object, receiver, Ends, Close, Do
  <2>3. connected' => connected /\ Head(prog).do # "offline"
    BY <1>3 DEF JoinThread, At, object, receiver
  <2> QED  BY <1>1, <2>1, <2>2, <2>3, KeepsRelease
<1>11. Progresses
  <2>1. prog' # <<>> /\ Goal(prog)' = Goal(prog)
    BY <1>1, AdvanceLeft
  <2>2. recv = "nested" => recv' = "nested"
    BY <1>3 DEF JoinThread, At, object, receiver
  <2>3. Outbound \in open => Outbound \in open' \/ MayClose
    BY <1>3 DEF JoinThread, At, object, receiver
  <2> QED  BY <1>3, <2>1, <2>2, <2>3 DEF Progresses, JoinThread, At, object, receiver
<1> QED  BY <1>6, <1>7, <1>8, <1>9, <1>11

\* The sink is cleared, after the receiver has ended.
LEMMA StepClearSink ==
    ASSUME AdapterInv, ClearSink
    PROVE  AdapterInv' /\ Progresses
<1> USE DEF AdapterInv
<1>1. Advances
  BY DEF Advances, ClearSink, At, object, receiver
<1>2. Threaded' = Threaded /\ Hearing' = Hearing /\ Handles' = Handles /\ Polled' = Polled
  BY <1>1, SameAdapter DEF Advances
<1>3. Head(prog).do = "unsink" /\ prog # <<>> /\ Proper(prog)
  BY DEF ClearSink, At, object, receiver, AdapterTypes
<1>4. prog \in Seq(Step) /\ 1 \in 1..Len(prog) /\ Head(prog) = prog[1]
  BY <1>3 DEF Proper, Body
<1>5. "sub" \notin open /\ "subtok" \notin open /\ (Threaded => recv = "none")
  BY <1>1, <1>3, NotRunning DEF Advances, AttachSteps, Releases
<1>6. ~Attaching
  BY <1>1, <1>3, NotAttaching DEF ShutdownSteps, EndReceiver, EndMessages, Releases
<1>7. AdapterTypes'
  BY <1>1, <1>3, <1>4, AdvanceTypes DEF ClearSink, At, object, receiver, AdapterTypes, Handles,
     Of
<1>8. ReceiverInv'
  <2>1. recv' = recv /\ "sub" \notin open' /\ "subtok" \notin open'
    BY <1>3, <1>4, <1>5, <1>6 DEF ClearSink, At, object, receiver, ReceiverInv, AdapterTypes
  <2>2. Head(prog).do \notin EndReceiver \cup EndMessages
    BY <1>3 DEF EndReceiver, EndMessages
  <2> QED  BY <1>1, <1>5, <1>6, <2>1, <2>2, KeepsReceiver
<1>9. PolledInv'
  <2>1. recv' \notin {"none", "ended"} => Polled \subseteq open'
    BY <1>5, <1>3, LibraryPolls DEF AdapterTypes, ClearSink, At, object, receiver, PolledInv
  <2> QED  BY <1>1, <1>6, <2>1, KeepsPolled
<1>10. ReleaseInv'
  <2>1. inbox' # 0 => open' \cap {"inbound", "subscriber", "sub"} # {}
    BY <1>3, <1>4, <1>5 DEF ClearSink, At, object, receiver, ReleaseInv, AdapterTypes
  <2>2. ASSUME NEW h \in open'  PROVE h \in open /\ ~Ends(Head(prog), h)
    BY <1>3, <1>4 DEF ClearSink, At, object, receiver, Ends, Close, Do
  <2>3. connected' => connected /\ Head(prog).do # "offline"
    BY <1>3 DEF ClearSink, At, object, receiver
  <2> QED  BY <1>1, <2>1, <2>2, <2>3, KeepsRelease
<1>12. Progresses
  <2>1. prog' # <<>> /\ Goal(prog)' = Goal(prog)
    BY <1>1, AdvanceLeft
  <2>2. recv = "nested" => recv' = "nested"
    BY <1>5, <1>3 DEF ClearSink, At, object, receiver
  <2>3. Outbound \in open => Outbound \in open' \/ MayClose
    BY <1>5, <1>3 DEF ClearSink, At, object, receiver
  <2> QED  BY <1>3, <2>1, <2>2, <2>3 DEF Progresses, ClearSink, At, object, receiver
<1> QED  BY <1>7, <1>8, <1>9, <1>10, <1>12

\* zmq makes its context.
LEMMA StepNewContext ==
    ASSUME which = "zmq", AdapterInv, Zmq!NewContext
    PROVE  AdapterInv' /\ Progresses
<1> USE DEF AdapterInv
<1>1. Advances
  BY DEF Advances, Zmq!NewContext, Zmq!At, Zmq!object, Zmq!receiver
<1>2. Threaded' = Threaded /\ Hearing' = Hearing /\ Handles' = Handles /\ Polled' = Polled
  BY <1>1, SameAdapter DEF Advances
<1>3. Head(prog).do = "context" /\ prog # <<>> /\ Proper(prog)
  BY DEF Zmq!NewContext, Zmq!At, Zmq!object, Zmq!receiver, AdapterTypes
<1>4. prog \in Seq(Step) /\ 1 \in 1..Len(prog) /\ Head(prog) = prog[1]
  BY <1>3 DEF Proper, Body
<1>5. recv = "none" /\ "sub" \notin open /\ "subtok" \notin open
  BY <1>1, <1>3, NotRunning DEF Advances, AttachSteps, Releases
<1>6. AdapterTypes'
  BY <1>1, <1>3, <1>4, AdvanceTypes DEF Zmq!NewContext, Zmq!At, Zmq!object, Zmq!receiver,
     AdapterTypes, Handles, Of
<1>7. ReceiverInv'
  <2>1. recv' = "none" /\ "sub" \notin open' /\ "subtok" \notin open' /\ (Attaching => sink')
    BY <1>3, <1>4, <1>5 DEF Zmq!NewContext, Zmq!At, Zmq!object, Zmq!receiver, ReceiverInv,
       AdapterTypes
  <2> QED  BY <1>1, <2>1, KeepsStopped
<1>8. PolledInv'
  <2>1. recv' \notin {"none", "ended"} => Polled \subseteq open'
    BY <1>5, <1>3 DEF Zmq!NewContext, Zmq!At, Zmq!object, Zmq!receiver, PolledInv
  <2>2. \A h : Head(prog) # Make(h)
    BY <1>3 DEF Make
  <2>3. open \subseteq open'
    BY DEF Zmq!NewContext, Zmq!At, Zmq!object, Zmq!receiver
  <2> QED  BY <1>1, <2>1, <2>2, <2>3, KeepsPolled
<1>9. ReleaseInv'
  <2>1. inbox' # 0 => open' \cap {"inbound", "subscriber", "sub"} # {}
    BY <1>3, <1>4, <1>5 DEF Zmq!NewContext, Zmq!At, Zmq!object, Zmq!receiver, ReleaseInv,
       AdapterTypes
  <2>2. Attaching
    BY <1>1, <1>3, AdvanceLeft DEF AttachSteps, Attaching, Advances
  <2> QED  BY <1>1, <2>1, <2>2, KeepsRelease
<1>11. Progresses
  <2>1. prog' # <<>> /\ Goal(prog)' = Goal(prog)
    BY <1>1, AdvanceLeft
  <2>2. recv = "nested" => recv' = "nested"
    BY <1>5, <1>3 DEF Zmq!NewContext, Zmq!At, Zmq!object, Zmq!receiver
  <2>3. Outbound \in open => Outbound \in open' \/ MayClose
    BY <1>5, <1>3 DEF MayClose, Threaded, Zmq!NewContext, Zmq!At, Zmq!object, Zmq!receiver
  <2> QED  BY <1>3, <2>1, <2>2, <2>3 DEF Progresses, Zmq!NewContext, Zmq!At, Zmq!object,
              Zmq!receiver
<1> QED  BY <1>6, <1>7, <1>8, <1>9, <1>11

\* zmq wakes its receiver thread.
LEMMA StepSendWake ==
    ASSUME which = "zmq", AdapterInv, Zmq!SendWake
    PROVE  AdapterInv' /\ Progresses
<1> USE DEF AdapterInv
<1>1. Advances
  BY DEF Advances, Zmq!SendWake, Zmq!At, Zmq!object, Zmq!receiver
<1>2. Threaded' = Threaded /\ Hearing' = Hearing /\ Handles' = Handles /\ Polled' = Polled
  BY <1>1, SameAdapter DEF Advances
<1>3. Head(prog).do = "wake" /\ prog # <<>> /\ Proper(prog)
  BY DEF Zmq!SendWake, Zmq!At, Zmq!object, Zmq!receiver, AdapterTypes
<1>4. prog \in Seq(Step) /\ 1 \in 1..Len(prog) /\ Head(prog) = prog[1]
  BY <1>3 DEF Proper, Body
<1>5. ~Attaching
  BY <1>1, <1>3, NotAttaching DEF ShutdownSteps, EndReceiver, EndMessages, Releases
<1>6. AdapterTypes'
  BY <1>1, <1>3, <1>4, AdvanceTypes DEF Zmq!SendWake, Zmq!At, Zmq!object, Zmq!receiver,
     AdapterTypes, Handles, Of
<1>7. ReceiverInv'
  <2>1. recv' = recv /\ open' = open /\ sink' = sink
    BY DEF Zmq!SendWake, Zmq!At, Zmq!object, Zmq!receiver
  <2>2. Head(prog).do \notin EndReceiver \cup EndMessages
    BY <1>3 DEF EndReceiver, EndMessages
  <2> QED  BY <1>1, <2>1, <2>2, KeepsReceiver DEF ReceiverInv
<1>8. PolledInv'
  <2>1. recv' \notin {"none", "ended"} => Polled \subseteq open'
    BY <1>3 DEF Zmq!SendWake, Zmq!At, Zmq!object, Zmq!receiver, PolledInv
  <2> QED  BY <1>1, <1>5, <2>1, KeepsPolled
<1>9. ReleaseInv'
  <2>1. inbox' # 0 => open' \cap {"inbound", "subscriber", "sub"} # {}
    BY <1>3, <1>4 DEF Zmq!SendWake, Zmq!At, Zmq!object, Zmq!receiver, ReleaseInv, AdapterTypes
  <2>2. ASSUME NEW h \in open'  PROVE h \in open /\ ~Ends(Head(prog), h)
    BY <1>3, <1>4 DEF Zmq!SendWake, Zmq!At, Zmq!object, Zmq!receiver, Ends, Close, Do
  <2>3. connected' => connected /\ Head(prog).do # "offline"
    BY <1>3 DEF Zmq!SendWake, Zmq!At, Zmq!object, Zmq!receiver
  <2> QED  BY <1>1, <2>1, <2>2, <2>3, KeepsRelease
<1>11. Progresses
  <2>1. prog' # <<>> /\ Goal(prog)' = Goal(prog)
    BY <1>1, AdvanceLeft
  <2>2. recv = "nested" => recv' = "nested"
    BY <1>3 DEF Zmq!SendWake, Zmq!At, Zmq!object, Zmq!receiver
  <2>3. Outbound \in open => Outbound \in open' \/ MayClose
    BY <1>3 DEF Zmq!SendWake, Zmq!At, Zmq!object, Zmq!receiver
  <2> QED  BY <1>3, <2>1, <2>2, <2>3 DEF Progresses, Zmq!SendWake, Zmq!At, Zmq!object,
              Zmq!receiver
<1> QED  BY <1>6, <1>7, <1>8, <1>9, <1>11

\* zmq ends its context.
LEMMA StepTermContext ==
    ASSUME which = "zmq", AdapterInv, Zmq!TermContext
    PROVE  AdapterInv' /\ Progresses
<1> USE DEF AdapterInv
<1>1. Advances
  BY DEF Advances, Zmq!TermContext, Zmq!At, Zmq!object, Zmq!receiver
<1>2. Threaded' = Threaded /\ Hearing' = Hearing /\ Handles' = Handles /\ Polled' = Polled
  BY <1>1, SameAdapter DEF Advances
<1>3. Head(prog).do = "term" /\ prog # <<>> /\ Proper(prog)
  BY DEF Zmq!TermContext, Zmq!At, Zmq!object, Zmq!receiver, AdapterTypes
<1>4. prog \in Seq(Step) /\ 1 \in 1..Len(prog) /\ Head(prog) = prog[1]
  BY <1>3 DEF Proper, Body
<1>5. "sub" \notin open /\ "subtok" \notin open /\ (Threaded => recv = "none")
  BY <1>1, <1>3, NotRunning DEF Advances, AttachSteps, Releases
<1>6. ~Attaching
  BY <1>1, <1>3, NotAttaching DEF ShutdownSteps, EndReceiver, EndMessages, Releases
<1>7. AdapterTypes'
  BY <1>1, <1>3, <1>4, AdvanceTypes DEF Zmq!TermContext, Zmq!At, Zmq!object, Zmq!receiver,
     AdapterTypes, Handles, Of
<1>8. ReceiverInv'
  <2>1. recv' = recv /\ "sub" \notin open' /\ "subtok" \notin open'
    BY <1>3, <1>4, <1>5, <1>6 DEF Zmq!TermContext, Zmq!At, Zmq!object, Zmq!receiver,
       ReceiverInv, AdapterTypes
  <2>2. Head(prog).do \notin EndReceiver \cup EndMessages
    BY <1>3 DEF EndReceiver, EndMessages
  <2> QED  BY <1>1, <1>5, <1>6, <2>1, <2>2, KeepsReceiver
<1>9. PolledInv'
  <2>1. recv' \notin {"none", "ended"} => Polled \subseteq open'
    BY <1>5, <1>3, LibraryPolls DEF AdapterTypes, Zmq!TermContext, Zmq!At, Zmq!object, Zmq!receiver, PolledInv
  <2> QED  BY <1>1, <1>6, <2>1, KeepsPolled
<1>10. ReleaseInv'
  <2>1. inbox' # 0 => open' \cap {"inbound", "subscriber", "sub"} # {}
    BY <1>3, <1>4, <1>5 DEF Zmq!TermContext, Zmq!At, Zmq!object, Zmq!receiver, ReleaseInv,
       AdapterTypes
  <2>2. ASSUME NEW h \in open'  PROVE h \in open /\ ~Ends(Head(prog), h)
    BY <1>3, <1>4 DEF Zmq!TermContext, Zmq!At, Zmq!object, Zmq!receiver, Ends, Close, Do
  <2>3. connected' => connected /\ Head(prog).do # "offline"
    BY <1>3 DEF Zmq!TermContext, Zmq!At, Zmq!object, Zmq!receiver
  <2> QED  BY <1>1, <2>1, <2>2, <2>3, KeepsRelease
<1>12. Progresses
  <2>1. prog' # <<>> /\ Goal(prog)' = Goal(prog)
    BY <1>1, AdvanceLeft
  <2>2. recv = "nested" => recv' = "nested"
    BY <1>5, <1>3 DEF Zmq!TermContext, Zmq!At, Zmq!object, Zmq!receiver
  <2>3. Outbound \in open => Outbound \in open' \/ MayClose
    BY <1>5, <1>3 DEF MayClose, Threaded, Zmq!TermContext, Zmq!At, Zmq!object, Zmq!receiver
  <2> QED  BY <1>3, <2>1, <2>2, <2>3 DEF Progresses, Zmq!TermContext, Zmq!At, Zmq!object,
              Zmq!receiver
<1> QED  BY <1>7, <1>8, <1>9, <1>10, <1>12

\* nats subscribes: messages may arrive from now on.
LEMMA StepNatsSubscribe ==
    ASSUME which = "nats", AdapterInv, Nats!Subscribe
    PROVE  AdapterInv' /\ Progresses
<1> USE DEF AdapterInv
<1>1. Advances
  BY DEF Advances, Nats!Subscribe, Nats!At, Nats!object, Nats!receiver
<1>2. Threaded' = Threaded /\ Hearing' = Hearing /\ Handles' = Handles /\ Polled' = Polled
  BY <1>1, SameAdapter DEF Advances
<1>3. Head(prog).do = "subscribe" /\ prog # <<>> /\ Proper(prog)
  BY DEF Nats!Subscribe, Nats!At, Nats!object, Nats!receiver, AdapterTypes
<1>4. prog \in Seq(Step) /\ 1 \in 1..Len(prog) /\ Head(prog) = prog[1]
  BY <1>3 DEF Proper, Body
<1>5. recv = "none" /\ "sub" \notin open /\ "subtok" \notin open
  BY <1>1, <1>3, NotRunning DEF Advances, AttachSteps, Releases
<1>6. AdapterTypes'
  BY <1>1, <1>3, <1>4, AdvanceTypes DEF Nats!Subscribe, Nats!At, Nats!object, Nats!receiver,
     AdapterTypes, Handles, Of
<1>7. /\ recv' = "poll" /\ ~Threaded /\ "sub" \in open' /\ "subtok" \notin open'
      /\ sink' = sink
  BY <1>3, <1>4, <1>5 DEF Nats!Subscribe, Nats!At, Nats!object, Nats!receiver, Proper, Body, Threaded
<1>8. ReceiverInv'
  <2>1. Starting' /\ Attaching' /\ sink'
    BY <1>1, <1>3, <1>7, KeepsStarting
  <2> QED  BY <1>2, <1>5, <1>7, <2>1 DEF ReceiverInv, Subscribed, Live
<1>9. PolledInv'
  <2>1. Polled = {}
    BY DEF Polled, Of, Nats!Polled
  <2> QED  BY <1>1, <2>1, KeepsPolled
<1>10. ReleaseInv'
  <2>1. inbox' # 0 => open' \cap {"inbound", "subscriber", "sub"} # {}
    BY <1>3, <1>4, <1>5 DEF Nats!Subscribe, Nats!At, Nats!object, Nats!receiver, ReleaseInv,
       AdapterTypes
  <2>2. Attaching
    BY <1>1, <1>3, AdvanceLeft DEF AttachSteps, Attaching, Advances
  <2> QED  BY <1>1, <2>1, <2>2, KeepsRelease
<1>12. Progresses
  <2>1. prog' # <<>> /\ Goal(prog)' = Goal(prog)
    BY <1>1, AdvanceLeft
  <2>2. recv = "nested" => recv' = "nested"
    BY <1>5, <1>3 DEF Nats!Subscribe, Nats!At, Nats!object, Nats!receiver
  <2>3. Outbound \in open => Outbound \in open' \/ MayClose
    BY <1>5, <1>3 DEF Nats!Subscribe, Nats!At, Nats!object, Nats!receiver
  <2> QED  BY <1>3, <2>1, <2>2, <2>3 DEF Progresses, Nats!Subscribe, Nats!At, Nats!object,
              Nats!receiver
<1> QED  BY <1>6, <1>8, <1>9, <1>10, <1>12

\* nats unsubscribes.
LEMMA StepNatsUnsubscribe ==
    ASSUME which = "nats", AdapterInv, Nats!Unsubscribe
    PROVE  AdapterInv' /\ Progresses
<1> USE DEF AdapterInv
<1>1. Advances
  BY DEF Advances, Nats!Unsubscribe, Nats!At, Nats!object, Nats!receiver, Nats!Delivering
<1>2. Threaded' = Threaded /\ Hearing' = Hearing /\ Handles' = Handles /\ Polled' = Polled
  BY <1>1, SameAdapter DEF Advances
<1>3. Head(prog).do = "unsubscribe" /\ prog # <<>> /\ Proper(prog)
  BY DEF Nats!Unsubscribe, Nats!At, Nats!object, Nats!receiver, Nats!Delivering, AdapterTypes
<1>4. prog \in Seq(Step) /\ 1 \in 1..Len(prog) /\ Head(prog) = prog[1]
  BY <1>3 DEF Proper, Body
<1>5. ~Attaching
  BY <1>1, <1>3, NotAttaching DEF ShutdownSteps, EndReceiver, EndMessages, Releases
<1>6. AdapterTypes'
  BY <1>1, <1>3, <1>4, AdvanceTypes DEF Nats!Unsubscribe, Nats!At, Nats!object, Nats!receiver,
     Nats!Delivering, AdapterTypes, Handles, Of
<1>7. /\ "sub" \notin open' /\ "subtok" \notin open'
      /\ recv' = IF recv \in {"deliver", "handler", "nested", "report"} THEN recv ELSE "none"
  BY DEF Nats!Unsubscribe, Nats!At, Nats!object, Nats!receiver, Nats!Delivering, AdapterTypes,
     Handles, Of
<1>8. ~Threaded
  BY DEF Threaded
<1>9. ReceiverInv'
  BY <1>1, <1>5, <1>7, <1>8, KeepsCallback
<1>10. PolledInv'
  <2>1. Polled = {}
    BY DEF Polled, Of, Nats!Polled
  <2> QED  BY <1>1, <2>1, KeepsPolled
<1>11. ReleaseInv'
  <2>1. inbox' # 0 => open' \cap {"inbound", "subscriber", "sub"} # {}
    BY <1>3, <1>4 DEF Nats!Unsubscribe, Nats!At, Nats!object, Nats!receiver, Nats!Delivering,
       ReleaseInv, AdapterTypes
  <2>2. ASSUME NEW h \in open'  PROVE h \in open /\ ~Ends(Head(prog), h)
    BY <1>3, <1>4 DEF Nats!Unsubscribe, Nats!At, Nats!object, Nats!receiver, Nats!Delivering,
       Ends, Close, Do
  <2>3. connected' => connected /\ Head(prog).do # "offline"
    BY <1>3 DEF Nats!Unsubscribe, Nats!At, Nats!object, Nats!receiver, Nats!Delivering
  <2> QED  BY <1>1, <2>1, <2>2, <2>3, KeepsRelease
<1>13. Progresses
  <2>1. prog' # <<>> /\ Goal(prog)' = Goal(prog)
    BY <1>1, AdvanceLeft
  <2>2. recv = "nested" => recv' = "nested"
    BY <1>3 DEF Nats!Unsubscribe, Nats!At, Nats!object, Nats!receiver, Nats!Delivering
  <2>3. Outbound \in open => Outbound \in open' \/ MayClose
    BY <1>3 DEF Nats!Unsubscribe, Nats!At, Nats!object, Nats!receiver, Nats!Delivering,
       Outbound, Of, Nats!Outbound
  <2> QED  BY <1>3, <2>1, <2>2, <2>3 DEF Progresses, Nats!Unsubscribe, Nats!At, Nats!object,
              Nats!receiver, Nats!Delivering
<1> QED  BY <1>6, <1>9, <1>10, <1>11, <1>13

\* mqtt connects, or stops waiting for the broker.
LEMMA StepMqttConnect ==
    ASSUME which = "mqtt", AdapterInv, Mqtt!Connect
    PROVE  AdapterInv' /\ Progresses
<1> USE DEF AdapterInv
<1>1. Advances
  BY DEF Advances, Mqtt!Connect, Mqtt!At, Mqtt!object, Mqtt!receiver
<1>2. Threaded' = Threaded /\ Hearing' = Hearing /\ Handles' = Handles /\ Polled' = Polled
  BY <1>1, SameAdapter DEF Advances
<1>3. Head(prog).do = "connect" /\ prog # <<>> /\ Proper(prog)
  BY DEF Mqtt!Connect, Mqtt!At, Mqtt!object, Mqtt!receiver, AdapterTypes
<1>4. prog \in Seq(Step) /\ 1 \in 1..Len(prog) /\ Head(prog) = prog[1]
  BY <1>3 DEF Proper, Body
<1>5. recv = "none" /\ "sub" \notin open /\ "subtok" \notin open
  BY <1>1, <1>3, NotRunning DEF Advances, AttachSteps, Releases
<1>6. AdapterTypes'
  BY <1>1, <1>3, <1>4, AdvanceTypes DEF Mqtt!Connect, Mqtt!At, Mqtt!object, Mqtt!receiver,
     AdapterTypes, Handles, Of
<1>7. ReceiverInv'
  <2>1. recv' = "none" /\ "sub" \notin open' /\ "subtok" \notin open' /\ (Attaching => sink')
    BY <1>3, <1>4, <1>5 DEF Mqtt!Connect, Mqtt!At, Mqtt!object, Mqtt!receiver, ReceiverInv,
       AdapterTypes
  <2> QED  BY <1>1, <2>1, KeepsStopped
<1>8. PolledInv'
  <2>1. Polled = {}
    BY DEF Polled, Of, Mqtt!Polled
  <2> QED  BY <1>1, <2>1, KeepsPolled
<1>9. ReleaseInv'
  <2>1. inbox' # 0 => open' \cap {"inbound", "subscriber", "sub"} # {}
    BY <1>3, <1>4, <1>5 DEF Mqtt!Connect, Mqtt!At, Mqtt!object, Mqtt!receiver, ReleaseInv,
       AdapterTypes
  <2>2. Attaching
    BY <1>1, <1>3, AdvanceLeft DEF AttachSteps, Attaching, Advances
  <2> QED  BY <1>1, <2>1, <2>2, KeepsRelease
<1>11. Progresses
  <2>1. prog' # <<>> /\ Goal(prog)' = Goal(prog)
    BY <1>1, AdvanceLeft
  <2>2. recv = "nested" => recv' = "nested"
    BY <1>5, <1>3 DEF Mqtt!Connect, Mqtt!At, Mqtt!object, Mqtt!receiver
  <2>3. Outbound \in open => Outbound \in open' \/ MayClose
    BY <1>5, <1>3 DEF Mqtt!Connect, Mqtt!At, Mqtt!object, Mqtt!receiver,
       Outbound, Of, Mqtt!Outbound
  <2> QED  BY <1>3, <2>1, <2>2, <2>3 DEF Progresses, Mqtt!Connect, Mqtt!At, Mqtt!object,
              Mqtt!receiver
<1> QED  BY <1>6, <1>7, <1>8, <1>9, <1>11

\* mqtt subscribes if it is connected.
LEMMA StepMqttSubscribe ==
    ASSUME which = "mqtt", AdapterInv, Mqtt!Subscribe
    PROVE  AdapterInv' /\ Progresses
<1> USE DEF AdapterInv
<1>1. Advances
  BY DEF Advances, Mqtt!Subscribe, Mqtt!At, Mqtt!object, Mqtt!receiver
<1>2. Threaded' = Threaded /\ Hearing' = Hearing /\ Handles' = Handles /\ Polled' = Polled
  BY <1>1, SameAdapter DEF Advances
<1>3. Head(prog).do = "subscribe" /\ prog # <<>> /\ Proper(prog)
  BY DEF Mqtt!Subscribe, Mqtt!At, Mqtt!object, Mqtt!receiver, AdapterTypes
<1>4. prog \in Seq(Step) /\ 1 \in 1..Len(prog) /\ Head(prog) = prog[1]
  BY <1>3 DEF Proper, Body
<1>5. recv = "none" /\ "sub" \notin open /\ "subtok" \notin open
  BY <1>1, <1>3, NotRunning DEF Advances, AttachSteps, Releases
<1>6. AdapterTypes'
  BY <1>1, <1>3, <1>4, AdvanceTypes DEF Mqtt!Subscribe, Mqtt!At, Mqtt!object, Mqtt!receiver,
     AdapterTypes, Handles, Of
<1>7. ReceiverInv'
  <2>1. Starting' /\ Attaching' /\ sink' /\ ~Threaded'
    BY <1>1, <1>2, <1>3, KeepsStarting DEF Mqtt!Subscribe, Mqtt!At, Mqtt!object, Mqtt!receiver,
       Threaded
  <2>2. \/ recv' = "poll" /\ "sub" \in open' /\ "subtok" \notin open'
        \/ recv' = "none" /\ "sub" \notin open'
    BY <1>5 DEF Mqtt!Subscribe, Mqtt!At, Mqtt!object, Mqtt!receiver
  <2> QED  BY <2>1, <2>2 DEF ReceiverInv, Live
<1>8. PolledInv'
  <2>1. Polled = {}
    BY DEF Polled, Of, Mqtt!Polled
  <2> QED  BY <1>1, <2>1, KeepsPolled
<1>9. ReleaseInv'
  <2>1. inbox' # 0 => open' \cap {"inbound", "subscriber", "sub"} # {}
    BY <1>3, <1>4, <1>5 DEF Mqtt!Subscribe, Mqtt!At, Mqtt!object, Mqtt!receiver, ReleaseInv,
       AdapterTypes
  <2>2. Attaching
    BY <1>1, <1>3, AdvanceLeft DEF AttachSteps, Attaching, Advances
  <2> QED  BY <1>1, <2>1, <2>2, KeepsRelease
<1>11. Progresses
  <2>1. prog' # <<>> /\ Goal(prog)' = Goal(prog)
    BY <1>1, AdvanceLeft
  <2>2. recv = "nested" => recv' = "nested"
    BY <1>5, <1>3 DEF Mqtt!Subscribe, Mqtt!At, Mqtt!object, Mqtt!receiver
  <2>3. Outbound \in open => Outbound \in open' \/ MayClose
    BY <1>5, <1>3 DEF Mqtt!Subscribe, Mqtt!At, Mqtt!object, Mqtt!receiver,
       Outbound, Of, Mqtt!Outbound
  <2> QED  BY <1>3, <2>1, <2>2, <2>3 DEF Progresses, Mqtt!Subscribe, Mqtt!At, Mqtt!object,
              Mqtt!receiver
<1> QED  BY <1>6, <1>7, <1>8, <1>9, <1>11

\* mqtt disconnects.
LEMMA StepMqttDisconnect ==
    ASSUME which = "mqtt", AdapterInv, Mqtt!Disconnect
    PROVE  AdapterInv' /\ Progresses
<1> USE DEF AdapterInv
<1>1. Advances
  BY DEF Advances, Mqtt!Disconnect, Mqtt!At, Mqtt!object, Mqtt!receiver, Mqtt!Delivering
<1>2. Threaded' = Threaded /\ Hearing' = Hearing /\ Handles' = Handles /\ Polled' = Polled
  BY <1>1, SameAdapter DEF Advances
<1>3. Head(prog).do = "disconnect" /\ prog # <<>> /\ Proper(prog)
  BY DEF Mqtt!Disconnect, Mqtt!At, Mqtt!object, Mqtt!receiver, Mqtt!Delivering, AdapterTypes
<1>4. prog \in Seq(Step) /\ 1 \in 1..Len(prog) /\ Head(prog) = prog[1]
  BY <1>3 DEF Proper, Body
<1>5. ~Attaching
  BY <1>1, <1>3, NotAttaching DEF ShutdownSteps, EndReceiver, EndMessages, Releases
<1>6. AdapterTypes'
  BY <1>1, <1>3, <1>4, AdvanceTypes DEF Mqtt!Disconnect, Mqtt!At, Mqtt!object, Mqtt!receiver,
     Mqtt!Delivering, AdapterTypes, Handles, Of
<1>7. /\ "sub" \notin open' /\ "subtok" \notin open'
      /\ recv' = IF recv \in {"deliver", "handler", "nested", "report"} THEN recv ELSE "none"
  BY DEF Mqtt!Disconnect, Mqtt!At, Mqtt!object, Mqtt!receiver, Mqtt!Delivering
<1>8. ~Threaded
  BY DEF Threaded
<1>9. ReceiverInv'
  BY <1>1, <1>5, <1>7, <1>8, KeepsCallback
<1>10. PolledInv'
  <2>1. Polled = {}
    BY DEF Polled, Of, Mqtt!Polled
  <2> QED  BY <1>1, <2>1, KeepsPolled
<1>11. ReleaseInv'
  <2>1. inbox' # 0 => open' \cap {"inbound", "subscriber", "sub"} # {}
    BY <1>3, <1>4 DEF Mqtt!Disconnect, Mqtt!At, Mqtt!object, Mqtt!receiver, Mqtt!Delivering,
       ReleaseInv, AdapterTypes
  <2>2. ASSUME NEW h \in open'  PROVE h \in open /\ ~Ends(Head(prog), h)
    BY <1>3, <1>4 DEF Mqtt!Disconnect, Mqtt!At, Mqtt!object, Mqtt!receiver, Mqtt!Delivering,
       Ends, Close, Do
  <2>3. connected' => connected /\ Head(prog).do # "offline"
    BY <1>3 DEF Mqtt!Disconnect, Mqtt!At, Mqtt!object, Mqtt!receiver, Mqtt!Delivering
  <2> QED  BY <1>1, <2>1, <2>2, <2>3, KeepsRelease
<1>13. Progresses
  <2>1. prog' # <<>> /\ Goal(prog)' = Goal(prog)
    BY <1>1, AdvanceLeft
  <2>2. recv = "nested" => recv' = "nested"
    BY <1>3 DEF Mqtt!Disconnect, Mqtt!At, Mqtt!object, Mqtt!receiver, Mqtt!Delivering
  <2>3. Outbound \in open => Outbound \in open' \/ MayClose
    BY <1>3 DEF Mqtt!Disconnect, Mqtt!At, Mqtt!object, Mqtt!receiver, Mqtt!Delivering, Outbound,
       Of, Mqtt!Outbound
  <2> QED  BY <1>3, <2>1, <2>2, <2>3 DEF Progresses, Mqtt!Disconnect, Mqtt!At, Mqtt!object,
              Mqtt!receiver, Mqtt!Delivering
<1> QED  BY <1>6, <1>9, <1>10, <1>11, <1>13

-----------------------------------------------------------------------------
(* How a program begins, fails and ends *)

\* A program stays proper and keeps its effect while the adapter stays.
LEMMA SameProgram ==
    ASSUME NEW p, UNCHANGED <<which, ends>>
    PROVE  /\ Proper(p)' <=> Proper(p)
           /\ ShutsDown(p)' <=> ShutsDown(p)
<1>1. Threaded' = Threaded /\ Hearing' = Hearing /\ Handles' = Handles /\ which' = which
  BY SameAdapter
<1>2. Body(p)' <=> Body(p)
  BY <1>1 DEF Body
<1>3. Proper(p)' <=> Proper(p)
  BY <1>2 DEF Proper, Goal
<1>4. \A s, h : Ends(s, h)' <=> Ends(s, h)
  BY DEF Ends, Close, Do
<1>5. ShutsDown(p)' <=> ShutsDown(p)
  BY <1>1, <1>4 DEF ShutsDown
<1> QED  BY <1>3, <1>5

\* attach() gives up: what it has made is to be released, unless the thread
\* could not be created, or the client is mqtt's.
LEMMA Aborts ==
    ASSUME AdapterInv, Attaching, recv = "none", "sub" \notin open, "subtok" \notin open,
           UNCHANGED <<which, ends, outcome, open, sink, connected, receiver, using>>,
           NEW p, prog' = p, p # <<>>, Proper(p), Goal(p) \in {"threw", "unspawned"},
           \A i \in 1..Len(p) : p[i].do # "make",
           which # "mqtt" /\ Goal(p) = "threw" => ShutsDown(p)
    PROVE  AdapterInv' /\ Progresses
<1> USE DEF AdapterInv
<1>1. Threaded' = Threaded /\ Hearing' = Hearing /\ Handles' = Handles /\ Polled' = Polled
  BY SameAdapter
<1>2. Proper(prog)' /\ prog' # <<>> /\ Goal(prog)' \in {"threw", "unspawned"}
  BY SameProgram DEF Goal
<1>3. /\ ~Attaching' /\ ~Idle' /\ Goal(prog)' # "detached" /\ outcome' # "attached"
      /\ outcome' # "freed" /\ outcome' # "detached"
  BY <1>2 DEF Attaching, Idle, AdapterTypes
<1>4. AdapterTypes'
  <2>1. \A i \in 1..Len(prog') : prog'[i].do # "make"
    OBVIOUS
  <2> QED  BY <1>1, <1>2, <1>3, <2>1 DEF AdapterTypes, receiver
<1>5. ReceiverInv'
  BY <1>3 DEF ReceiverInv, Subscribed, receiver
<1>6. PolledInv'
  BY <1>3 DEF PolledInv, receiver
<1>7. ReleaseInv'
  <2>1. \A s, h : Ends(s, h)' <=> Ends(s, h)
    BY DEF Ends, Close, Do
  <2>2. Goal(prog)' = Goal(p) /\ (Left("offline")' <=> \E i \in 1..Len(p) : p[i].do = "offline")
    BY DEF Goal, Left
  <2>3. ASSUME which # "mqtt", Goal(p) = "threw"
        PROVE  /\ \A h \in open' : \E i \in 1..Len(p) : Ends(p[i], h)
               /\ connected' => Left("offline")'
    <3>1. ShutsDown(p)
      BY <2>3
    <3>2. \A h \in open' : h \in Handles
      BY DEF AdapterTypes
    <3> QED  BY <2>2, <2>3, <3>1, <3>2 DEF ShutsDown
  <2> QED  BY <1>2, <1>3, <2>1, <2>2, <2>3 DEF ReleaseInv, receiver
<1>9. Progresses
  BY <1>2 DEF Progresses, Attaching, receiver
<1> QED  BY <1>4, <1>5, <1>6, <1>7, <1>9

\* A step of attach() before the receiver is there.
LEMMA AttachingStep ==
    ASSUME AdapterTypes, ReceiverInv, prog # <<>>, Head(prog).do \in AttachSteps \ {"online"}
    PROVE  Attaching /\ recv = "none" /\ "sub" \notin open /\ "subtok" \notin open
<1>1. Head(prog).do # "end"
  BY DEF AttachSteps
<1>2. Proper(prog) /\ prog \in Seq(Step) /\ 1 \in 1..Len(prog) /\ Head(prog) = prog[1]
  BY DEF AdapterTypes, Proper, Body
<1> QED  BY <1>1, <1>2, NotRunning DEF Proper, Attaching

\* The thread of zmq or redis cannot be created.
LEMMA StepSpawnFails ==
    ASSUME AdapterInv, SpawnFails
    PROVE  AdapterInv' /\ Progresses
<1>1. Attaching /\ recv = "none" /\ "sub" \notin open /\ "subtok" \notin open
  BY AttachingStep DEF AdapterInv, SpawnFails, At, AttachSteps
<1>2. PICK p : p = <<End("unspawned")>>
  OBVIOUS
<1>3. /\ p \in Seq(Step) /\ Len(p) = 1 /\ p # <<>> /\ Goal(p) = "unspawned"
      /\ \A i \in 1..Len(p) : p[i].do = "end"
  BY <1>2 DEF End, Step, Outcomes, Goal
<1>4. Proper(p)
  BY <1>3 DEF Proper, Body, Outcomes, AttachSteps, ShutdownSteps, EndReceiver, EndMessages,
     Releases
<1> QED  BY <1>1, <1>2, <1>3, <1>4, Aborts DEF SpawnFails, object

\* Set-up fails: mqtt leaves its client as it is, ...
LEMMA StepMqttFails ==
    ASSUME AdapterInv, which = "mqtt", Mqtt!SetupFails
    PROVE  AdapterInv' /\ Progresses
<1>1. Attaching /\ recv = "none" /\ "sub" \notin open /\ "subtok" \notin open
  BY AttachingStep DEF AdapterInv, Mqtt!SetupFails, Mqtt!At, AttachSteps
<1>2. PICK p : p = <<End("threw")>>
  OBVIOUS
<1>3. /\ p \in Seq(Step) /\ Len(p) = 1 /\ p # <<>> /\ Goal(p) = "threw"
      /\ \A i \in 1..Len(p) : p[i].do = "end"
  BY <1>2 DEF End, Step, Outcomes, Goal
<1>4. Proper(p)
  BY <1>3 DEF Proper, Body, Outcomes, AttachSteps, ShutdownSteps, EndReceiver, EndMessages,
     Releases
<1> QED  BY <1>1, <1>2, <1>3, <1>4, Aborts DEF Mqtt!SetupFails, Mqtt!End, Mqtt!object,
            Mqtt!receiver,
            End, receiver

\* ... and the others shut down.
LEMMA StepSetupFails ==
    ASSUME AdapterInv, \/ which = "zmq" /\ Zmq!SetupFails
                       \/ which = "redis" /\ Redis!SetupFails
                       \/ which = "nats" /\ Nats!SetupFails
    PROVE  AdapterInv' /\ Progresses
<1>1. prog # <<>> /\ Head(prog).do \in {"context", "make", "subscribe"}
  BY DEF Zmq!SetupFails, Redis!SetupFails, Nats!SetupFails, Zmq!At, Redis!At, Nats!At
<1>2. Attaching /\ recv = "none" /\ "sub" \notin open /\ "subtok" \notin open
  BY <1>1, AttachingStep DEF AdapterInv, AttachSteps
<1>3. PICK t : t = <<End("threw")>>
  OBVIOUS
<1>4. t \in Endings /\ t[Len(t)].on = "threw"
  BY <1>3 DEF Endings, End
<1>5. PICK p : p = Shutting \o t
  OBVIOUS
<1>6. prog' = p
  BY <1>3, <1>5 DEF Shutting, Of, Zmq!SetupFails, Redis!SetupFails, Nats!SetupFails, Zmq!End,
     Redis!End,
                    Nats!End, End
<1>7. UNCHANGED <<which, ends, outcome, open, sink, connected, receiver, using>>
  BY DEF Zmq!SetupFails, Redis!SetupFails, Nats!SetupFails, Zmq!object, Zmq!receiver,
     Redis!object,
         Redis!receiver, Nats!object, Nats!receiver, receiver
<1>8. which \in Adapters
  BY DEF AdapterInv, AdapterTypes
<1>9. /\ Proper(p) /\ Goal(p) = "threw" /\ p # <<>> /\ ShutsDown(p)
      /\ \A i \in 1..Len(p) : p[i].do \notin AttachSteps
  BY <1>4, <1>5, <1>8, ShutdownProper
<1>10. \A i \in 1..Len(p) : p[i].do # "make"
  BY <1>9 DEF AttachSteps
<1> QED  BY <1>2, <1>6, <1>7, <1>9, <1>10, Aborts

\* attach() begins, on an adapter that the bus does not have.
LEMMA StartAttach ==
    ASSUME AdapterInv, prog = <<>>, outcome \notin {"attached", "detached", "freed"},
           prog' = AttachProgram, sink' = TRUE,
           UNCHANGED <<which, ends, outcome, open, connected, receiver>>
    PROVE  AdapterInv'
<1> USE DEF AdapterInv
<1>1. PICK p : p = AttachProgram
  OBVIOUS
<1>2. which \in Adapters
  BY DEF AdapterTypes
<1>3. /\ Proper(p) /\ Goal(p) = "attached" /\ p # <<>>
      /\ \A i \in 1..Len(p) : p[i].do \notin ShutdownSteps
      /\ \A i \in 1..Len(p) : p[i].do = "make" => p[i].on \in Handles \ {"sub", "subtok"}
      /\ Hearing => \A h \in Polled : \E i \in 1..Len(p) : p[i] = Make(h)
  BY <1>1, <1>2, AttachProper
<1>4. Threaded' = Threaded /\ Hearing' = Hearing /\ Handles' = Handles /\ Polled' = Polled
  BY SameAdapter
<1>5. prog' = p /\ Proper(prog)' /\ Goal(prog)' = "attached" /\ Attaching' /\ ~Idle'
  BY <1>1, <1>3, SameProgram DEF Goal, Attaching, Idle
<1>6. recv = "none" /\ "sub" \notin open /\ "subtok" \notin open
  <2>1. ~Starting /\ \A steps : ~Live(steps)
    BY DEF Live, Starting, Attaching, Idle
  <2> QED  BY <2>1 DEF ReceiverInv, Subscribed
<1>7. AdapterTypes'
  BY <1>3, <1>4, <1>5 DEF AdapterTypes, receiver
<1>8. ReceiverInv'
  BY <1>5, <1>6 DEF ReceiverInv, Subscribed, receiver
<1>9. PolledInv'
  BY <1>3, <1>4, <1>5, <1>6 DEF PolledInv, receiver, Make
<1>10. ReleaseInv'
  BY <1>3, <1>5 DEF ReleaseInv, receiver
<1> QED  BY <1>7, <1>8, <1>9, <1>10

\* detach() begins on an adapter that is attached, the destructor on one that is not.
LEMMA StartShutdown ==
    ASSUME AdapterInv, prog = <<>>, outcome # "freed", NEW t \in Endings,
           prog' = Shutting \o t, t[Len(t)].on # "threw",
           t[Len(t)].on = "detached" <=> outcome = "attached",
           UNCHANGED <<which, ends, outcome, open, sink, connected, receiver>>
    PROVE  AdapterInv'
<1> USE DEF AdapterInv
<1>1. PICK p : p = Shutting \o t
  OBVIOUS
<1>2. which \in Adapters
  BY DEF AdapterTypes
<1>3. /\ Proper(p) /\ Goal(p) = t[Len(t)].on /\ p # <<>> /\ ShutsDown(p)
      /\ \A i \in 1..Len(p) : p[i].do \notin AttachSteps
  BY <1>1, <1>2, ShutdownProper
<1>4. Threaded' = Threaded /\ Hearing' = Hearing /\ Handles' = Handles /\ Polled' = Polled
  BY SameAdapter
<1>5. prog' = p /\ Proper(prog)' /\ Goal(prog)' = Goal(p) /\ Goal(p) \in {"detached", "freed"}
  BY <1>1, <1>3, SameProgram, EndingFacts DEF Goal
<1>6. ~Attaching' /\ ~Idle'
  BY <1>3, <1>5 DEF Attaching, Idle
<1>7. AdapterTypes'
  BY <1>3, <1>4, <1>5 DEF AdapterTypes, AttachSteps, receiver
<1>8. ReceiverInv'
  <2>1. ~Starting /\ (Idle <=> outcome = "attached") /\ \A x : Left(x) => FALSE
    BY DEF Starting, Attaching, Idle, Left
  <2>2. Threaded => (Live(EndReceiver) => Live(EndReceiver)')
    BY <1>3, <1>5, <2>1 DEF ShutsDown, Left, Live
  <2>3. ~Threaded => (Live(EndMessages) => Live(EndMessages)')
    BY <1>3, <1>5, <2>1 DEF ShutsDown, Left, Live
  <2> QED  BY <1>4, <1>6, <2>1, <2>2, <2>3 DEF ReceiverInv, Subscribed, receiver
<1>9. PolledInv'
  BY <1>4, <1>6 DEF PolledInv, receiver
<1>10. ReleaseInv'
  <2>1. \A s, h : Ends(s, h)' <=> Ends(s, h)
    BY DEF Ends, Close, Do
  <2>2. Left("offline")' <=> \E i \in 1..Len(p) : p[i].do = "offline"
    BY <1>5 DEF Left
  <2>3. which # "mqtt" => /\ \A h \in open' : \E i \in 1..Len(p) : Ends(p[i], h)
                          /\ Left("offline")'
    BY <1>3, <2>2 DEF ShutsDown, AdapterTypes
  <2> QED  BY <1>3, <1>5, <2>1, <2>3 DEF ReleaseInv, receiver
<1> QED  BY <1>7, <1>8, <1>9, <1>10

\* The end of a program is all that is left of it.
LEMMA AtEnd ==
    ASSUME AdapterTypes, At("end")
    PROVE  /\ prog # <<>> /\ Goal(prog) = Head(prog).on /\ Head(prog).on \in Outcomes
           /\ \A i \in 1..Len(prog) : prog[i] = Head(prog)
           /\ \A x : Left(x) => x = "end"
<1>1. prog # <<>> /\ Head(prog).do = "end" /\ Proper(prog)
  BY DEF At, AdapterTypes
<1>2. prog \in Seq(Step) /\ 1 \in 1..Len(prog) /\ Head(prog) = prog[1]
  BY <1>1 DEF Proper, Body
<1>3. 1 = Len(prog)
  BY <1>1, <1>2 DEF Proper
<1>4. \A i \in 1..Len(prog) : i = 1
  BY <1>3
<1>5. Goal(prog) = Head(prog).on
  BY <1>2, <1>3 DEF Goal
<1>6. Head(prog).on \in Outcomes
  BY <1>1, <1>5 DEF Proper
<1> QED  BY <1>1, <1>2, <1>4, <1>5, <1>6 DEF Left

\* attach(), detach() or the destructor ends.
LEMMA StepFinish ==
    ASSUME AdapterInv, Finish
    PROVE  AdapterInv'
<1> USE DEF AdapterInv
<1>1. /\ prog # <<>> /\ Goal(prog) = Head(prog).on /\ Head(prog).on \in Outcomes
      /\ \A i \in 1..Len(prog) : prog[i] = Head(prog)
      /\ \A x : Left(x) => x = "end"
  BY AtEnd DEF Finish
<1>2. /\ Head(prog).do = "end" /\ prog' = <<>> /\ outcome' = Goal(prog)
      /\ UNCHANGED <<which, ends, open, sink, connected, recv, stop, wake, inbox>>
  BY <1>1 DEF Finish, At, object, receiver
<1>3. Threaded' = Threaded /\ Hearing' = Hearing /\ Handles' = Handles /\ Polled' = Polled
  BY <1>2, SameAdapter
<1>4. ~Attaching' /\ (Idle' <=> Attaching) /\ ~Idle
  BY <1>1, <1>2 DEF Attaching, Idle
<1>5. /\ Live(EndReceiver) => Idle'
      /\ Live(EndMessages) => Idle'
      /\ Starting => outcome' = "attached"
  BY <1>1, <1>2, <1>4 DEF Live, Starting, Attaching, EndReceiver, EndMessages
<1>6. AdapterTypes'
  BY <1>1, <1>2, <1>3 DEF AdapterTypes
<1>7. ReceiverInv'
  <2>1. outcome \in {"attached", "detached"} => Goal(prog) \in {"detached", "freed"}
    BY <1>1 DEF AdapterTypes, Outcomes
  <2>2. outcome # "freed"
    BY <1>1 DEF AdapterTypes
  <2> QED  BY <1>2, <1>3, <1>4, <1>5, <2>1, <2>2 DEF ReceiverInv, Subscribed, Live
<1>8. PolledInv'
  BY <1>2, <1>3, <1>4 DEF PolledInv
<1>9. ReleaseInv'
  <2>1. \A h : \A i \in 1..Len(prog) : ~Ends(prog[i], h)
    BY <1>1, <1>2 DEF Ends, Close, Do
  <2>2. which # "mqtt" /\ Goal(prog) \in {"threw", "detached"} => open = {} /\ ~connected
    BY <1>1, <2>1 DEF ReleaseInv
  <2> QED  BY <1>2, <2>2 DEF ReleaseInv
<1> QED  BY <1>6, <1>7, <1>8, <1>9

-----------------------------------------------------------------------------
(* The receiver, and what comes from outside *)

\* What a step of the receiver does: it goes on as long as it has something to
\* wait for.
ReceiverMoves ==
    /\ UNCHANGED <<which, ends, prog, outcome, open, sink, connected>>
    /\ recv \notin {"none", "ended"}
    /\ recv' \in {"none", "check", "poll", "deliver", "handler", "nested", "report", "ended"}
    /\ stop' \in BOOLEAN /\ wake' \in BOOLEAN
    /\ inbox' \in Nat /\ (inbox' # 0 => inbox # 0)
    /\ Threaded => recv' # "none"
    /\ ~Threaded => /\ recv' \notin {"check", "ended"}
                    /\ recv' = "poll" => "sub" \in open
                    /\ "sub" \in open => recv' # "none"

\* A move of the receiver keeps the invariant of the adapter.
LEMMA StepReceiver ==
    ASSUME AdapterInv, ReceiverMoves
    PROVE  AdapterInv'
<1> USE DEF AdapterInv
<1>1. /\ UNCHANGED <<which, ends, prog, outcome, open, sink, connected>>
      /\ recv \notin {"none", "ended"}
  BY DEF ReceiverMoves
<1>2. Threaded' = Threaded /\ Hearing' = Hearing /\ Handles' = Handles /\ Polled' = Polled
  BY <1>1, SameAdapter
<1>3. /\ Attaching' <=> Attaching
      /\ Idle' <=> Idle
      /\ Starting' <=> Starting
      /\ \A x : Left(x)' <=> Left(x)
      /\ \A steps : Live(steps)' <=> Live(steps)
      /\ Goal(prog)' = Goal(prog)
  BY <1>1 DEF Attaching, Idle, Left, Goal, Starting, Live
<1>4. AdapterTypes'
  <2>1. Proper(prog)' <=> Proper(prog)
    <3>1. PICK p : p = prog
      OBVIOUS
    <3>2. Proper(p)' <=> Proper(p)
      BY <1>1, SameProgram
    <3> QED  BY <1>1, <3>1, <3>2
  <2> QED  BY <1>1, <1>2, <1>3, <2>1 DEF AdapterTypes, ReceiverMoves
<1>5. ReceiverInv'
  BY <1>1, <1>2, <1>3 DEF ReceiverInv, ReceiverMoves, Subscribed
<1>6. PolledInv'
  BY <1>1, <1>2, <1>3 DEF PolledInv, Make
<1>7. ReleaseInv'
  BY <1>1, <1>3 DEF ReleaseInv, ReceiverMoves, Ends, Close, Do
<1> QED  BY <1>4, <1>5, <1>6, <1>7

\* The receiver of zmq: run_loop().
LEMMA ZmqReceives ==
    ASSUME AdapterInv, which = "zmq", Zmq!ReceiverStep
    PROVE  ReceiverMoves /\ recv # "nested" /\ UNCHANGED using
<1> USE DEF AdapterInv, Zmq!RecvGoes, Zmq!RecvTakes, Zmq!object, ReceiverMoves
<1>1. /\ Threaded /\ inbox \in Nat /\ stop \in BOOLEAN /\ wake \in BOOLEAN
  BY DEF Threaded, AdapterTypes
<1>2. CASE Zmq!CheckStop
  BY <1>1, <1>2 DEF Zmq!CheckStop
<1>3. CASE Zmq!PollTimeout
  BY <1>1, <1>3 DEF Zmq!PollTimeout
<1>4. CASE Zmq!PollError
  BY <1>1, <1>4 DEF Zmq!PollError
<1>5. CASE Zmq!PollWoken
  BY <1>1, <1>5 DEF Zmq!PollWoken
<1>6. CASE Zmq!PollMessage
  BY <1>1, <1>6 DEF Zmq!PollMessage
<1>7. CASE Zmq!DropFrame
  BY <1>1, <1>7 DEF Zmq!DropFrame
<1>8. CASE Zmq!DeliverBytes
  BY <1>1, <1>8 DEF Zmq!DeliverBytes, Zmq!DeliverOrReport, Zmq!Back
<1> QED  BY <1>2, <1>3, <1>4, <1>5, <1>6, <1>7, <1>8 DEF Zmq!ReceiverStep

\* The subscriber thread of redis.
LEMMA RedisReceives ==
    ASSUME AdapterInv, which = "redis", Redis!ReceiverStep
    PROVE  ReceiverMoves /\ recv # "nested" /\ UNCHANGED using
<1> USE DEF AdapterInv, Redis!RecvGoes, Redis!RecvTakes, Redis!object, ReceiverMoves
<1>1. /\ Threaded /\ inbox \in Nat /\ stop \in BOOLEAN /\ wake \in BOOLEAN
  BY DEF Threaded, AdapterTypes
<1>2. CASE Redis!CheckStop
  BY <1>1, <1>2 DEF Redis!CheckStop
<1>3. CASE Redis!ConsumeMessage
  BY <1>1, <1>3 DEF Redis!ConsumeMessage
<1>4. CASE Redis!ConsumeTimeout
  BY <1>1, <1>4 DEF Redis!ConsumeTimeout
<1>5. CASE Redis!ConsumeError
  BY <1>1, <1>5 DEF Redis!ConsumeError
<1>6. CASE Redis!Deliver
  BY <1>1, <1>6 DEF Redis!Deliver, Redis!DeliverOrReport, Redis!Back
<1> QED  BY <1>2, <1>3, <1>4, <1>5, <1>6 DEF Redis!ReceiverStep

\* msg_handler() of nats and message_arrived() of mqtt.
LEMMA NatsReceives ==
    ASSUME AdapterInv, which = "nats", Nats!ReceiverStep
    PROVE  ReceiverMoves /\ recv # "nested" /\ UNCHANGED using
<1> USE DEF AdapterInv, Nats!RecvGoes, Nats!RecvTakes, Nats!object, ReceiverMoves
<1>1. /\ ~Threaded /\ inbox \in Nat /\ stop \in BOOLEAN /\ wake \in BOOLEAN
  BY DEF Threaded, AdapterTypes
<1>2. CASE Nats!MessageHandler
  BY <1>1, <1>2 DEF Nats!MessageHandler
<1>3. CASE Nats!DeliverBytes
  BY <1>1, <1>3 DEF Nats!DeliverBytes, Nats!DeliverOrReport, Nats!Back
<1> QED  BY <1>2, <1>3 DEF Nats!ReceiverStep

\* The callbacks of mqtt do the same.
LEMMA MqttReceives ==
    ASSUME AdapterInv, which = "mqtt", Mqtt!ReceiverStep
    PROVE  ReceiverMoves /\ recv # "nested" /\ UNCHANGED using
<1> USE DEF AdapterInv, Mqtt!RecvGoes, Mqtt!RecvTakes, Mqtt!object, ReceiverMoves
<1>1. /\ ~Threaded /\ inbox \in Nat /\ stop \in BOOLEAN /\ wake \in BOOLEAN
  BY DEF Threaded, AdapterTypes
<1>2. CASE Mqtt!MessageArrived
  BY <1>1, <1>2 DEF Mqtt!MessageArrived
<1>3. CASE Mqtt!Deliver
  BY <1>1, <1>3 DEF Mqtt!Deliver, Mqtt!DeliverOrReport, Mqtt!Back
<1> QED  BY <1>2, <1>3 DEF Mqtt!ReceiverStep

\* Every step of the receiver is a move; only the end of a handler ends a nested
\* publish.
LEMMA ReceiverSteps ==
    ASSUME AdapterInv, ReceiverStep
    PROVE  /\ ReceiverMoves /\ UNCHANGED <<vars, using>>
           /\ recv = "nested" => pc[rx] = "idle"
<1>1. /\ which \in {"zmq", "redis", "nats", "mqtt"} /\ inbox \in Nat /\ stop \in BOOLEAN
      /\ wake \in BOOLEAN
  BY AdaptersAssumption DEF AdapterInv, AdapterTypes
<1>2. CASE HandlerEnd
  BY <1>1, <1>2 DEF HandlerEnd, RecvGoes, Back, object, ReceiverMoves, Threaded
<1>3. CASE ReportEnd /\ UNCHANGED vars
  BY <1>1, <1>3 DEF ReportEnd, RecvGoes, Back, object, ReceiverMoves, Threaded
<1>4. CASE /\ Of(Zmq!ReceiverStep, Redis!ReceiverStep, Nats!ReceiverStep, Mqtt!ReceiverStep)
           /\ UNCHANGED vars
  <2>1. CASE which = "zmq"
    BY <1>4, <2>1, ZmqReceives DEF Of
  <2>2. CASE which = "redis"
    BY <1>4, <2>2, RedisReceives DEF Of
  <2>3. CASE which = "nats"
    BY <1>4, <2>3, NatsReceives DEF Of
  <2>4. CASE which = "mqtt"
    BY <1>4, <2>4, MqttReceives DEF Of
  <2> QED  BY <1>1, <2>1, <2>2, <2>3, <2>4
<1> QED  BY <1>2, <1>3, <1>4 DEF ReceiverStep

\* Steps that change nothing of the adapter but who uses it.
LEMMA StepUnchanged ==
    ASSUME AdapterInv,
           UNCHANGED <<which, ends, prog, outcome, open, sink, connected, receiver>>
    PROVE  AdapterInv'
<1> USE DEF AdapterInv, receiver
<1>1. Threaded' = Threaded /\ Hearing' = Hearing /\ Handles' = Handles /\ Polled' = Polled
  BY SameAdapter
<1>2. /\ Attaching' <=> Attaching
      /\ Idle' <=> Idle
      /\ Starting' <=> Starting
      /\ \A x : Left(x)' <=> Left(x)
      /\ \A steps : Live(steps)' <=> Live(steps)
      /\ Goal(prog)' = Goal(prog)
  BY DEF Attaching, Idle, Left, Goal, Starting, Live
<1>3. AdapterTypes'
  <2>1. Proper(prog)' <=> Proper(prog)
    <3>1. PICK p : p = prog
      OBVIOUS
    <3>2. Proper(p)' <=> Proper(p)
      BY SameProgram
    <3> QED  BY <3>1, <3>2
  <2> QED  BY <1>1, <1>2, <2>1 DEF AdapterTypes
<1>4. ReceiverInv'
  BY <1>1, <1>2 DEF ReceiverInv, Subscribed
<1>5. PolledInv'
  BY <1>1, <1>2 DEF PolledInv, Make
<1>6. ReleaseInv'
  BY <1>2 DEF ReleaseInv, Ends, Close, Do
<1> QED  BY <1>3, <1>4, <1>5, <1>6

\* Messages arrive, and the broker comes and goes.
LEMMA StepEnvironment ==
    ASSUME AdapterInv, Environment
    PROVE  AdapterInv' /\ UNCHANGED <<vars, using, prog, outcome, which, ends>>
           /\ (recv = "nested" => recv' = "nested")
           /\ open \ {"sub", "subtok", "tok"} \subseteq open'
<1> USE DEF AdapterInv
<1>1. /\ UNCHANGED <<vars, which, ends, prog, outcome, sink, stop, wake, using>>
      /\ \/ /\ UNCHANGED <<open, recv, connected>> /\ inbox' = inbox + 1
            /\ open \cap {"inbound", "subscriber", "sub"} # {}
         \/ /\ which = "mqtt" /\ "tok" \in open /\ connected' = TRUE
            /\ UNCHANGED <<open, recv, inbox>>
         \/ /\ which = "mqtt" /\ "subtok" \in open /\ open' = (open \ {"subtok"}) \cup {"sub"}
            /\ recv' = "poll" /\ UNCHANGED <<connected, inbox>>
         \/ /\ which = "mqtt" /\ connected' = FALSE /\ inbox' = 0
            /\ open' = open \ {"sub", "subtok", "tok"}
            /\ recv' = IF Delivering THEN recv ELSE "none"
  BY DEF Environment, Arrive, Mqtt!LateConnect, Mqtt!LateSuback, Mqtt!ConnectionLost,
     Mqtt!Delivering, Delivering, object, receiver, Mqtt!object, Mqtt!receiver
<1>2. Threaded' = Threaded /\ Hearing' = Hearing /\ Handles' = Handles /\ Polled' = Polled
  BY <1>1, SameAdapter
<1>3. /\ Attaching' <=> Attaching
      /\ Idle' <=> Idle
      /\ Starting' <=> Starting
      /\ \A x : Left(x)' <=> Left(x)
      /\ \A steps : Live(steps)' <=> Live(steps)
      /\ Goal(prog)' = Goal(prog)
  BY <1>1 DEF Attaching, Idle, Left, Goal, Starting, Live
<1>4. AdapterTypes'
  <2>1. Proper(prog)' <=> Proper(prog)
    <3>1. PICK p : p = prog
      OBVIOUS
    <3>2. Proper(p)' <=> Proper(p)
      BY <1>1, SameProgram
    <3> QED  BY <1>1, <3>1, <3>2
  <2>2. open' \subseteq Handles /\ connected' \in BOOLEAN
    BY <1>1 DEF AdapterTypes, Handles, Of
  <2>4. inbox' \in Nat
    BY <1>1 DEF AdapterTypes
  <2>3. recv' \in {"none", "check", "poll", "deliver", "handler", "nested", "report", "ended"}
    BY <1>1 DEF AdapterTypes
  <2> QED  BY <1>1, <1>2, <1>3, <2>1, <2>2, <2>3, <2>4 DEF AdapterTypes
<1>5. ReceiverInv'
  <2>1. \/ UNCHANGED <<open, recv>>
        \/ /\ ~Threaded /\ Subscribed /\ recv' = "poll"
           /\ "sub" \in open' /\ "subtok" \notin open'
        \/ /\ ~Threaded /\ "sub" \notin open' /\ "subtok" \notin open'
           /\ recv' # "poll" /\ recv' \in {recv, "none"}
    BY <1>1 DEF Threaded, Delivering, Subscribed
  <2>2. CASE UNCHANGED <<open, recv>>
    BY <1>1, <1>2, <1>3, <2>2 DEF ReceiverInv, Subscribed
  <2>3. CASE ~Threaded /\ Subscribed /\ recv' = "poll" /\ "sub" \in open' /\ "subtok" \notin open'
    BY <1>1, <1>2, <1>3, <2>3 DEF ReceiverInv, Live, Idle
  <2>4. CASE /\ ~Threaded /\ "sub" \notin open' /\ "subtok" \notin open'
             /\ recv' # "poll" /\ recv' \in {recv, "none"}
    BY <1>1, <1>2, <1>3, <2>4 DEF ReceiverInv, Subscribed
  <2> QED  BY <2>1, <2>2, <2>3, <2>4
<1>6. PolledInv'
  <2>1. UNCHANGED <<open, recv>> \/ Polled = {}
    BY <1>1 DEF Polled, Of, Mqtt!Polled
  <2> QED  BY <1>1, <1>2, <1>3, <2>1 DEF PolledInv, Make
<1>7. ReleaseInv'
  <2>1. inbox' # 0 => open' \cap {"inbound", "subscriber", "sub"} # {}
    BY <1>1 DEF ReleaseInv
  <2>2. which # "mqtt" => UNCHANGED <<open, connected>>
    BY <1>1
  <2> QED  BY <1>1, <1>3, <2>1, <2>2 DEF ReleaseInv, Ends, Close, Do
<1>8. "subtok" \in open => recv = "none"
  BY DEF ReceiverInv
<1>9. (recv = "nested" => recv' = "nested") /\ open \ {"sub", "subtok", "tok"} \subseteq open'
  BY <1>1, <1>8 DEF Delivering
<1> QED  BY <1>1, <1>4, <1>5, <1>6, <1>7, <1>9

\* The constants of a session.
LEMMA SessionFacts ==
    ASSUME Disciplined
    PROVE  /\ rx \in Threads /\ remote \in Transports /\ Orderly /\ Callbacks = {rx}
           /\ Ops[rx] \subseteq {"publish"}
           /\ Application \subseteq Threads /\ \A th \in Threads : th = rx \/ th \in Application
           /\ rx \notin Application
  BY CallbacksAssumption, RemoteAssumption DEF Disciplined, Application

\* The bus when use_transport() begins.
LEMMA BusUseTransport ==
    ASSUME Disciplined, BusInv, NEW th \in Application, NEW t \in Transports,
           UseTransport(th, t)
    PROVE  BusInv'
<1> USE SessionFacts DEF BusInv
<1>1. TypeOK'
  BY DEF UseTransport, MayCall, Enter, TypeOK, Labels
<1>2. Snapshots'
  BY DEF UseTransport, MayCall, Enter, TypeOK, Snapshots
<1>3. Phases'
  BY DEF UseTransport, MayCall, Enter, TypeOK, Phases, ShutdownLabels, AllQuiet
<1>4. Covered'
  BY DEF UseTransport, MayCall, Enter, TypeOK, Snapshots, Phases, Covered, Looping,
     ShutdownLabels
<1>5. OwnPending'
  BY DEF UseTransport, MayCall, Enter, TypeOK, Snapshots, Phases, OwnPending, Ahead, Looping,
     ShutdownLabels
<1> QED  BY <1>1, <1>2, <1>3, <1>4, <1>5

\* The bus when use_transport() inserts.
LEMMA BusInsertTransport ==
    ASSUME Disciplined, BusInv, NEW th \in Threads, InsertTransport(th)
    PROVE  BusInv'
<1> USE SessionFacts DEF BusInv
<1>1. TypeOK'
  BY DEF InsertTransport, Leave, TypeOK, Labels
<1>2. Snapshots'
  BY DEF InsertTransport, Leave, TypeOK, Snapshots
<1>3. Phases'
  BY DEF InsertTransport, Leave, TypeOK, Phases, ShutdownLabels, AllQuiet
<1>4. Covered'
  BY DEF InsertTransport, Leave, TypeOK, Snapshots, Phases, Covered, Looping, ShutdownLabels
<1>5. OwnPending'
  BY DEF InsertTransport, Leave, TypeOK, Snapshots, Phases, OwnPending, Ahead, Looping,
     ShutdownLabels
<1> QED  BY <1>1, <1>2, <1>3, <1>4, <1>5

\* The bus when an attach() throws.
LEMMA BusGiveUp ==
    ASSUME Disciplined, BusInv, NEW th \in Threads, GiveUp(th)
    PROVE  BusInv'
<1> USE SessionFacts DEF BusInv
<1>1. TypeOK'
  BY DEF GiveUp, Leave, TypeOK, Labels
<1>2. Snapshots'
  BY DEF GiveUp, Leave, TypeOK, Snapshots
<1>3. Phases'
  BY DEF GiveUp, Leave, TypeOK, Phases, ShutdownLabels, AllQuiet
<1>4. Covered'
  BY DEF GiveUp, Leave, TypeOK, Snapshots, Phases, Covered, Looping, ShutdownLabels
<1>5. OwnPending'
  BY DEF GiveUp, Leave, TypeOK, Snapshots, Phases, OwnPending, Ahead, Looping, ShutdownLabels
<1> QED  BY <1>1, <1>2, <1>3, <1>4, <1>5

\* The bus when publish() begins.
LEMMA BusPublish ==
    ASSUME Disciplined, BusInv, NEW th \in Threads, Publish(th)
    PROVE  BusInv'
<1> USE SessionFacts DEF BusInv
<1>1. TypeOK'
  BY DEF Publish, MayCall, Enter, TypeOK, Labels
<1>2. Snapshots'
  BY DEF Publish, MayCall, Enter, TypeOK, Snapshots
<1>3. Phases'
  BY DEF Publish, MayCall, Enter, TypeOK, Phases, ShutdownLabels, AllQuiet
<1>4. Covered'
  BY DEF Publish, MayCall, Enter, TypeOK, Snapshots, Phases, Covered, Looping, ShutdownLabels
<1>5. OwnPending'
  BY DEF Publish, MayCall, Enter, TypeOK, Snapshots, Phases, OwnPending, Ahead, Looping,
     ShutdownLabels
<1> QED  BY <1>1, <1>2, <1>3, <1>4, <1>5

\* The bus when publish() hands a unit to a local transport.
LEMMA BusDispatch ==
    ASSUME Disciplined, BusInv, NEW th \in Threads, NEW t \in Local, Dispatch(th, t)
    PROVE  BusInv'
<1> USE SessionFacts DEF BusInv
<1>1. TypeOK'
  BY DEF Dispatch, First, Local, TypeOK, Labels
<1>2. Snapshots'
  BY DEF Dispatch, First, Local, TypeOK, Snapshots
<1>3. Phases'
  BY DEF Dispatch, First, Local, TypeOK, Phases, ShutdownLabels, AllQuiet
<1>4. Covered'
  BY DEF Dispatch, First, Local, TypeOK, Snapshots, Phases, Covered, Looping, ShutdownLabels
<1>5. OwnPending'
  BY DEF Dispatch, First, Local, TypeOK, Snapshots, Phases, OwnPending, Ahead, Looping,
     ShutdownLabels
<1> QED  BY <1>1, <1>2, <1>3, <1>4, <1>5

\* The bus when publish() has visited the adapter.
LEMMA BusVisit ==
    ASSUME Disciplined, BusInv, NEW th \in Threads, Visit(th)
    PROVE  BusInv'
<1> USE SessionFacts DEF BusInv
<1>1. TypeOK'
  BY DEF Visit, Visited, TypeOK, Labels
<1>2. Snapshots'
  BY DEF Visit, Visited, TypeOK, Snapshots
<1>3. Phases'
  BY DEF Visit, Visited, TypeOK, Phases, ShutdownLabels, AllQuiet
<1>4. Covered'
  BY DEF Visit, Visited, TypeOK, Snapshots, Phases, Covered, Looping, ShutdownLabels
<1>5. OwnPending'
  BY DEF Visit, Visited, TypeOK, Snapshots, Phases, OwnPending, Ahead, Looping, ShutdownLabels
<1> QED  BY <1>1, <1>2, <1>3, <1>4, <1>5

\* The bus when publish() returns.
LEMMA BusPublishReturn ==
    ASSUME Disciplined, BusInv, NEW th \in Threads, PublishReturn(th)
    PROVE  BusInv'
<1> USE SessionFacts DEF BusInv
<1>1. TypeOK'
  BY DEF PublishReturn, Leave, TypeOK, Labels
<1>2. Snapshots'
  BY DEF PublishReturn, Leave, TypeOK, Snapshots
<1>3. Phases'
  BY DEF PublishReturn, Leave, TypeOK, Phases, ShutdownLabels, AllQuiet
<1>4. Covered'
  BY DEF PublishReturn, Leave, TypeOK, Snapshots, Phases, Covered, Looping, ShutdownLabels
<1>5. OwnPending'
  BY DEF PublishReturn, Leave, TypeOK, Snapshots, Phases, OwnPending, Ahead, Looping,
     ShutdownLabels
<1> QED  BY <1>1, <1>2, <1>3, <1>4, <1>5

\* The bus when a worker finishes a unit.
LEMMA BusComplete ==
    ASSUME Disciplined, BusInv, NEW th \in Threads, NEW t \in Local, Complete(th, t)
    PROVE  BusInv'
<1> USE SessionFacts DEF BusInv
<1>1. TypeOK'
  BY DEF Complete, Local, TypeOK, Labels
<1>2. Snapshots'
  BY DEF Complete, Local, TypeOK, Snapshots
<1>3. Phases'
  BY DEF Complete, Local, TypeOK, Phases, ShutdownLabels, AllQuiet
<1>4. Covered'
  BY DEF Complete, Local, TypeOK, Snapshots, Phases, Covered, Looping, ShutdownLabels
<1>5. OwnPending'
  BY DEF Complete, Local, TypeOK, Snapshots, Phases, OwnPending, Ahead, Looping, ShutdownLabels
<1> QED  BY <1>1, <1>2, <1>3, <1>4, <1>5

\* The bus when drain() begins.
LEMMA BusDrain ==
    ASSUME Disciplined, BusInv, NEW th \in Application, Drain(th)
    PROVE  BusInv'
<1> USE SessionFacts DEF BusInv
<1>1. TypeOK'
  BY DEF Drain, MayCall, Enter, TypeOK, Labels
<1>2. Snapshots'
  BY DEF Drain, MayCall, Enter, TypeOK, Snapshots
<1>3. Phases'
  BY DEF Drain, MayCall, Enter, TypeOK, Phases, ShutdownLabels, AllQuiet
<1>4. Covered'
  BY DEF Drain, MayCall, Enter, TypeOK, Snapshots, Phases, Covered, Looping, ShutdownLabels
<1>5. OwnPending'
  BY DEF Drain, MayCall, Enter, TypeOK, Snapshots, Phases, OwnPending, Ahead, Looping,
     ShutdownLabels
<1> QED  BY <1>1, <1>2, <1>3, <1>4, <1>5

\* The bus when drain() has flushed a transport.
LEMMA BusDrainFlush ==
    ASSUME Disciplined, BusInv, NEW th \in Threads, NEW t \in Transports, DrainFlush(th, t)
    PROVE  BusInv'
<1> USE SessionFacts DEF BusInv
<1>1. TypeOK'
  BY DEF DrainFlush, First, Drained, TypeOK, Labels
<1>2. Snapshots'
  BY DEF DrainFlush, First, Drained, TypeOK, Snapshots
<1>3. Phases'
  BY DEF DrainFlush, First, Drained, TypeOK, Phases, ShutdownLabels, AllQuiet
<1>4. Covered'
  BY DEF DrainFlush, First, Drained, TypeOK, Snapshots, Phases, Covered, Looping, ShutdownLabels
<1>5. OwnPending'
  BY DEF DrainFlush, First, Drained, TypeOK, Snapshots, Phases, OwnPending, Ahead, Looping,
     ShutdownLabels
<1> QED  BY <1>1, <1>2, <1>3, <1>4, <1>5

\* The bus when drain() returns.
LEMMA BusDrainReturn ==
    ASSUME Disciplined, BusInv, NEW th \in Threads, DrainReturn(th)
    PROVE  BusInv'
<1> USE SessionFacts DEF BusInv
<1>1. TypeOK'
  BY DEF DrainReturn, Leave, TypeOK, Labels
<1>2. Snapshots'
  BY DEF DrainReturn, Leave, TypeOK, Snapshots
<1>3. Phases'
  BY DEF DrainReturn, Leave, TypeOK, Phases, ShutdownLabels, AllQuiet
<1>4. Covered'
  BY DEF DrainReturn, Leave, TypeOK, Snapshots, Phases, Covered, Looping, ShutdownLabels
<1>5. OwnPending'
  BY DEF DrainReturn, Leave, TypeOK, Snapshots, Phases, OwnPending, Ahead, Looping,
     ShutdownLabels
<1> QED  BY <1>1, <1>2, <1>3, <1>4, <1>5

\* The bus when shutdown() begins.
LEMMA BusShutdown ==
    ASSUME Disciplined, BusInv, NEW th \in Application, Shutdown(th)
    PROVE  BusInv'
<1> USE SessionFacts DEF BusInv
<1>1. TypeOK'
  BY DEF Shutdown, MayCall, AllQuiet, TypeOK, Labels
<1>2. Snapshots'
  BY DEF Shutdown, MayCall, AllQuiet, TypeOK, Snapshots
<1>3. Phases'
  BY DEF Shutdown, MayCall, AllQuiet, TypeOK, Phases, ShutdownLabels
<1>4. Covered'
  BY DEF Shutdown, MayCall, AllQuiet, TypeOK, Snapshots, Phases, Covered, Looping,
     ShutdownLabels
<1>5. OwnPending'
  BY DEF Shutdown, MayCall, AllQuiet, TypeOK, Snapshots, Phases, OwnPending, Ahead, Looping,
     ShutdownLabels
<1> QED  BY <1>1, <1>2, <1>3, <1>4, <1>5

\* The bus when ~Bus() begins.
LEMMA BusDestroy ==
    ASSUME Disciplined, BusInv, NEW th \in Application, Destroy(th)
    PROVE  BusInv'
<1> USE SessionFacts DEF BusInv
<1>1. TypeOK'
  BY DEF Destroy, AllQuiet, TypeOK, Labels
<1>2. Snapshots'
  BY DEF Destroy, AllQuiet, TypeOK, Snapshots
<1>3. Phases'
  BY DEF Destroy, AllQuiet, TypeOK, Phases, ShutdownLabels
<1>4. Covered'
  BY DEF Destroy, AllQuiet, TypeOK, Snapshots, Phases, Covered, Looping, ShutdownLabels
<1>5. OwnPending'
  BY DEF Destroy, AllQuiet, TypeOK, Snapshots, Phases, OwnPending, Ahead, Looping,
     ShutdownLabels
<1> QED  BY <1>1, <1>2, <1>3, <1>4, <1>5

\* The bus when shutdown() exchanges shutdown_.
LEMMA BusExchange ==
    ASSUME Disciplined, BusInv, NEW th \in Threads, Exchange(th)
    PROVE  BusInv'
<1> USE SessionFacts DEF BusInv
<1>1. TypeOK'
  BY DEF Exchange, TypeOK, Labels
<1>2. Snapshots'
  BY DEF Exchange, TypeOK, Snapshots
<1>3. Phases'
  BY DEF Exchange, TypeOK, Phases, ShutdownLabels, AllQuiet
<1>4. Covered'
  BY DEF Exchange, TypeOK, Snapshots, Phases, Covered, Looping, ShutdownLabels
<1>5. OwnPending'
  BY DEF Exchange, TypeOK, Snapshots, Phases, OwnPending, Ahead, Looping, ShutdownLabels
<1> QED  BY <1>1, <1>2, <1>3, <1>4, <1>5

\* The bus when shutdown() takes transports_.
LEMMA BusTake ==
    ASSUME Disciplined, BusInv, NEW th \in Threads, Take(th)
    PROVE  BusInv'
<1> USE SessionFacts DEF BusInv
<1>1. TypeOK'
  BY DEF Take, Enter, TypeOK, Labels
<1>2. Snapshots'
  BY DEF Take, Enter, TypeOK, Snapshots
<1>3. Phases'
  BY DEF Take, Enter, TypeOK, Phases, ShutdownLabels, AllQuiet
<1>4. Covered'
  BY DEF Take, Enter, TypeOK, Snapshots, Phases, Covered, Looping, ShutdownLabels
<1>5. OwnPending'
  BY DEF Take, Enter, TypeOK, Snapshots, Phases, OwnPending, Ahead, Looping, ShutdownLabels
<1> QED  BY <1>1, <1>2, <1>3, <1>4, <1>5

\* The bus when shutdown() has flushed a transport.
LEMMA BusShutdownFlush ==
    ASSUME Disciplined, BusInv, NEW th \in Threads, NEW t \in Transports, ShutdownFlush(th, t)
    PROVE  BusInv'
<1> USE SessionFacts DEF BusInv
<1>1. TypeOK'
  BY DEF ShutdownFlush, First, Drained, TypeOK, Labels
<1>2. Snapshots'
  BY DEF ShutdownFlush, First, Drained, TypeOK, Snapshots
<1>3. Phases'
  BY DEF ShutdownFlush, First, Drained, TypeOK, Phases, ShutdownLabels, AllQuiet
<1>4. Covered'
  BY DEF ShutdownFlush, First, Drained, TypeOK, Snapshots, Phases, Covered, Looping,
     ShutdownLabels
<1>5. OwnPending'
  BY DEF ShutdownFlush, First, Drained, TypeOK, Snapshots, Phases, OwnPending, Ahead, Looping,
     ShutdownLabels
<1> QED  BY <1>1, <1>2, <1>3, <1>4, <1>5

\* The bus when shutdown() has detached a transport.
LEMMA BusShutdownDetach ==
    ASSUME Disciplined, BusInv, NEW th \in Threads, NEW t \in Transports, ShutdownDetach(th, t)
    PROVE  BusInv'
<1> USE SessionFacts DEF BusInv
<1>1. TypeOK'
  BY DEF ShutdownDetach, Drained, TypeOK, Labels
<1>2. Snapshots'
  BY DEF ShutdownDetach, Drained, TypeOK, Snapshots
<1>3. Phases'
  BY DEF ShutdownDetach, Drained, TypeOK, Phases, ShutdownLabels, AllQuiet
<1>4. Covered'
  BY DEF ShutdownDetach, Drained, TypeOK, Snapshots, Phases, Covered, Looping, ShutdownLabels
<1>5. OwnPending'
  BY DEF ShutdownDetach, Drained, TypeOK, Snapshots, Phases, OwnPending, Ahead, Looping,
     ShutdownLabels
<1> QED  BY <1>1, <1>2, <1>3, <1>4, <1>5

\* The bus when shutdown() returns.
LEMMA BusShutdownReturn ==
    ASSUME Disciplined, BusInv, NEW th \in Threads, ShutdownReturn(th)
    PROVE  BusInv'
<1> USE SessionFacts DEF BusInv
<1>1. TypeOK'
  BY DEF ShutdownReturn, Leave, TypeOK, Labels
<1>2. Snapshots'
  BY DEF ShutdownReturn, Leave, TypeOK, Snapshots
<1>3. Phases'
  BY DEF ShutdownReturn, Leave, TypeOK, Phases, ShutdownLabels, AllQuiet
<1>4. Covered'
  BY DEF ShutdownReturn, Leave, TypeOK, Snapshots, Phases, Covered, Looping, ShutdownLabels
<1>5. OwnPending'
  BY DEF ShutdownReturn, Leave, TypeOK, Snapshots, Phases, OwnPending, Ahead, Looping,
     ShutdownLabels
<1> QED  BY <1>1, <1>2, <1>3, <1>4, <1>5

\* The bus when the members of the bus are destroyed.
LEMMA BusDestroyMembers ==
    ASSUME Disciplined, BusInv, NEW th \in Threads, DestroyMembers(th)
    PROVE  BusInv'
<1> USE SessionFacts DEF BusInv
<1>1. TypeOK'
  BY DEF DestroyMembers, AllQuiet, TypeOK, Labels
<1>2. Snapshots'
  BY DEF DestroyMembers, AllQuiet, TypeOK, Snapshots
<1>3. Phases'
  BY DEF DestroyMembers, AllQuiet, TypeOK, Phases, ShutdownLabels
<1>4. Covered'
  BY DEF DestroyMembers, AllQuiet, TypeOK, Snapshots, Phases, Covered, Looping, ShutdownLabels
<1>5. OwnPending'
  BY DEF DestroyMembers, AllQuiet, TypeOK, Snapshots, Phases, OwnPending, Ahead, Looping,
     ShutdownLabels
<1> QED  BY <1>1, <1>2, <1>3, <1>4, <1>5

-----------------------------------------------------------------------------
(* The bus and the adapter together *)

\* Every step of attach(), detach() and the destructor.
LEMMA AdapterSteps ==
    ASSUME AdapterInv, AdapterStep
    PROVE  AdapterInv' /\ Progresses /\ UNCHANGED vars
<1>1. which \in {"zmq", "redis", "nats", "mqtt"}
  BY AdaptersAssumption DEF AdapterInv, AdapterTypes
<1>2. CASE OwnerStep
  BY <1>1, <1>2, StepMakeHandle, StepCloseHandle, StepSetConnected, StepSpawnThread,
     StepSpawnFails,
     StepStopThread, StepJoinThread, StepClearSink DEF OwnerStep, AdapterStep
<1>3. CASE Of(Zmq!OwnStep, Redis!OwnStep, Nats!OwnStep, Mqtt!OwnStep)
  <2>1. CASE which = "zmq"
    <3>1. Zmq!OwnStep
      BY <1>3, <2>1 DEF Of
    <3> QED  BY <2>1, <3>1, StepNewContext, StepSetupFails, StepSendWake, StepTermContext
             DEF Zmq!OwnStep, AdapterStep
  <2>2. CASE which = "redis"
    <3>1. Redis!OwnStep
      BY <1>3, <2>2 DEF Of
    <3> QED  BY <2>2, <3>1, StepSetupFails DEF Redis!OwnStep, AdapterStep
  <2>3. CASE which = "nats"
    <3>1. Nats!OwnStep
      BY <1>3, <2>3 DEF Of
    <3> QED  BY <2>3, <3>1, StepSetupFails, StepNatsSubscribe, StepNatsUnsubscribe
             DEF Nats!OwnStep, AdapterStep
  <2>4. CASE which = "mqtt"
    <3>1. Mqtt!OwnStep
      BY <1>3, <2>4 DEF Of
    <3> QED  BY <2>4, <3>1, StepMqttFails, StepMqttConnect, StepMqttSubscribe,
                StepMqttDisconnect
             DEF Mqtt!OwnStep, AdapterStep
  <2> QED  BY <1>1, <2>1, <2>2, <2>3, <2>4
<1> QED  BY <1>2, <1>3 DEF AdapterStep

\* Only a handler can be inside the client library while a program runs, and not
\* while the destructor does.
LEMMA NoUsers ==
    ASSUME Disciplined, IndInv, prog # <<>>, NEW th \in using
    PROVE  th = rx /\ recv = "nested" /\ Goal(prog) # "freed"
<1> USE SessionFacts DEF IndInv, BusInv, AdapterInv
<1>1. th \in Threads
  BY DEF Coupling
<1>2. pc[th] = "dispatch" /\ remote \in todo[th]
  BY DEF Coupling
<1>3. remote \in held[th] /\ Goal(prog) # "freed"
  BY <1>1, <1>2 DEF Snapshots, Coupling
<1>4. Goal(prog) \in Outcomes
  BY DEF AdapterTypes, Proper
<1>5. th = rx
  <2>1. SUFFICES ASSUME th \in Application  PROVE FALSE
    BY <1>1
  <2>2. CASE Goal(prog) \in {"attached", "threw", "unspawned"}
    <3>1. PICK u \in Application : pc[u] = "insert" /\ remote \in held[u]
      BY <2>2 DEF Coupling
    <3>2. u # th
      BY <1>2, <3>1
    <3> QED  BY <1>3, <2>1, <3>1, <3>2 DEF Snapshots
  <2>3. CASE Goal(prog) = "detached"
    <3>1. PICK u \in Application : pc[u] = "detach"
      BY <2>3 DEF Coupling
    <3> QED  BY <1>2, <2>1, <3>1 DEF Phases, ShutdownLabels
  <2> QED  BY <1>3, <1>4, <2>2, <2>3 DEF Outcomes
<1>6. recv = "nested"
  BY <1>2, <1>5 DEF Coupling
<1> QED  BY <1>3, <1>5, <1>6

\* Steps of the adapter alone keep the coupling: those of a program, ...
LEMMA CoupleAdapter ==
    ASSUME Disciplined, IndInv, Progresses, UNCHANGED vars
    PROVE  Coupling'
<1> USE DEF IndInv, Coupling
<1>1. Outbound' = Outbound
  BY SameAdapter DEF Progresses
<1>2. ASSUME NEW th \in using  PROVE Sends(th)'
  <2>1. th = rx /\ recv = "nested" /\ Goal(prog) # "freed" /\ which' = which
    BY NoUsers DEF Progresses
  <2> QED  BY <1>1, <2>1 DEF Progresses, MayClose, Sends
<1>3. /\ (prog # <<>> /\ prog' # <<>> /\ outcome' = outcome /\ using' = using)
      /\ \/ Goal(prog)' = Goal(prog)
         \/ Goal(prog) = "attached" /\ Goal(prog)' \in {"threw", "unspawned"}
  BY DEF Progresses
<1>4. \A th \in using' :
         pc'[th] = "dispatch" /\ remote \in todo'[th] /\ Sends(th)' /\ th \in Threads
  BY <1>2, <1>3 DEF vars
<1>5. pc'[rx] = "dispatch" => recv' = "nested"
  BY DEF vars, Progresses
<1>6. /\ outcome' = "attached" <=> remote \in inserted' \ detached'
      /\ outcome' = "detached" => remote \in inserted'
  BY <1>3 DEF vars
<1>7. /\ Goal(prog)' \in {"attached", "threw", "unspawned"} =>
            \E th \in Application : pc'[th] = "insert" /\ remote \in held'[th]
      /\ Goal(prog)' = "detached" =>
            \E th \in Application : pc'[th] = "detach" /\ remote \in flushed'[th]
  BY <1>3 DEF vars
<1>8. Goal(prog)' = "freed" \/ outcome' = "freed" =>
         remote \notin transports' /\ \A th \in Threads : remote \notin held'[th]
  BY <1>3 DEF vars
<1>9. \A th \in Application : pc'[th] = "insert" /\ remote \in held'[th] =>
         Goal(prog)' \in {"attached", "threw", "unspawned"}
  BY <1>3 DEF vars
<1> QED  BY <1>3, <1>4, <1>5, <1>6, <1>7, <1>8, <1>9

\* ... of the receiver and of the broker.
LEMMA CoupleReceiver ==
    ASSUME Disciplined, IndInv, UNCHANGED <<vars, using, prog, outcome, which, ends>>,
           pc[rx] = "dispatch" => recv' = "nested", open \ {"sub", "subtok", "tok"} \subseteq open'
    PROVE  Coupling'
<1> USE DEF IndInv, Coupling
<1>1. Outbound' = Outbound
  BY SameAdapter
<1>2. Outbound \notin {"sub", "subtok", "tok"}
  <2>1. which \in {"zmq", "redis", "nats", "mqtt"}
    BY AdaptersAssumption DEF AdapterInv, AdapterTypes
  <2> QED  BY <2>1 DEF Outbound, Of, Zmq!Outbound, Redis!Outbound, Nats!Outbound, Mqtt!Outbound
<1>3. Goal(prog)' = Goal(prog)
  BY DEF Goal
<1>4. \A th \in using' :
         pc'[th] = "dispatch" /\ remote \in todo'[th] /\ Sends(th)' /\ th \in Threads
  BY <1>1, <1>2 DEF vars, Sends
<1>5. pc'[rx] = "dispatch" => recv' = "nested"
  BY DEF vars
<1> QED  BY <1>3, <1>4, <1>5 DEF vars

\* The coupling when use_transport() begins.
LEMMA CoupleUseTransport ==
    ASSUME Disciplined, IndInv, NEW th \in Application, NEW t \in Local, UseTransport(th, t),
           UNCHANGED adapter
    PROVE  Coupling'
<1> USE SessionFacts DEF IndInv, BusInv, Coupling, adapter, object, receiver
<1>1. Goal(prog)' = Goal(prog) /\ \A u : Sends(u)' <=> Sends(u)
  BY SameAdapter DEF Goal, Sends
<1>2. /\ prog # <<>> /\ Goal(prog) \in {"attached", "threw", "unspawned"} =>
            \E u \in Application : pc'[u] = "insert" /\ remote \in held'[u]
      /\ prog # <<>> /\ Goal(prog) = "detached" =>
            \E u \in Application : pc'[u] = "detach" /\ remote \in flushed'[u]
  BY DEF UseTransport, MayCall, Enter, Local, TypeOK, Snapshots, Phases, ShutdownLabels
<1>3. (prog # <<>> /\ Goal(prog) = "freed") \/ outcome = "freed" =>
         remote \notin transports' /\ \A u \in Threads : remote \notin held'[u]
  BY DEF UseTransport, MayCall, Enter, Local, TypeOK
<1>4. \A u \in Application : pc'[u] = "insert" /\ remote \in held'[u] =>
         prog # <<>> /\ Goal(prog) \in {"attached", "threw", "unspawned"}
  BY DEF UseTransport, MayCall, Enter, Local, TypeOK
<1>5. /\ outcome = "attached" <=> remote \in inserted' \ detached'
      /\ outcome = "detached" => remote \in inserted'
  BY DEF UseTransport, MayCall, Enter, Local, TypeOK
<1>6. \A u \in using :
         pc'[u] = "dispatch" /\ remote \in todo'[u] /\ Sends(u) /\ u \in Threads
  BY DEF UseTransport, MayCall, Enter, Local, TypeOK
<1>7. pc'[rx] = "dispatch" => recv = "nested"
  BY DEF UseTransport, MayCall, Enter, Local, TypeOK
<1> QED  BY <1>1, <1>2, <1>3, <1>4, <1>5, <1>6, <1>7

\* The coupling when use_transport() inserts.
LEMMA CoupleInsertTransport ==
    ASSUME Disciplined, IndInv, NEW th \in Threads, remote \notin held[th], InsertTransport(th),
           UNCHANGED adapter
    PROVE  Coupling'
<1> USE SessionFacts DEF IndInv, BusInv, Coupling, adapter, object, receiver
<1>1. Goal(prog)' = Goal(prog) /\ \A u : Sends(u)' <=> Sends(u)
  BY SameAdapter DEF Goal, Sends
<1>2. /\ prog # <<>> /\ Goal(prog) \in {"attached", "threw", "unspawned"} =>
            \E u \in Application : pc'[u] = "insert" /\ remote \in held'[u]
      /\ prog # <<>> /\ Goal(prog) = "detached" =>
            \E u \in Application : pc'[u] = "detach" /\ remote \in flushed'[u]
  BY DEF InsertTransport, Leave, TypeOK, Snapshots, Phases, ShutdownLabels
<1>3. (prog # <<>> /\ Goal(prog) = "freed") \/ outcome = "freed" =>
         remote \notin transports' /\ \A u \in Threads : remote \notin held'[u]
  BY DEF InsertTransport, Leave, TypeOK
<1>4. \A u \in Application : pc'[u] = "insert" /\ remote \in held'[u] =>
         prog # <<>> /\ Goal(prog) \in {"attached", "threw", "unspawned"}
  BY DEF InsertTransport, Leave, TypeOK
<1>5. /\ outcome = "attached" <=> remote \in inserted' \ detached'
      /\ outcome = "detached" => remote \in inserted'
  BY DEF InsertTransport, Leave, TypeOK
<1>6. \A u \in using :
         pc'[u] = "dispatch" /\ remote \in todo'[u] /\ Sends(u) /\ u \in Threads
  BY DEF InsertTransport, Leave, TypeOK
<1>7. pc'[rx] = "dispatch" => recv = "nested"
  BY DEF InsertTransport, Leave, TypeOK
<1> QED  BY <1>1, <1>2, <1>3, <1>4, <1>5, <1>6, <1>7

\* The coupling when publish() begins.
LEMMA CouplePublish ==
    ASSUME Disciplined, IndInv, NEW th \in Application, Publish(th), UNCHANGED adapter
    PROVE  Coupling'
<1> USE SessionFacts DEF IndInv, BusInv, Coupling, adapter, object, receiver
<1>1. Goal(prog)' = Goal(prog) /\ \A u : Sends(u)' <=> Sends(u)
  BY SameAdapter DEF Goal, Sends
<1>2. /\ prog # <<>> /\ Goal(prog) \in {"attached", "threw", "unspawned"} =>
            \E u \in Application : pc'[u] = "insert" /\ remote \in held'[u]
      /\ prog # <<>> /\ Goal(prog) = "detached" =>
            \E u \in Application : pc'[u] = "detach" /\ remote \in flushed'[u]
  BY DEF Publish, MayCall, Enter, TypeOK, Snapshots, Phases, ShutdownLabels
<1>3. (prog # <<>> /\ Goal(prog) = "freed") \/ outcome = "freed" =>
         remote \notin transports' /\ \A u \in Threads : remote \notin held'[u]
  BY DEF Publish, MayCall, Enter, TypeOK
<1>4. \A u \in Application : pc'[u] = "insert" /\ remote \in held'[u] =>
         prog # <<>> /\ Goal(prog) \in {"attached", "threw", "unspawned"}
  BY DEF Publish, MayCall, Enter, TypeOK
<1>5. /\ outcome = "attached" <=> remote \in inserted' \ detached'
      /\ outcome = "detached" => remote \in inserted'
  BY DEF Publish, MayCall, Enter, TypeOK
<1>6. \A u \in using :
         pc'[u] = "dispatch" /\ remote \in todo'[u] /\ Sends(u) /\ u \in Threads
  BY DEF Publish, MayCall, Enter, TypeOK
<1>7. pc'[rx] = "dispatch" => recv = "nested"
  BY DEF Publish, MayCall, Enter, TypeOK
<1> QED  BY <1>1, <1>2, <1>3, <1>4, <1>5, <1>6, <1>7

\* The coupling when publish() hands a unit to a local transport.
LEMMA CoupleDispatch ==
    ASSUME Disciplined, IndInv, NEW th \in Threads, NEW t \in Local, Dispatch(th, t),
           UNCHANGED adapter
    PROVE  Coupling'
<1> USE SessionFacts DEF IndInv, BusInv, Coupling, adapter, object, receiver
<1>1. Goal(prog)' = Goal(prog) /\ \A u : Sends(u)' <=> Sends(u)
  BY SameAdapter DEF Goal, Sends
<1>2. /\ prog # <<>> /\ Goal(prog) \in {"attached", "threw", "unspawned"} =>
            \E u \in Application : pc'[u] = "insert" /\ remote \in held'[u]
      /\ prog # <<>> /\ Goal(prog) = "detached" =>
            \E u \in Application : pc'[u] = "detach" /\ remote \in flushed'[u]
  BY DEF Dispatch, First, Local, TypeOK, Snapshots, Phases, ShutdownLabels
<1>3. (prog # <<>> /\ Goal(prog) = "freed") \/ outcome = "freed" =>
         remote \notin transports' /\ \A u \in Threads : remote \notin held'[u]
  BY DEF Dispatch, First, Local, TypeOK
<1>4. \A u \in Application : pc'[u] = "insert" /\ remote \in held'[u] =>
         prog # <<>> /\ Goal(prog) \in {"attached", "threw", "unspawned"}
  BY DEF Dispatch, First, Local, TypeOK
<1>5. /\ outcome = "attached" <=> remote \in inserted' \ detached'
      /\ outcome = "detached" => remote \in inserted'
  BY DEF Dispatch, First, Local, TypeOK
<1>6. \A u \in using :
         pc'[u] = "dispatch" /\ remote \in todo'[u] /\ Sends(u) /\ u \in Threads
  BY DEF Dispatch, First, Local, TypeOK
<1>7. pc'[rx] = "dispatch" => recv = "nested"
  BY DEF Dispatch, First, Local, TypeOK
<1> QED  BY <1>1, <1>2, <1>3, <1>4, <1>5, <1>6, <1>7

\* The coupling when publish() has visited the adapter.
LEMMA CoupleVisit ==
    ASSUME Disciplined, IndInv, NEW th \in Threads, th \notin using, Visit(th),
           UNCHANGED adapter
    PROVE  Coupling'
<1> USE SessionFacts DEF IndInv, BusInv, Coupling, adapter, object, receiver
<1>1. Goal(prog)' = Goal(prog) /\ \A u : Sends(u)' <=> Sends(u)
  BY SameAdapter DEF Goal, Sends
<1>2. /\ prog # <<>> /\ Goal(prog) \in {"attached", "threw", "unspawned"} =>
            \E u \in Application : pc'[u] = "insert" /\ remote \in held'[u]
      /\ prog # <<>> /\ Goal(prog) = "detached" =>
            \E u \in Application : pc'[u] = "detach" /\ remote \in flushed'[u]
  BY DEF Visit, Visited, TypeOK, Snapshots, Phases, ShutdownLabels
<1>3. (prog # <<>> /\ Goal(prog) = "freed") \/ outcome = "freed" =>
         remote \notin transports' /\ \A u \in Threads : remote \notin held'[u]
  BY DEF Visit, Visited, TypeOK
<1>4. \A u \in Application : pc'[u] = "insert" /\ remote \in held'[u] =>
         prog # <<>> /\ Goal(prog) \in {"attached", "threw", "unspawned"}
  BY DEF Visit, Visited, TypeOK
<1>5. /\ outcome = "attached" <=> remote \in inserted' \ detached'
      /\ outcome = "detached" => remote \in inserted'
  BY DEF Visit, Visited, TypeOK
<1>6. \A u \in using :
         pc'[u] = "dispatch" /\ remote \in todo'[u] /\ Sends(u) /\ u \in Threads
  BY DEF Visit, Visited, TypeOK
<1>7. pc'[rx] = "dispatch" => recv = "nested"
  BY DEF Visit, Visited, TypeOK
<1> QED  BY <1>1, <1>2, <1>3, <1>4, <1>5, <1>6, <1>7

\* The coupling when publish() returns.
LEMMA CouplePublishReturn ==
    ASSUME Disciplined, IndInv, NEW th \in Threads, PublishReturn(th), UNCHANGED adapter
    PROVE  Coupling'
<1> USE SessionFacts DEF IndInv, BusInv, Coupling, adapter, object, receiver
<1>1. Goal(prog)' = Goal(prog) /\ \A u : Sends(u)' <=> Sends(u)
  BY SameAdapter DEF Goal, Sends
<1>2. /\ prog # <<>> /\ Goal(prog) \in {"attached", "threw", "unspawned"} =>
            \E u \in Application : pc'[u] = "insert" /\ remote \in held'[u]
      /\ prog # <<>> /\ Goal(prog) = "detached" =>
            \E u \in Application : pc'[u] = "detach" /\ remote \in flushed'[u]
  BY DEF PublishReturn, Leave, TypeOK, Snapshots, Phases, ShutdownLabels
<1>3. (prog # <<>> /\ Goal(prog) = "freed") \/ outcome = "freed" =>
         remote \notin transports' /\ \A u \in Threads : remote \notin held'[u]
  BY DEF PublishReturn, Leave, TypeOK
<1>4. \A u \in Application : pc'[u] = "insert" /\ remote \in held'[u] =>
         prog # <<>> /\ Goal(prog) \in {"attached", "threw", "unspawned"}
  BY DEF PublishReturn, Leave, TypeOK
<1>5. /\ outcome = "attached" <=> remote \in inserted' \ detached'
      /\ outcome = "detached" => remote \in inserted'
  BY DEF PublishReturn, Leave, TypeOK
<1>6. \A u \in using :
         pc'[u] = "dispatch" /\ remote \in todo'[u] /\ Sends(u) /\ u \in Threads
  BY DEF PublishReturn, Leave, TypeOK
<1>7. pc'[rx] = "dispatch" => recv = "nested"
  BY DEF PublishReturn, Leave, TypeOK
<1> QED  BY <1>1, <1>2, <1>3, <1>4, <1>5, <1>6, <1>7

\* The coupling when a worker finishes a unit.
LEMMA CoupleComplete ==
    ASSUME Disciplined, IndInv, NEW th \in Threads, NEW t \in Local, Complete(th, t),
           UNCHANGED adapter
    PROVE  Coupling'
<1> USE SessionFacts DEF IndInv, BusInv, Coupling, adapter, object, receiver
<1>1. Goal(prog)' = Goal(prog) /\ \A u : Sends(u)' <=> Sends(u)
  BY SameAdapter DEF Goal, Sends
<1>2. /\ prog # <<>> /\ Goal(prog) \in {"attached", "threw", "unspawned"} =>
            \E u \in Application : pc'[u] = "insert" /\ remote \in held'[u]
      /\ prog # <<>> /\ Goal(prog) = "detached" =>
            \E u \in Application : pc'[u] = "detach" /\ remote \in flushed'[u]
  BY DEF Complete, Local, TypeOK, Snapshots, Phases, ShutdownLabels
<1>3. (prog # <<>> /\ Goal(prog) = "freed") \/ outcome = "freed" =>
         remote \notin transports' /\ \A u \in Threads : remote \notin held'[u]
  BY DEF Complete, Local, TypeOK
<1>4. \A u \in Application : pc'[u] = "insert" /\ remote \in held'[u] =>
         prog # <<>> /\ Goal(prog) \in {"attached", "threw", "unspawned"}
  BY DEF Complete, Local, TypeOK
<1>5. /\ outcome = "attached" <=> remote \in inserted' \ detached'
      /\ outcome = "detached" => remote \in inserted'
  BY DEF Complete, Local, TypeOK
<1>6. \A u \in using :
         pc'[u] = "dispatch" /\ remote \in todo'[u] /\ Sends(u) /\ u \in Threads
  BY DEF Complete, Local, TypeOK
<1>7. pc'[rx] = "dispatch" => recv = "nested"
  BY DEF Complete, Local, TypeOK
<1> QED  BY <1>1, <1>2, <1>3, <1>4, <1>5, <1>6, <1>7

\* The coupling when drain() begins.
LEMMA CoupleDrain ==
    ASSUME Disciplined, IndInv, NEW th \in Application, Drain(th), UNCHANGED adapter
    PROVE  Coupling'
<1> USE SessionFacts DEF IndInv, BusInv, Coupling, adapter, object, receiver
<1>1. Goal(prog)' = Goal(prog) /\ \A u : Sends(u)' <=> Sends(u)
  BY SameAdapter DEF Goal, Sends
<1>2. /\ prog # <<>> /\ Goal(prog) \in {"attached", "threw", "unspawned"} =>
            \E u \in Application : pc'[u] = "insert" /\ remote \in held'[u]
      /\ prog # <<>> /\ Goal(prog) = "detached" =>
            \E u \in Application : pc'[u] = "detach" /\ remote \in flushed'[u]
  BY DEF Drain, MayCall, Enter, TypeOK, Snapshots, Phases, ShutdownLabels
<1>3. (prog # <<>> /\ Goal(prog) = "freed") \/ outcome = "freed" =>
         remote \notin transports' /\ \A u \in Threads : remote \notin held'[u]
  BY DEF Drain, MayCall, Enter, TypeOK
<1>4. \A u \in Application : pc'[u] = "insert" /\ remote \in held'[u] =>
         prog # <<>> /\ Goal(prog) \in {"attached", "threw", "unspawned"}
  BY DEF Drain, MayCall, Enter, TypeOK
<1>5. /\ outcome = "attached" <=> remote \in inserted' \ detached'
      /\ outcome = "detached" => remote \in inserted'
  BY DEF Drain, MayCall, Enter, TypeOK
<1>6. \A u \in using :
         pc'[u] = "dispatch" /\ remote \in todo'[u] /\ Sends(u) /\ u \in Threads
  BY DEF Drain, MayCall, Enter, TypeOK
<1>7. pc'[rx] = "dispatch" => recv = "nested"
  BY DEF Drain, MayCall, Enter, TypeOK
<1> QED  BY <1>1, <1>2, <1>3, <1>4, <1>5, <1>6, <1>7

\* The coupling when drain() has flushed a transport.
LEMMA CoupleDrainFlush ==
    ASSUME Disciplined, IndInv, NEW th \in Threads, NEW t \in Transports, DrainFlush(th, t),
           UNCHANGED adapter
    PROVE  Coupling'
<1> USE SessionFacts DEF IndInv, BusInv, Coupling, adapter, object, receiver
<1>1. Goal(prog)' = Goal(prog) /\ \A u : Sends(u)' <=> Sends(u)
  BY SameAdapter DEF Goal, Sends
<1>2. /\ prog # <<>> /\ Goal(prog) \in {"attached", "threw", "unspawned"} =>
            \E u \in Application : pc'[u] = "insert" /\ remote \in held'[u]
      /\ prog # <<>> /\ Goal(prog) = "detached" =>
            \E u \in Application : pc'[u] = "detach" /\ remote \in flushed'[u]
  BY DEF DrainFlush, First, Drained, TypeOK, Snapshots, Phases, ShutdownLabels
<1>3. (prog # <<>> /\ Goal(prog) = "freed") \/ outcome = "freed" =>
         remote \notin transports' /\ \A u \in Threads : remote \notin held'[u]
  BY DEF DrainFlush, First, Drained, TypeOK
<1>4. \A u \in Application : pc'[u] = "insert" /\ remote \in held'[u] =>
         prog # <<>> /\ Goal(prog) \in {"attached", "threw", "unspawned"}
  BY DEF DrainFlush, First, Drained, TypeOK
<1>5. /\ outcome = "attached" <=> remote \in inserted' \ detached'
      /\ outcome = "detached" => remote \in inserted'
  BY DEF DrainFlush, First, Drained, TypeOK
<1>6. \A u \in using :
         pc'[u] = "dispatch" /\ remote \in todo'[u] /\ Sends(u) /\ u \in Threads
  BY DEF DrainFlush, First, Drained, TypeOK
<1>7. pc'[rx] = "dispatch" => recv = "nested"
  BY DEF DrainFlush, First, Drained, TypeOK
<1> QED  BY <1>1, <1>2, <1>3, <1>4, <1>5, <1>6, <1>7

\* The coupling when drain() returns.
LEMMA CoupleDrainReturn ==
    ASSUME Disciplined, IndInv, NEW th \in Threads, DrainReturn(th), UNCHANGED adapter
    PROVE  Coupling'
<1> USE SessionFacts DEF IndInv, BusInv, Coupling, adapter, object, receiver
<1>1. Goal(prog)' = Goal(prog) /\ \A u : Sends(u)' <=> Sends(u)
  BY SameAdapter DEF Goal, Sends
<1>2. /\ prog # <<>> /\ Goal(prog) \in {"attached", "threw", "unspawned"} =>
            \E u \in Application : pc'[u] = "insert" /\ remote \in held'[u]
      /\ prog # <<>> /\ Goal(prog) = "detached" =>
            \E u \in Application : pc'[u] = "detach" /\ remote \in flushed'[u]
  BY DEF DrainReturn, Leave, TypeOK, Snapshots, Phases, ShutdownLabels
<1>3. (prog # <<>> /\ Goal(prog) = "freed") \/ outcome = "freed" =>
         remote \notin transports' /\ \A u \in Threads : remote \notin held'[u]
  BY DEF DrainReturn, Leave, TypeOK
<1>4. \A u \in Application : pc'[u] = "insert" /\ remote \in held'[u] =>
         prog # <<>> /\ Goal(prog) \in {"attached", "threw", "unspawned"}
  BY DEF DrainReturn, Leave, TypeOK
<1>5. /\ outcome = "attached" <=> remote \in inserted' \ detached'
      /\ outcome = "detached" => remote \in inserted'
  BY DEF DrainReturn, Leave, TypeOK
<1>6. \A u \in using :
         pc'[u] = "dispatch" /\ remote \in todo'[u] /\ Sends(u) /\ u \in Threads
  BY DEF DrainReturn, Leave, TypeOK
<1>7. pc'[rx] = "dispatch" => recv = "nested"
  BY DEF DrainReturn, Leave, TypeOK
<1> QED  BY <1>1, <1>2, <1>3, <1>4, <1>5, <1>6, <1>7

\* The coupling when shutdown() begins.
LEMMA CoupleShutdown ==
    ASSUME Disciplined, IndInv, NEW th \in Application, Shutdown(th), UNCHANGED adapter
    PROVE  Coupling'
<1> USE SessionFacts DEF IndInv, BusInv, Coupling, adapter, object, receiver
<1>1. Goal(prog)' = Goal(prog) /\ \A u : Sends(u)' <=> Sends(u)
  BY SameAdapter DEF Goal, Sends
<1>2. /\ prog # <<>> /\ Goal(prog) \in {"attached", "threw", "unspawned"} =>
            \E u \in Application : pc'[u] = "insert" /\ remote \in held'[u]
      /\ prog # <<>> /\ Goal(prog) = "detached" =>
            \E u \in Application : pc'[u] = "detach" /\ remote \in flushed'[u]
  BY DEF Shutdown, MayCall, AllQuiet, TypeOK, Snapshots, Phases, ShutdownLabels
<1>3. (prog # <<>> /\ Goal(prog) = "freed") \/ outcome = "freed" =>
         remote \notin transports' /\ \A u \in Threads : remote \notin held'[u]
  BY DEF Shutdown, MayCall, AllQuiet, TypeOK
<1>4. \A u \in Application : pc'[u] = "insert" /\ remote \in held'[u] =>
         prog # <<>> /\ Goal(prog) \in {"attached", "threw", "unspawned"}
  BY DEF Shutdown, MayCall, AllQuiet, TypeOK
<1>5. /\ outcome = "attached" <=> remote \in inserted' \ detached'
      /\ outcome = "detached" => remote \in inserted'
  BY DEF Shutdown, MayCall, AllQuiet, TypeOK
<1>6. \A u \in using :
         pc'[u] = "dispatch" /\ remote \in todo'[u] /\ Sends(u) /\ u \in Threads
  BY DEF Shutdown, MayCall, AllQuiet, TypeOK
<1>7. pc'[rx] = "dispatch" => recv = "nested"
  BY DEF Shutdown, MayCall, AllQuiet, TypeOK
<1> QED  BY <1>1, <1>2, <1>3, <1>4, <1>5, <1>6, <1>7

\* The coupling when ~Bus() begins.
LEMMA CoupleDestroy ==
    ASSUME Disciplined, IndInv, NEW th \in Application, Destroy(th), UNCHANGED adapter
    PROVE  Coupling'
<1> USE SessionFacts DEF IndInv, BusInv, Coupling, adapter, object, receiver
<1>1. Goal(prog)' = Goal(prog) /\ \A u : Sends(u)' <=> Sends(u)
  BY SameAdapter DEF Goal, Sends
<1>2. /\ prog # <<>> /\ Goal(prog) \in {"attached", "threw", "unspawned"} =>
            \E u \in Application : pc'[u] = "insert" /\ remote \in held'[u]
      /\ prog # <<>> /\ Goal(prog) = "detached" =>
            \E u \in Application : pc'[u] = "detach" /\ remote \in flushed'[u]
  BY DEF Destroy, AllQuiet, TypeOK, Snapshots, Phases, ShutdownLabels
<1>3. (prog # <<>> /\ Goal(prog) = "freed") \/ outcome = "freed" =>
         remote \notin transports' /\ \A u \in Threads : remote \notin held'[u]
  BY DEF Destroy, AllQuiet, TypeOK
<1>4. \A u \in Application : pc'[u] = "insert" /\ remote \in held'[u] =>
         prog # <<>> /\ Goal(prog) \in {"attached", "threw", "unspawned"}
  BY DEF Destroy, AllQuiet, TypeOK
<1>5. /\ outcome = "attached" <=> remote \in inserted' \ detached'
      /\ outcome = "detached" => remote \in inserted'
  BY DEF Destroy, AllQuiet, TypeOK
<1>6. \A u \in using :
         pc'[u] = "dispatch" /\ remote \in todo'[u] /\ Sends(u) /\ u \in Threads
  BY DEF Destroy, AllQuiet, TypeOK
<1>7. pc'[rx] = "dispatch" => recv = "nested"
  BY DEF Destroy, AllQuiet, TypeOK
<1> QED  BY <1>1, <1>2, <1>3, <1>4, <1>5, <1>6, <1>7

\* The coupling when shutdown() exchanges shutdown_.
LEMMA CoupleExchange ==
    ASSUME Disciplined, IndInv, NEW th \in Threads, Exchange(th), UNCHANGED adapter
    PROVE  Coupling'
<1> USE SessionFacts DEF IndInv, BusInv, Coupling, adapter, object, receiver
<1>1. Goal(prog)' = Goal(prog) /\ \A u : Sends(u)' <=> Sends(u)
  BY SameAdapter DEF Goal, Sends
<1>2. /\ prog # <<>> /\ Goal(prog) \in {"attached", "threw", "unspawned"} =>
            \E u \in Application : pc'[u] = "insert" /\ remote \in held'[u]
      /\ prog # <<>> /\ Goal(prog) = "detached" =>
            \E u \in Application : pc'[u] = "detach" /\ remote \in flushed'[u]
  BY DEF Exchange, TypeOK, Snapshots, Phases, ShutdownLabels
<1>3. (prog # <<>> /\ Goal(prog) = "freed") \/ outcome = "freed" =>
         remote \notin transports' /\ \A u \in Threads : remote \notin held'[u]
  BY DEF Exchange, TypeOK
<1>4. \A u \in Application : pc'[u] = "insert" /\ remote \in held'[u] =>
         prog # <<>> /\ Goal(prog) \in {"attached", "threw", "unspawned"}
  BY DEF Exchange, TypeOK
<1>5. /\ outcome = "attached" <=> remote \in inserted' \ detached'
      /\ outcome = "detached" => remote \in inserted'
  BY DEF Exchange, TypeOK
<1>6. \A u \in using :
         pc'[u] = "dispatch" /\ remote \in todo'[u] /\ Sends(u) /\ u \in Threads
  BY DEF Exchange, TypeOK
<1>7. pc'[rx] = "dispatch" => recv = "nested"
  BY DEF Exchange, TypeOK
<1> QED  BY <1>1, <1>2, <1>3, <1>4, <1>5, <1>6, <1>7

\* The coupling when shutdown() takes transports_.
LEMMA CoupleTake ==
    ASSUME Disciplined, IndInv, NEW th \in Threads, Take(th), UNCHANGED adapter
    PROVE  Coupling'
<1> USE SessionFacts DEF IndInv, BusInv, Coupling, adapter, object, receiver
<1>1. Goal(prog)' = Goal(prog) /\ \A u : Sends(u)' <=> Sends(u)
  BY SameAdapter DEF Goal, Sends
<1>2. /\ prog # <<>> /\ Goal(prog) \in {"attached", "threw", "unspawned"} =>
            \E u \in Application : pc'[u] = "insert" /\ remote \in held'[u]
      /\ prog # <<>> /\ Goal(prog) = "detached" =>
            \E u \in Application : pc'[u] = "detach" /\ remote \in flushed'[u]
  BY DEF Take, Enter, TypeOK, Snapshots, Phases, ShutdownLabels
<1>3. (prog # <<>> /\ Goal(prog) = "freed") \/ outcome = "freed" =>
         remote \notin transports' /\ \A u \in Threads : remote \notin held'[u]
  BY DEF Take, Enter, TypeOK
<1>4. \A u \in Application : pc'[u] = "insert" /\ remote \in held'[u] =>
         prog # <<>> /\ Goal(prog) \in {"attached", "threw", "unspawned"}
  BY DEF Take, Enter, TypeOK
<1>5. /\ outcome = "attached" <=> remote \in inserted' \ detached'
      /\ outcome = "detached" => remote \in inserted'
  BY DEF Take, Enter, TypeOK
<1>6. \A u \in using :
         pc'[u] = "dispatch" /\ remote \in todo'[u] /\ Sends(u) /\ u \in Threads
  BY DEF Take, Enter, TypeOK
<1>7. pc'[rx] = "dispatch" => recv = "nested"
  BY DEF Take, Enter, TypeOK
<1> QED  BY <1>1, <1>2, <1>3, <1>4, <1>5, <1>6, <1>7

\* The coupling when shutdown() has flushed a transport.
LEMMA CoupleShutdownFlush ==
    ASSUME Disciplined, IndInv, NEW th \in Threads, NEW t \in Transports, ShutdownFlush(th, t),
           UNCHANGED adapter
    PROVE  Coupling'
<1> USE SessionFacts DEF IndInv, BusInv, Coupling, adapter, object, receiver
<1>1. Goal(prog)' = Goal(prog) /\ \A u : Sends(u)' <=> Sends(u)
  BY SameAdapter DEF Goal, Sends
<1>2. /\ prog # <<>> /\ Goal(prog) \in {"attached", "threw", "unspawned"} =>
            \E u \in Application : pc'[u] = "insert" /\ remote \in held'[u]
      /\ prog # <<>> /\ Goal(prog) = "detached" =>
            \E u \in Application : pc'[u] = "detach" /\ remote \in flushed'[u]
  BY DEF ShutdownFlush, First, Drained, TypeOK, Snapshots, Phases, ShutdownLabels
<1>3. (prog # <<>> /\ Goal(prog) = "freed") \/ outcome = "freed" =>
         remote \notin transports' /\ \A u \in Threads : remote \notin held'[u]
  BY DEF ShutdownFlush, First, Drained, TypeOK
<1>4. \A u \in Application : pc'[u] = "insert" /\ remote \in held'[u] =>
         prog # <<>> /\ Goal(prog) \in {"attached", "threw", "unspawned"}
  BY DEF ShutdownFlush, First, Drained, TypeOK
<1>5. /\ outcome = "attached" <=> remote \in inserted' \ detached'
      /\ outcome = "detached" => remote \in inserted'
  BY DEF ShutdownFlush, First, Drained, TypeOK
<1>6. \A u \in using :
         pc'[u] = "dispatch" /\ remote \in todo'[u] /\ Sends(u) /\ u \in Threads
  BY DEF ShutdownFlush, First, Drained, TypeOK
<1>7. pc'[rx] = "dispatch" => recv = "nested"
  BY DEF ShutdownFlush, First, Drained, TypeOK
<1> QED  BY <1>1, <1>2, <1>3, <1>4, <1>5, <1>6, <1>7

\* The coupling when shutdown() has detached a transport.
LEMMA CoupleShutdownDetach ==
    ASSUME Disciplined, IndInv, NEW th \in Threads, NEW t \in Local, ShutdownDetach(th, t),
           UNCHANGED adapter
    PROVE  Coupling'
<1> USE SessionFacts DEF IndInv, BusInv, Coupling, adapter, object, receiver
<1>1. Goal(prog)' = Goal(prog) /\ \A u : Sends(u)' <=> Sends(u)
  BY SameAdapter DEF Goal, Sends
<1>2. /\ prog # <<>> /\ Goal(prog) \in {"attached", "threw", "unspawned"} =>
            \E u \in Application : pc'[u] = "insert" /\ remote \in held'[u]
      /\ prog # <<>> /\ Goal(prog) = "detached" =>
            \E u \in Application : pc'[u] = "detach" /\ remote \in flushed'[u]
  BY DEF ShutdownDetach, Drained, Local, TypeOK, Snapshots, Phases, ShutdownLabels
<1>3. (prog # <<>> /\ Goal(prog) = "freed") \/ outcome = "freed" =>
         remote \notin transports' /\ \A u \in Threads : remote \notin held'[u]
  BY DEF ShutdownDetach, Drained, Local, TypeOK
<1>4. \A u \in Application : pc'[u] = "insert" /\ remote \in held'[u] =>
         prog # <<>> /\ Goal(prog) \in {"attached", "threw", "unspawned"}
  BY DEF ShutdownDetach, Drained, Local, TypeOK
<1>5. /\ outcome = "attached" <=> remote \in inserted' \ detached'
      /\ outcome = "detached" => remote \in inserted'
  BY DEF ShutdownDetach, Drained, Local, TypeOK
<1>6. \A u \in using :
         pc'[u] = "dispatch" /\ remote \in todo'[u] /\ Sends(u) /\ u \in Threads
  BY DEF ShutdownDetach, Drained, Local, TypeOK
<1>7. pc'[rx] = "dispatch" => recv = "nested"
  BY DEF ShutdownDetach, Drained, Local, TypeOK
<1> QED  BY <1>1, <1>2, <1>3, <1>4, <1>5, <1>6, <1>7

\* The coupling when shutdown() returns.
LEMMA CoupleShutdownReturn ==
    ASSUME Disciplined, IndInv, NEW th \in Threads, ShutdownReturn(th), UNCHANGED adapter
    PROVE  Coupling'
<1> USE SessionFacts DEF IndInv, BusInv, Coupling, adapter, object, receiver
<1>1. Goal(prog)' = Goal(prog) /\ \A u : Sends(u)' <=> Sends(u)
  BY SameAdapter DEF Goal, Sends
<1>2. /\ prog # <<>> /\ Goal(prog) \in {"attached", "threw", "unspawned"} =>
            \E u \in Application : pc'[u] = "insert" /\ remote \in held'[u]
      /\ prog # <<>> /\ Goal(prog) = "detached" =>
            \E u \in Application : pc'[u] = "detach" /\ remote \in flushed'[u]
  BY DEF ShutdownReturn, Leave, TypeOK, Snapshots, Phases, ShutdownLabels
<1>3. (prog # <<>> /\ Goal(prog) = "freed") \/ outcome = "freed" =>
         remote \notin transports' /\ \A u \in Threads : remote \notin held'[u]
  BY DEF ShutdownReturn, Leave, TypeOK
<1>4. \A u \in Application : pc'[u] = "insert" /\ remote \in held'[u] =>
         prog # <<>> /\ Goal(prog) \in {"attached", "threw", "unspawned"}
  BY DEF ShutdownReturn, Leave, TypeOK
<1>5. /\ outcome = "attached" <=> remote \in inserted' \ detached'
      /\ outcome = "detached" => remote \in inserted'
  BY DEF ShutdownReturn, Leave, TypeOK
<1>6. \A u \in using :
         pc'[u] = "dispatch" /\ remote \in todo'[u] /\ Sends(u) /\ u \in Threads
  BY DEF ShutdownReturn, Leave, TypeOK
<1>7. pc'[rx] = "dispatch" => recv = "nested"
  BY DEF ShutdownReturn, Leave, TypeOK
<1> QED  BY <1>1, <1>2, <1>3, <1>4, <1>5, <1>6, <1>7

\* The coupling when the members of the bus are destroyed.
LEMMA CoupleDestroyMembers ==
    ASSUME Disciplined, IndInv, NEW th \in Threads, DestroyMembers(th), UNCHANGED adapter
    PROVE  Coupling'
<1> USE SessionFacts DEF IndInv, BusInv, Coupling, adapter, object, receiver
<1>1. Goal(prog)' = Goal(prog) /\ \A u : Sends(u)' <=> Sends(u)
  BY SameAdapter DEF Goal, Sends
<1>2. /\ prog # <<>> /\ Goal(prog) \in {"attached", "threw", "unspawned"} =>
            \E u \in Application : pc'[u] = "insert" /\ remote \in held'[u]
      /\ prog # <<>> /\ Goal(prog) = "detached" =>
            \E u \in Application : pc'[u] = "detach" /\ remote \in flushed'[u]
  BY DEF DestroyMembers, AllQuiet, TypeOK, Snapshots, Phases, ShutdownLabels
<1>3. (prog # <<>> /\ Goal(prog) = "freed") \/ outcome = "freed" =>
         remote \notin transports' /\ \A u \in Threads : remote \notin held'[u]
  BY DEF DestroyMembers, AllQuiet, TypeOK
<1>4. \A u \in Application : pc'[u] = "insert" /\ remote \in held'[u] =>
         prog # <<>> /\ Goal(prog) \in {"attached", "threw", "unspawned"}
  BY DEF DestroyMembers, AllQuiet, TypeOK
<1>5. /\ outcome = "attached" <=> remote \in inserted' \ detached'
      /\ outcome = "detached" => remote \in inserted'
  BY DEF DestroyMembers, AllQuiet, TypeOK
<1>6. \A u \in using :
         pc'[u] = "dispatch" /\ remote \in todo'[u] /\ Sends(u) /\ u \in Threads
  BY DEF DestroyMembers, AllQuiet, TypeOK
<1>7. pc'[rx] = "dispatch" => recv = "nested"
  BY DEF DestroyMembers, AllQuiet, TypeOK
<1> QED  BY <1>1, <1>2, <1>3, <1>4, <1>5, <1>6, <1>7

\* A step of the adapter alone leaves the bus as it is.
LEMMA BusUnchanged ==
    ASSUME BusInv, UNCHANGED vars
    PROVE  BusInv'
<1> USE DEF BusInv, vars
<1>1. TypeOK'
  BY DEF TypeOK
<1>2. Snapshots'
  BY DEF Snapshots
<1>3. Phases'
  BY DEF Phases
<1>4. Covered'
  BY DEF Covered, Looping
<1>5. OwnPending'
  BY DEF OwnPending, Ahead, Looping
<1> QED  BY <1>1, <1>2, <1>3, <1>4, <1>5

\* Steps of both: use_transport() of the adapter begins ...
LEMMA BothAttach ==
    ASSUME Disciplined, IndInv, NEW th \in Application, Attach(th)
    PROVE  IndInv'
<1> USE SessionFacts DEF IndInv
<1>1. /\ UseTransport(th, remote) /\ prog = <<>> /\ outcome # "freed" /\ sink' = TRUE
      /\ prog' = AttachProgram
      /\ UNCHANGED <<which, ends, outcome, open, connected, receiver, using>>
  BY DEF Attach
<1>2. BusInv'
  BY <1>1, BusUseTransport
<1>3. remote \notin inserted /\ outcome \notin {"attached", "detached"}
  BY <1>1 DEF UseTransport, Coupling
<1>4. AdapterInv'
  BY <1>1, <1>3, StartAttach
<1>5. prog' # <<>> /\ Goal(prog)' = "attached" /\ \A u : Sends(u)' <=> Sends(u)
  <2>1. PICK p : p = AttachProgram
    OBVIOUS
  <2>2. p # <<>> /\ Goal(p) = "attached"
    BY <2>1, AttachProper DEF AdapterInv, AdapterTypes
  <2> QED  BY <1>1, <2>1, <2>2, SameAdapter DEF Goal, Sends
<1>6. Coupling'
  <2> USE DEF UseTransport, Enter, BusInv, TypeOK, Coupling
  <2>1. \E u \in Application : pc'[u] = "insert" /\ remote \in held'[u]
    BY <1>1
  <2>2. outcome' \notin {"attached", "detached"} /\ remote \notin inserted'
    BY <1>1, <1>3
  <2>3. \A u \in using' :
           pc'[u] = "dispatch" /\ remote \in todo'[u] /\ Sends(u)' /\ u \in Threads
    BY <1>1, <1>5 DEF MayCall
  <2>4. pc'[rx] = "dispatch" => recv' = "nested"
    BY <1>1 DEF receiver
  <2>5. outcome' # "freed"
    BY <1>1
  <2> QED  BY <1>5, <2>1, <2>2, <2>3, <2>4, <2>5
<1> QED  BY <1>2, <1>4, <1>6

\* ... and returns or throws.
LEMMA BothAttached ==
    ASSUME Disciplined, IndInv, NEW th \in Threads, Attached(th)
    PROVE  IndInv'
<1> USE SessionFacts DEF IndInv
<1>1. /\ InsertTransport(th) /\ Finish /\ remote \in held[th] /\ outcome' = "attached"
      /\ prog' = <<>>
      /\ UNCHANGED <<which, ends, open, recv, using>>
  BY DEF Attached, Finish, object, receiver
<1>2. BusInv'
  BY <1>1, BusInsertTransport
<1>3. AdapterInv'
  BY <1>1, StepFinish
<1>4. Coupling'
  <2> USE DEF InsertTransport, Leave, BusInv, TypeOK, Coupling
  <2>1. remote \in inserted' \ detached'
    BY <1>1 DEF Snapshots
  <2>2. \A u \in Application : ~(pc'[u] = "insert" /\ remote \in held'[u])
    BY <1>1 DEF Snapshots
  <2>3. \A u : Sends(u)' <=> Sends(u)
    BY <1>1, SameAdapter DEF Sends
  <2>4. \A u \in using' :
           pc'[u] = "dispatch" /\ remote \in todo'[u] /\ Sends(u)' /\ u \in Threads
    BY <1>1, <2>3
  <2>5. pc'[rx] = "dispatch" => recv' = "nested"
    BY <1>1
  <2> QED  BY <1>1, <2>1, <2>2, <2>4, <2>5
<1> QED  BY <1>2, <1>3, <1>4

\* attach() throws, and use_transport() with it.
LEMMA BothAttachThrows ==
    ASSUME Disciplined, IndInv, NEW th \in Threads, AttachThrows(th)
    PROVE  IndInv'
<1> USE SessionFacts DEF IndInv
<1>1. /\ GiveUp(th) /\ Finish /\ remote \in held[th] /\ outcome' \in {"threw", "unspawned"}
      /\ prog' = <<>> /\ UNCHANGED <<which, ends, open, recv, using>>
  BY DEF AttachThrows, GiveUp, Finish, object, receiver
<1>2. BusInv'
  BY <1>1, BusGiveUp
<1>3. AdapterInv'
  BY <1>1, StepFinish
<1>4. Coupling'
  <2> USE DEF GiveUp, Leave, BusInv, TypeOK, Coupling
  <2>1. remote \notin inserted'
    BY <1>1 DEF Snapshots
  <2>2. \A u \in Application : ~(pc'[u] = "insert" /\ remote \in held'[u])
    BY <1>1 DEF Snapshots
  <2>3. \A u : Sends(u)' <=> Sends(u)
    BY <1>1, SameAdapter DEF Sends
  <2>4. \A u \in using' :
           pc'[u] = "dispatch" /\ remote \in todo'[u] /\ Sends(u)' /\ u \in Threads
    BY <1>1, <2>3
  <2>5. pc'[rx] = "dispatch" => recv' = "nested"
    BY <1>1
  <2> QED  BY <1>1, <2>1, <2>2, <2>4, <2>5
<1> QED  BY <1>2, <1>3, <1>4

\* shutdown() detaches the adapter.
LEMMA BothDetach ==
    ASSUME Disciplined, IndInv, NEW th \in Threads, Detach(th)
    PROVE  IndInv'
<1> USE SessionFacts DEF IndInv
<1>1. /\ pc[th] = "detach" /\ remote \in flushed[th] /\ prog = <<>> /\ outcome = "attached"
      /\ UNCHANGED <<vars, which, ends, outcome, open, sink, connected, receiver, using>>
  BY DEF Detach, object
<1>2. BusInv'
  BY <1>1, BusUnchanged
<1>3. PICK t : t = <<Do("unsink"), End("detached")>>
  OBVIOUS
<1>4. t \in Endings /\ t[Len(t)].on = "detached"
  BY <1>3 DEF Endings, End
<1>5. which \in {"zmq", "redis", "nats", "mqtt"} /\ which \in Adapters
  BY AdaptersAssumption DEF AdapterInv, AdapterTypes
<1>6. prog' = Shutting \o t
  BY <1>3, <1>5 DEF Detach, DetachProgram, Shutting, Of, Zmq!DetachProgram, Redis!DetachProgram,
                    Nats!DetachProgram, Mqtt!DetachProgram, Do, End, Zmq!Do, Zmq!End, Redis!Do,
                    Redis!End, Nats!Do, Nats!End, Mqtt!Do, Mqtt!End
<1>7. AdapterInv'
  BY <1>1, <1>4, <1>6, StartShutdown
<1>8. prog' # <<>> /\ Goal(prog)' = "detached" /\ \A u : Sends(u)' <=> Sends(u)
  <2>1. PICK p : p = Shutting \o t
    OBVIOUS
  <2>2. p # <<>> /\ Goal(p) = "detached"
    BY <1>4, <1>5, <2>1, ShutdownProper
  <2> QED  BY <1>1, <1>6, <2>1, <2>2, SameAdapter DEF Goal, Sends
<1>9. Coupling'
  <2> USE DEF Coupling, vars, BusInv
  <2>1. th \in Application
    BY <1>1 DEF Phases
  <2>2. \A u \in Application : ~(pc[u] = "insert" /\ remote \in held[u])
    BY <1>1
  <2> QED  BY <1>1, <1>8, <2>1, <2>2 DEF receiver
<1> QED  BY <1>2, <1>7, <1>9

\* detach() returns, and shutdown() goes on.
LEMMA BothDetached ==
    ASSUME Disciplined, IndInv, NEW th \in Threads, Detached(th)
    PROVE  IndInv'
<1> USE SessionFacts DEF IndInv
<1>1. /\ ShutdownDetach(th, remote) /\ Finish /\ outcome' = "detached" /\ prog' = <<>>
      /\ UNCHANGED <<which, ends, open, recv, using>>
  BY DEF Detached, Finish, object, receiver
<1>2. BusInv'
  BY <1>1, BusShutdownDetach
<1>3. AdapterInv'
  BY <1>1, StepFinish
<1>4. Coupling'
  <2> USE DEF ShutdownDetach, BusInv, TypeOK, Coupling
  <2>1. remote \in detached' /\ remote \in inserted'
    BY <1>1 DEF Snapshots
  <2>2. \A u \in Application : ~(pc'[u] = "insert" /\ remote \in held'[u])
    BY <1>1 DEF Snapshots
  <2>3. \A u : Sends(u)' <=> Sends(u)
    BY <1>1, SameAdapter DEF Sends
  <2>4. \A u \in using' :
           pc'[u] = "dispatch" /\ remote \in todo'[u] /\ Sends(u)' /\ u \in Threads
    BY <1>1, <2>3
  <2>5. pc'[rx] = "dispatch" => recv' = "nested"
    BY <1>1
  <2> QED  BY <1>1, <2>1, <2>2, <2>4, <2>5
<1> QED  BY <1>2, <1>3, <1>4

\* An adapter whose last reference goes is not attached: its destructor runs.
LEMMA BothDrop ==
    ASSUME Disciplined, IndInv, Drop
    PROVE  IndInv'
<1> USE SessionFacts DEF IndInv
<1>1. /\ prog = <<>> /\ outcome # "freed" /\ remote \notin transports
      /\ \A th \in Threads : remote \notin held[th]
      /\ UNCHANGED <<vars, which, ends, outcome, open, sink, connected, receiver, using>>
  BY DEF Drop, object
<1>2. BusInv'
  BY <1>1, BusUnchanged
<1>3. outcome # "attached"
  BY <1>1 DEF Coupling, BusInv, Covered, Snapshots
<1>4. which \in {"zmq", "redis", "nats", "mqtt"} /\ which \in Adapters
  BY AdaptersAssumption DEF AdapterInv, AdapterTypes
<1>5. PICK t : t = IF which = "mqtt" THEN <<Close("client"), End("freed")>> ELSE <<End("freed")>>
  OBVIOUS
<1>6. t \in Endings /\ t[Len(t)].on = "freed"
  BY <1>5 DEF Endings, End
<1>7. prog' = Shutting \o t
  BY <1>4, <1>5 DEF Drop, DestroyProgram, Shutting, Of, Zmq!DestroyProgram,
     Redis!DestroyProgram,
                    Nats!DestroyProgram, Mqtt!DestroyProgram, Close, End, Zmq!End, Redis!End,
                    Nats!End,
                    Mqtt!End, Mqtt!Close
<1>8. AdapterInv'
  BY <1>1, <1>3, <1>6, <1>7, StartShutdown
<1>9. prog' # <<>> /\ Goal(prog)' = "freed" /\ \A u : Sends(u)' <=> Sends(u)
  <2>1. PICK p : p = Shutting \o t
    OBVIOUS
  <2>2. p # <<>> /\ Goal(p) = "freed"
    BY <1>4, <1>6, <2>1, ShutdownProper
  <2> QED  BY <1>1, <1>7, <2>1, <2>2, SameAdapter DEF Goal, Sends
<1>10. Coupling'
  BY <1>1, <1>9 DEF Coupling, vars, receiver
<1> QED  BY <1>2, <1>8, <1>10

\* The destructor of the adapter returns.
LEMMA BothFreed ==
    ASSUME Disciplined, IndInv, Freed
    PROVE  IndInv'
<1> USE SessionFacts DEF IndInv
<1>1. /\ Finish /\ outcome' = "freed" /\ prog' = <<>> /\ prog # <<>> /\ Goal(prog) = "freed"
      /\ UNCHANGED <<vars, which, ends, open, recv, using>>
  BY AtEnd DEF Freed, Finish, object, receiver, AdapterInv
<1>2. BusInv'
  BY <1>1, BusUnchanged
<1>3. AdapterInv'
  BY <1>1, StepFinish
<1>4. outcome # "attached" /\ \A u : Sends(u)' <=> Sends(u)
  BY <1>1, SameAdapter DEF AdapterInv, AdapterTypes, Sends
<1>5. Coupling'
  BY <1>1, <1>4 DEF Coupling, vars
<1> QED  BY <1>2, <1>3, <1>5

\* dispatch() on the adapter begins, does nothing or returns.
LEMMA BothDispatch ==
    ASSUME Disciplined, IndInv, NEW th \in Threads,
           DispatchRemote(th) \/ DispatchSkips(th) \/ Sent(th)
    PROVE  IndInv'
<1> USE SessionFacts DEF IndInv
<1>1. which \in {"zmq", "redis", "nats", "mqtt"}
  BY AdaptersAssumption DEF AdapterInv, AdapterTypes
<1>2. CASE DispatchRemote(th)
  <2>1. /\ pc[th] = "dispatch" /\ remote \in todo[th] /\ Outbound \in open
        /\ using' = using \cup {th}
        /\ UNCHANGED <<vars, which, ends, prog, outcome, open, sink, connected, receiver>>
    BY <1>1, <1>2 DEF DispatchRemote, First, Of, Outbound, Zmq!Dispatch, Redis!Dispatch,
       Nats!Dispatch,
       Mqtt!Dispatch, Zmq!EnterLibrary, Redis!EnterLibrary, Nats!EnterLibrary,
       Mqtt!EnterLibrary,
       Zmq!Outbound, Redis!Outbound, Nats!Outbound, Mqtt!Outbound, Zmq!object, Redis!object,
       Nats!object, Mqtt!object, Zmq!receiver, Redis!receiver, Nats!receiver, Mqtt!receiver,
       receiver
  <2>2. BusInv'
    BY <2>1, BusUnchanged
  <2>3. AdapterInv'
    BY <2>1, StepUnchanged
  <2>4. Goal(prog)' = Goal(prog) /\ Sends(th) /\ \A u : Sends(u)' <=> Sends(u)
    BY <2>1, SameAdapter DEF Goal, Sends
  <2>5. Coupling'
    BY <2>1, <2>4 DEF Coupling, vars, receiver
  <2> QED  BY <2>2, <2>3, <2>5
<1>3. CASE DispatchSkips(th)
  <2>1. Visit(th) /\ th \notin using /\ UNCHANGED adapter
    BY <1>3 DEF DispatchSkips, Visit
  <2>2. BusInv'
    BY <2>1, BusVisit
  <2>3. AdapterInv'
    BY <2>1, StepUnchanged DEF adapter, object
  <2>4. Coupling'
    BY <2>1, CoupleVisit
  <2> QED  BY <2>2, <2>3, <2>4
<1>4. CASE Sent(th)
  <2>1. /\ Visited(th) /\ th \in using /\ using' = using \ {th}
        /\ UNCHANGED <<which, ends, prog, outcome, open, sink, connected, receiver>>
    BY <1>1, <1>4 DEF Sent, Of, Zmq!SendReturns, Redis!SendReturns, Nats!SendReturns,
       Mqtt!SendReturns,
       Zmq!LeaveLibrary, Redis!LeaveLibrary, Nats!LeaveLibrary, Mqtt!LeaveLibrary, Zmq!object,
       Redis!object, Nats!object, Mqtt!object, Zmq!receiver, Redis!receiver, Nats!receiver,
       Mqtt!receiver, receiver
  <2>2. Visit(th)
    BY <2>1 DEF Visit, Coupling
  <2>3. BusInv'
    BY <2>2, BusVisit
  <2>4. AdapterInv'
    BY <2>1, StepUnchanged
  <2>5. Goal(prog)' = Goal(prog) /\ \A u : Sends(u)' <=> Sends(u)
    BY <2>1, SameAdapter DEF Goal, Sends
  <2>6. \A u \in using' :
           pc'[u] = "dispatch" /\ remote \in todo'[u] /\ Sends(u)' /\ u \in Threads
    BY <2>1, <2>5 DEF Coupling, Visited, BusInv, TypeOK
  <2>7. UNCHANGED <<transports, detached, inserted, pc, held, flushed, recv, prog, outcome>>
    BY <2>1 DEF Visited, receiver
  <2>8. Coupling'
    BY <2>5, <2>6, <2>7 DEF Coupling
  <2> QED  BY <2>3, <2>4, <2>8
<1> QED  BY <1>2, <1>3, <1>4

\* A handler publishes to the bus that called it.
LEMMA BothHandlerPublishes ==
    ASSUME Disciplined, IndInv, HandlerPublishes
    PROVE  IndInv'
<1> USE SessionFacts DEF IndInv
<1>1. /\ Publish(rx) /\ recv = "handler" /\ recv' = "nested"
      /\ UNCHANGED <<which, ends, prog, outcome, open, sink, connected, stop, wake, inbox, using>>
  BY DEF HandlerPublishes, RecvGoes, object
<1>2. BusInv'
  BY <1>1, BusPublish
<1>3. ReceiverMoves
  BY <1>1 DEF ReceiverMoves, AdapterInv, AdapterTypes
<1>4. AdapterInv'
  BY <1>3, StepReceiver
<1>5. Goal(prog)' = Goal(prog) /\ \A u : Sends(u)' <=> Sends(u)
  BY <1>1, SameAdapter DEF Goal, Sends
<1>6. Coupling'
  <2> USE DEF Coupling, Publish, MayCall, Enter, BusInv, TypeOK
  <2>1. \A u \in using' :
           pc'[u] = "dispatch" /\ remote \in todo'[u] /\ Sends(u)' /\ u \in Threads
    BY <1>1, <1>5
  <2>2. (prog # <<>> /\ Goal(prog) = "freed") \/ outcome = "freed" =>
           remote \notin transports' /\ \A u \in Threads : remote \notin held'[u]
    BY <1>1
  <2>3. \A u \in Application : pc'[u] = pc[u] /\ held'[u] = held[u]
    BY <1>1
  <2>4. UNCHANGED <<inserted, detached, flushed>> /\ recv' = "nested"
    BY <1>1
  <2> QED  BY <1>1, <1>5, <2>1, <2>2, <2>3, <2>4
<1> QED  BY <1>2, <1>4, <1>6

-----------------------------------------------------------------------------
(* Every step *)

\* The local transports are transports.
LEMMA LocalFacts == \A t \in Local : t \in Transports
  BY DEF Local

\* The application calls the bus ...
LEMMA CallStep ==
    ASSUME Disciplined, IndInv, NEW th \in Application, BusCall(th)
    PROVE  IndInv'
<1> USE DEF IndInv
<1>1. UNCHANGED adapter
  BY DEF BusCall
<1>2. AdapterInv'
  BY <1>1, StepUnchanged DEF adapter, object
<1>3. CASE Publish(th)
  BY <1>1, <1>2, <1>3, BusPublish, CouplePublish, SessionFacts
<1>4. CASE Drain(th)
  BY <1>1, <1>2, <1>4, BusDrain, CoupleDrain
<1>5. CASE Shutdown(th)
  BY <1>1, <1>2, <1>5, BusShutdown, CoupleShutdown
<1>6. CASE Destroy(th)
  BY <1>1, <1>2, <1>6, BusDestroy, CoupleDestroy
<1>7. ASSUME NEW t \in Local, UseTransport(th, t)  PROVE IndInv'
  BY <1>1, <1>2, <1>7, BusUseTransport, CoupleUseTransport, LocalFacts
<1> QED  BY <1>3, <1>4, <1>5, <1>6, <1>7 DEF BusCall

\* ... and the call goes on.
LEMMA GoesOnStep ==
    ASSUME Disciplined, IndInv, NEW th \in Threads, BusStep(th)
    PROVE  IndInv'
<1> USE DEF IndInv
<1>1. UNCHANGED adapter
  BY DEF BusStep
<1>2. AdapterInv'
  BY <1>1, StepUnchanged DEF adapter, object
<1>3. CASE InsertTransport(th) /\ remote \notin held[th]
  BY <1>1, <1>2, <1>3, BusInsertTransport, CoupleInsertTransport
<1>4. CASE PublishReturn(th)
  BY <1>1, <1>2, <1>4, BusPublishReturn, CouplePublishReturn
<1>5. CASE DrainReturn(th)
  BY <1>1, <1>2, <1>5, BusDrainReturn, CoupleDrainReturn
<1>6. CASE Exchange(th)
  BY <1>1, <1>2, <1>6, BusExchange, CoupleExchange
<1>7. CASE Take(th)
  BY <1>1, <1>2, <1>7, BusTake, CoupleTake
<1>8. CASE ShutdownReturn(th)
  BY <1>1, <1>2, <1>8, BusShutdownReturn, CoupleShutdownReturn
<1>9. CASE DestroyMembers(th)
  BY <1>1, <1>2, <1>9, BusDestroyMembers, CoupleDestroyMembers
<1>10. ASSUME NEW t \in Local, Dispatch(th, t), th \notin using  PROVE IndInv'
  BY <1>1, <1>2, <1>10, BusDispatch, CoupleDispatch, LocalFacts
<1>11. ASSUME NEW t \in Local, ShutdownDetach(th, t)  PROVE IndInv'
  BY <1>1, <1>2, <1>11, BusShutdownDetach, CoupleShutdownDetach, LocalFacts
<1>12. ASSUME NEW t \in Transports, DrainFlush(th, t)  PROVE IndInv'
  BY <1>1, <1>2, <1>12, BusDrainFlush, CoupleDrainFlush
<1>13. ASSUME NEW t \in Transports, ShutdownFlush(th, t)  PROVE IndInv'
  BY <1>1, <1>2, <1>13, BusShutdownFlush, CoupleShutdownFlush
<1> QED  BY <1>3, <1>4, <1>5, <1>6, <1>7, <1>8, <1>9, <1>10, <1>11, <1>12, <1>13 DEF BusStep

\* The inductive step.
LEMMA NextStep ==
    ASSUME Disciplined, IndInv, [SessionNext]_all
    PROVE  IndInv'
<1> USE DEF IndInv
<1>1. ASSUME NEW th \in Application, BusCall(th)  PROVE IndInv'
  BY <1>1, CallStep
<1>2. ASSUME NEW th \in Application, Attach(th)  PROVE IndInv'
  BY <1>2, BothAttach
<1>3. ASSUME NEW th \in Threads, ThreadGoesOn(th)  PROVE IndInv'
  BY <1>3, GoesOnStep, BothAttached, BothAttachThrows, BothDetach, BothDetached, BothDispatch
  DEF ThreadGoesOn
<1>4. ASSUME NEW th \in Threads, NEW t \in Local, Worker(th, t)  PROVE IndInv'
  <2>1. Complete(th, t) /\ UNCHANGED adapter
    BY <1>4 DEF Worker
  <2>2. AdapterInv'
    BY <2>1, StepUnchanged DEF adapter, object
  <2> QED  BY <2>1, <2>2, BusComplete, CoupleComplete
<1>5. CASE AdapterStep
  BY <1>5, AdapterSteps, BusUnchanged, CoupleAdapter
<1>6. CASE Drop \/ Freed
  BY <1>6, BothDrop, BothFreed
<1>7. CASE HandlerPublishes
  BY <1>7, BothHandlerPublishes
<1>8. CASE ReceiverStep
  <2>1. ReceiverMoves /\ UNCHANGED <<vars, using>> /\ (recv = "nested" => pc[rx] = "idle")
    BY <1>8, ReceiverSteps
  <2>2. AdapterInv'
    BY <2>1, StepReceiver
  <2>3. UNCHANGED <<vars, using, prog, outcome, which, ends, open>> /\ pc[rx] # "dispatch"
    BY <2>1 DEF ReceiverMoves, Coupling
  <2> QED  BY <2>2, <2>3, BusUnchanged, CoupleReceiver
<1>9. CASE Environment
  <2>1. /\ AdapterInv' /\ UNCHANGED <<vars, using, prog, outcome, which, ends>>
        /\ (recv = "nested" => recv' = "nested") /\ open \ {"sub", "subtok", "tok"} \subseteq open'
    BY <1>9, StepEnvironment
  <2>2. pc[rx] = "dispatch" => recv' = "nested"
    BY <2>1 DEF Coupling
  <2> QED  BY <2>1, <2>2, BusUnchanged, CoupleReceiver
<1>10. CASE UNCHANGED all
  <2>1. UNCHANGED <<vars, adapter>>
    BY <1>10 DEF all
  <2>2. AdapterInv' /\ BusInv'
    BY <2>1, StepUnchanged, BusUnchanged DEF adapter, object
  <2>3. pc[rx] = "dispatch" => recv' = "nested"
    BY <2>1 DEF Coupling, adapter, receiver
  <2>4. UNCHANGED <<vars, using, prog, outcome, which, ends, open>>
    BY <2>1 DEF adapter, object
  <2> QED  BY <2>2, <2>3, <2>4, CoupleReceiver
<1> QED  BY <1>1, <1>2, <1>3, <1>4, <1>5, <1>6, <1>7, <1>8, <1>9, <1>10 DEF SessionNext

\* A session begins with nothing attached and nobody inside the bus.
LEMMA Initially ==
    ASSUME Disciplined, SessionInit
    PROVE  IndInv
<1> USE SessionFacts DEF SessionInit, Init
<1>1. TypeOK
  BY DEF TypeOK, Labels
<1>2. Snapshots
  BY DEF Snapshots
<1>3. Phases
  BY DEF Phases, ShutdownLabels
<1>4. Covered /\ OwnPending
  BY DEF Covered, OwnPending, Looping
<1>5. which \in {"zmq", "redis", "nats", "mqtt"}
  BY AdaptersAssumption
<1>6. open \subseteq Handles /\ "sub" \notin open /\ "subtok" \notin open
  BY <1>5 DEF Handles, Of, Zmq!Constructed, Redis!Constructed, Nats!Constructed,
     Mqtt!Constructed
<1>7. AdapterTypes
  BY <1>6 DEF AdapterTypes, Outcomes
<1>8. ReceiverInv /\ PolledInv
  BY <1>6 DEF ReceiverInv, PolledInv, Attaching, Subscribed
<1>9. ReleaseInv
  BY DEF ReleaseInv
<1>10. Coupling
  BY DEF Coupling
<1> QED  BY <1>1, <1>2, <1>3, <1>4, <1>7, <1>8, <1>9, <1>10 DEF IndInv, BusInv, AdapterInv

-----------------------------------------------------------------------------
(* What shutdown() covers, however the application uses the bus *)

\* A thread inside the client library is visiting the adapter.
Entered ==
    /\ which \in Adapters
    /\ \A th \in using : th \in Threads /\ pc[th] = "dispatch" /\ remote \in todo[th]

\* A transport that shutdown() took is yet to be flushed, about to be detached, or
\* detached, and its caller has units pending only in those yet to be flushed.
LoopInv ==
    \A th \in Threads :
        /\ pc[th] = "detach" => \E t \in Transports : flushed[th] = {t}
        /\ pc[th] # "detach" => flushed[th] = {}
        /\ Looping(th) =>
              \A t \in held[th] : /\ t \in detached \cup todo[th] \cup flushed[th]
                                  /\ t \in todo[th] \/ pending[th][t] = 0

\* None of this needs discipline; with it, IndInv holds as well.
ShutdownInv == TypeOK /\ Entered /\ LoopInv /\ (Disciplined => IndInv)

\* A step of a thread through the bus, the adapter's part left out.
BusMoves(th) ==
    \/ InsertTransport(th) \/ GiveUp(th) \/ PublishReturn(th) \/ DrainReturn(th)
    \/ Visit(th) /\ th \notin using'
    \/ Exchange(th) \/ Take(th) \/ ShutdownReturn(th) \/ DestroyMembers(th) \/ Publish(th)
    \/ th \in Application /\ (Drain(th) \/ Shutdown(th) \/ Destroy(th))
    \/ th \in Application /\ \E t \in Transports : UseTransport(th, t)
    \/ \E t \in Local : Dispatch(th, t) \/ Complete(th, t)
    \/ \E t \in Transports : DrainFlush(th, t) \/ ShutdownFlush(th, t) \/ ShutdownDetach(th, t)

\* The threads inside the client library after a step that leaves the bus alone.
UsingGrows ==
    UNCHANGED vars /\ \A th \in using' :
        th \in using \/ (th \in Threads /\ pc[th] = "dispatch" /\ remote \in todo[th])

\* The adapter by itself lets no thread into the client library.
LEMMA AdapterKeepsUsers ==
    ASSUME which \in Adapters, AdapterStep \/ ReceiverStep \/ Environment
    PROVE  UNCHANGED <<which, using, vars>>
<1>1. which \in {"zmq", "redis", "nats", "mqtt"}
  BY AdaptersAssumption
<1>2. ASSUME AdapterStep  PROVE UNCHANGED <<which, using, vars>>
  <2>1. ASSUME OwnerStep  PROVE UNCHANGED <<which, using>>
    BY <2>1 DEF OwnerStep, MakeHandle, CloseHandle, SetConnected, SpawnThread, SpawnFails,
       StopThread, JoinThread, ClearSink, object
  <2>2. ASSUME Of(Zmq!OwnStep, Redis!OwnStep, Nats!OwnStep, Mqtt!OwnStep)
        PROVE  UNCHANGED <<which, using>>
    <3>1. CASE which = "zmq"
      BY <2>2, <3>1 DEF Of, Zmq!OwnStep, Zmq!NewContext, Zmq!SetupFails, Zmq!SendWake,
         Zmq!TermContext, Zmq!object, Zmq!receiver
    <3>2. CASE which = "redis"
      BY <2>2, <3>2 DEF Of, Redis!OwnStep, Redis!SetupFails, Redis!object, Redis!receiver
    <3>3. CASE which = "nats"
      BY <2>2, <3>3 DEF Of, Nats!OwnStep, Nats!SetupFails, Nats!Subscribe, Nats!Unsubscribe,
         Nats!object, Nats!receiver
    <3>4. CASE which = "mqtt"
      BY <2>2, <3>4 DEF Of, Mqtt!OwnStep, Mqtt!Connect, Mqtt!SetupFails, Mqtt!Subscribe,
         Mqtt!Disconnect, Mqtt!object, Mqtt!receiver
    <3> QED  BY <1>1, <3>1, <3>2, <3>3, <3>4
  <2> QED  BY <1>2, <2>1, <2>2 DEF AdapterStep
<1>3. ASSUME ReceiverStep  PROVE UNCHANGED <<which, using, vars>>
  <2>1. ASSUME HandlerEnd \/ ReportEnd  PROVE UNCHANGED <<which, using>>
    BY <2>1 DEF HandlerEnd, ReportEnd, RecvGoes, object
  <2>2. ASSUME Of(Zmq!ReceiverStep, Redis!ReceiverStep, Nats!ReceiverStep, Mqtt!ReceiverStep)
        PROVE  UNCHANGED <<which, using>>
    <3>1. CASE which = "zmq"
      BY <2>2, <3>1 DEF Of, Zmq!ReceiverStep, Zmq!CheckStop, Zmq!PollTimeout, Zmq!PollError,
         Zmq!PollWoken, Zmq!PollMessage, Zmq!DropFrame, Zmq!DeliverBytes, Zmq!DeliverOrReport,
         Zmq!RecvGoes, Zmq!RecvTakes, Zmq!object
    <3>2. CASE which = "redis"
      BY <2>2, <3>2 DEF Of, Redis!ReceiverStep, Redis!CheckStop, Redis!ConsumeMessage,
         Redis!ConsumeTimeout, Redis!ConsumeError, Redis!Deliver, Redis!DeliverOrReport,
         Redis!RecvGoes, Redis!RecvTakes, Redis!object
    <3>3. CASE which = "nats"
      BY <2>2, <3>3 DEF Of, Nats!ReceiverStep, Nats!MessageHandler, Nats!DeliverBytes,
         Nats!DeliverOrReport, Nats!RecvGoes, Nats!RecvTakes, Nats!object
    <3>4. CASE which = "mqtt"
      BY <2>2, <3>4 DEF Of, Mqtt!ReceiverStep, Mqtt!MessageArrived, Mqtt!Deliver,
         Mqtt!DeliverOrReport, Mqtt!RecvGoes, Mqtt!RecvTakes, Mqtt!object
    <3> QED  BY <1>1, <3>1, <3>2, <3>3, <3>4
  <2> QED  BY <1>3, <2>1, <2>2 DEF ReceiverStep, HandlerEnd
<1>4. CASE Environment
  BY <1>4 DEF Environment, Arrive, Mqtt!LateConnect, Mqtt!LateSuback, Mqtt!ConnectionLost,
     object, Mqtt!object
<1> QED  BY <1>2, <1>3, <1>4

\* Every step of a session is, for the bus, a step of a thread or none.
LEMMA SessionMoves ==
    ASSUME Entered, [SessionNext]_all
    PROVE  /\ which' = which
           /\ UsingGrows \/ (using' \subseteq using /\ \E th \in Threads : BusMoves(th))
<1> USE LocalFacts, CallbacksAssumption, RemoteAssumption DEF BusMoves, Entered, Application
<1>1. ASSUME NEW th \in Application, BusCall(th) \/ Attach(th)
      PROVE  BusMoves(th) /\ UNCHANGED <<which, using>>
  BY <1>1 DEF BusCall, Attach, adapter, object
<1>2. ASSUME NEW th \in Threads, ThreadGoesOn(th)
      PROVE  which' = which /\ (UsingGrows \/ (using' \subseteq using /\ BusMoves(th)))
  <2>1. CASE BusStep(th)
    BY <2>1 DEF BusStep, adapter, object
  <2>2. CASE Attached(th) \/ AttachThrows(th) \/ Detach(th) \/ Detached(th)
    BY <2>2 DEF Attached, AttachThrows, GiveUp, Detach, Detached, Finish, object, UsingGrows
  <2>3. which \in {"zmq", "redis", "nats", "mqtt"}
    BY AdaptersAssumption
  <2>4. CASE DispatchRemote(th)
    <3>1. using' = using \cup {th} /\ UNCHANGED <<vars, which>>
      BY <2>3, <2>4 DEF DispatchRemote, Of, Zmq!Dispatch, Redis!Dispatch, Nats!Dispatch,
         Mqtt!Dispatch, Zmq!EnterLibrary, Redis!EnterLibrary, Nats!EnterLibrary,
         Mqtt!EnterLibrary, Zmq!object, Redis!object, Nats!object, Mqtt!object
    <3> QED  BY <2>4, <3>1 DEF DispatchRemote, First, UsingGrows
  <2>5. CASE DispatchSkips(th)
    BY <2>5 DEF DispatchSkips, Visit, adapter, object
  <2>6. CASE Sent(th)
    <3>1. th \in using /\ Visited(th) /\ using' = using \ {th} /\ which' = which
      BY <2>3, <2>6 DEF Sent, Of, Zmq!SendReturns, Redis!SendReturns, Nats!SendReturns,
         Mqtt!SendReturns, Zmq!LeaveLibrary, Redis!LeaveLibrary, Nats!LeaveLibrary,
         Mqtt!LeaveLibrary, Zmq!object, Redis!object, Nats!object, Mqtt!object
    <3> QED  BY <3>1 DEF Visit
  <2> QED  BY <1>2, <2>1, <2>2, <2>4, <2>5, <2>6 DEF ThreadGoesOn
<1>3. ASSUME NEW th \in Threads, NEW t \in Local, Worker(th, t)
      PROVE  BusMoves(th) /\ UNCHANGED <<which, using>>
  BY <1>3 DEF Worker, adapter, object
<1>4. CASE AdapterStep \/ ReceiverStep \/ Environment
  BY <1>4, AdapterKeepsUsers DEF UsingGrows
<1>5. CASE Drop \/ Freed
  BY <1>5 DEF Drop, Freed, Finish, object, UsingGrows
<1>6. CASE HandlerPublishes
  <2>1. Publish(rx) /\ UNCHANGED <<which, using>> /\ rx \in Threads
    BY <1>6 DEF HandlerPublishes, RecvGoes, object
  <2> QED  BY <2>1
<1>7. CASE UNCHANGED all
  BY <1>7 DEF all, adapter, object, UsingGrows
<1> QED  BY <1>1, <1>2, <1>3, <1>4, <1>5, <1>6, <1>7 DEF SessionNext

\* Every step of a thread keeps the types of the bus, ...
LEMMA MovesTypes ==
    ASSUME TypeOK, NEW th \in Threads, BusMoves(th)
    PROVE  TypeOK'
<1> USE LocalFacts DEF TypeOK, Labels
<1>1. CASE InsertTransport(th)
  BY <1>1 DEF InsertTransport, Leave
<1>2. CASE GiveUp(th)
  BY <1>2 DEF GiveUp, Leave
<1>3. CASE PublishReturn(th)
  BY <1>3 DEF PublishReturn, Leave
<1>4. CASE DrainReturn(th)
  BY <1>4 DEF DrainReturn, Leave
<1>5. CASE Visit(th) /\ th \notin using'
  BY <1>5 DEF Visit, Visited
<1>6. CASE Exchange(th)
  BY <1>6 DEF Exchange
<1>7. CASE Take(th)
  BY <1>7 DEF Take, Enter
<1>8. CASE ShutdownReturn(th)
  BY <1>8 DEF ShutdownReturn, Leave
<1>9. CASE DestroyMembers(th)
  BY <1>9 DEF DestroyMembers
<1>10. CASE Publish(th)
  BY <1>10 DEF Publish, MayCall, Enter
<1>11. CASE Drain(th)
  BY <1>11 DEF Drain, MayCall, Enter
<1>12. CASE Shutdown(th)
  BY <1>12 DEF Shutdown, MayCall
<1>13. CASE Destroy(th)
  BY <1>13 DEF Destroy
<1>14. ASSUME NEW t \in Transports, UseTransport(th, t)  PROVE TypeOK'
  BY <1>14 DEF UseTransport, MayCall, Enter
<1>15. ASSUME NEW t \in Local, Dispatch(th, t)  PROVE TypeOK'
  BY <1>15 DEF Dispatch, First
<1>16. ASSUME NEW t \in Local, Complete(th, t)  PROVE TypeOK'
  BY <1>16 DEF Complete
<1>17. ASSUME NEW t \in Transports, DrainFlush(th, t)  PROVE TypeOK'
  BY <1>17 DEF DrainFlush
<1>18. ASSUME NEW t \in Transports, ShutdownFlush(th, t)  PROVE TypeOK'
  BY <1>18 DEF ShutdownFlush, Drained
<1>19. ASSUME NEW t \in Transports, ShutdownDetach(th, t)  PROVE TypeOK'
  BY <1>19 DEF ShutdownDetach
<1> QED  BY <1>1, <1>2, <1>3, <1>4, <1>5, <1>6, <1>7, <1>8, <1>9, <1>10, <1>11, <1>12, <1>13,
            <1>14, <1>15, <1>16, <1>17, <1>18, <1>19 DEF BusMoves

\* ... keeps those inside the client library on their visit, ...
LEMMA MovesEntered ==
    ASSUME TypeOK, Entered, NEW th \in Threads, BusMoves(th), using' \subseteq using, which' = which
    PROVE  Entered'
<1> USE LocalFacts DEF TypeOK, Entered, Local
<1>1. CASE InsertTransport(th)
  BY <1>1 DEF InsertTransport, Leave
<1>2. CASE GiveUp(th)
  BY <1>2 DEF GiveUp, Leave
<1>3. CASE PublishReturn(th)
  BY <1>3 DEF PublishReturn, Leave
<1>4. CASE DrainReturn(th)
  BY <1>4 DEF DrainReturn, Leave
<1>5. CASE Visit(th) /\ th \notin using'
  BY <1>5 DEF Visit, Visited
<1>6. CASE Exchange(th)
  BY <1>6 DEF Exchange
<1>7. CASE Take(th)
  BY <1>7 DEF Take, Enter
<1>8. CASE ShutdownReturn(th)
  BY <1>8 DEF ShutdownReturn, Leave
<1>9. CASE DestroyMembers(th)
  BY <1>9 DEF DestroyMembers
<1>10. CASE Publish(th)
  BY <1>10 DEF Publish, MayCall, Enter
<1>11. CASE Drain(th)
  BY <1>11 DEF Drain, MayCall, Enter
<1>12. CASE Shutdown(th)
  BY <1>12 DEF Shutdown, MayCall
<1>13. CASE Destroy(th)
  BY <1>13 DEF Destroy
<1>14. ASSUME NEW t \in Transports, UseTransport(th, t)  PROVE Entered'
  BY <1>14 DEF UseTransport, MayCall, Enter
<1>15. ASSUME NEW t \in Local, Dispatch(th, t)  PROVE Entered'
  BY <1>15 DEF Dispatch, First
<1>16. ASSUME NEW t \in Local, Complete(th, t)  PROVE Entered'
  BY <1>16 DEF Complete
<1>17. ASSUME NEW t \in Transports, DrainFlush(th, t)  PROVE Entered'
  BY <1>17 DEF DrainFlush
<1>18. ASSUME NEW t \in Transports, ShutdownFlush(th, t)  PROVE Entered'
  BY <1>18 DEF ShutdownFlush, Drained
<1>19. ASSUME NEW t \in Transports, ShutdownDetach(th, t)  PROVE Entered'
  BY <1>19 DEF ShutdownDetach
<1> QED  BY <1>1, <1>2, <1>3, <1>4, <1>5, <1>6, <1>7, <1>8, <1>9, <1>10, <1>11, <1>12, <1>13,
            <1>14, <1>15, <1>16, <1>17, <1>18, <1>19 DEF BusMoves

\* ... and leaves alone what another thread's shutdown() has covered.
LEMMA MovesLoop ==
    ASSUME TypeOK, LoopInv, NEW th \in Threads, BusMoves(th)
    PROVE  LoopInv'
<1> USE LocalFacts DEF TypeOK, LoopInv, Looping
<1>1. CASE InsertTransport(th)
  BY <1>1 DEF InsertTransport, Leave
<1>2. CASE GiveUp(th)
  BY <1>2 DEF GiveUp, Leave
<1>3. CASE PublishReturn(th)
  BY <1>3 DEF PublishReturn, Leave
<1>4. CASE DrainReturn(th)
  BY <1>4 DEF DrainReturn, Leave
<1>5. CASE Visit(th) /\ th \notin using'
  BY <1>5 DEF Visit, Visited
<1>6. CASE Exchange(th)
  BY <1>6 DEF Exchange
<1>7. CASE Take(th)
  BY <1>7 DEF Take, Enter
<1>8. CASE ShutdownReturn(th)
  BY <1>8 DEF ShutdownReturn, Leave
<1>9. CASE DestroyMembers(th)
  BY <1>9 DEF DestroyMembers
<1>10. CASE Publish(th)
  BY <1>10 DEF Publish, MayCall, Enter
<1>11. CASE Drain(th)
  BY <1>11 DEF Drain, MayCall, Enter
<1>12. CASE Shutdown(th)
  BY <1>12 DEF Shutdown, MayCall
<1>13. CASE Destroy(th)
  BY <1>13 DEF Destroy
<1>14. ASSUME NEW t \in Transports, UseTransport(th, t)  PROVE LoopInv'
  BY <1>14 DEF UseTransport, MayCall, Enter
<1>15. ASSUME NEW t \in Local, Dispatch(th, t)  PROVE LoopInv'
  BY <1>15 DEF Dispatch, First
<1>16. ASSUME NEW t \in Local, Complete(th, t)  PROVE LoopInv'
  BY <1>16 DEF Complete
<1>17. ASSUME NEW t \in Transports, DrainFlush(th, t)  PROVE LoopInv'
  BY <1>17 DEF DrainFlush
<1>18. ASSUME NEW t \in Transports, ShutdownFlush(th, t)  PROVE LoopInv'
  BY <1>18 DEF ShutdownFlush, Drained
<1>19. ASSUME NEW t \in Transports, ShutdownDetach(th, t)  PROVE LoopInv'
  BY <1>19 DEF ShutdownDetach
<1> QED  BY <1>1, <1>2, <1>3, <1>4, <1>5, <1>6, <1>7, <1>8, <1>9, <1>10, <1>11, <1>12, <1>13,
            <1>14, <1>15, <1>16, <1>17, <1>18, <1>19 DEF BusMoves

\* The invariant of shutdown() holds at first ...
LEMMA ShutdownInitially ==
    ASSUME SessionInit
    PROVE  ShutdownInv
<1>1. TypeOK /\ Entered /\ LoopInv
  BY DEF SessionInit, Init, TypeOK, Labels, Entered, LoopInv, Looping
<1>2. Disciplined => IndInv
  BY Initially
<1> QED  BY <1>1, <1>2 DEF ShutdownInv

\* ... and after every step.
LEMMA ShutdownStep ==
    ASSUME ShutdownInv, [SessionNext]_all
    PROVE  ShutdownInv'
<1> USE DEF ShutdownInv
<1>1. Disciplined => IndInv'
  BY NextStep
<1>2. which' = which
  BY SessionMoves
<1>3. CASE UsingGrows
  <2>1. TypeOK' /\ LoopInv'
    BY <1>3 DEF UsingGrows, vars, TypeOK, LoopInv, Looping
  <2>2. Entered'
    BY <1>2, <1>3 DEF UsingGrows, vars, Entered
  <2> QED  BY <1>1, <2>1, <2>2
<1>4. ASSUME NEW th \in Threads, BusMoves(th), using' \subseteq using
      PROVE  TypeOK' /\ Entered' /\ LoopInv'
  BY <1>2, <1>4, MovesTypes, MovesEntered, MovesLoop
<1> QED  BY <1>1, <1>3, <1>4, SessionMoves

-----------------------------------------------------------------------------
(* Theorems *)

\* The inductive invariant holds of every session of a disciplined application.
THEOREM Invariance ==
    ASSUME Disciplined
    PROVE  SessionSpec => []IndInv
<1>1. SessionInit => IndInv
  BY Initially
<1>2. IndInv /\ [SessionNext]_all => IndInv'
  BY NextStep
<1> QED  BY <1>1, <1>2, PTL DEF SessionSpec

\* Type correctness of the bus, whatever adapter is attached to it.
THEOREM TypeCorrect ==
    ASSUME Disciplined
    PROVE  SessionSpec => []TypeOK
<1>1. IndInv => TypeOK
  BY DEF IndInv, BusInv
<1> QED  BY <1>1, Invariance, PTL

\* Of zmq and redis, no handler and no on_transport_error() runs in a bus that is
\* gone or for an adapter that is, and no message that was taken is dropped:
\* detach() joins the receiver before it clears the sink, and ~Bus() detaches.
THEOREM HandlersRunInLiveBus ==
    ASSUME Disciplined
    PROVE  SessionSpec => []HandlersInLiveBus
<1>1. ASSUME IndInv  PROVE HandlersInLiveBus
  <2> USE <1>1, SessionFacts DEF IndInv, BusInv, AdapterInv
  <2>1. Delivering => recv # "none"
    BY DEF Delivering
  <2>2. Threaded /\ recv # "none" => sink /\ (Attaching \/ outcome = "attached")
    BY DEF ReceiverInv, Live, Starting, Idle
  <2>3. Threaded /\ recv # "none" => outcome # "freed"
    BY <2>2 DEF Attaching, AdapterTypes
  <2>4. ASSUME Threaded, recv # "none", bus = "gone"  PROVE FALSE
    <3>1. shutdown /\ \A th \in Application : pc[th] = "idle"
      BY <2>4 DEF Phases
    <3>2. transports = {}
      BY <3>1 DEF Phases
    <3>3. outcome = "attached"
      BY <2>2, <2>4, <3>1 DEF Attaching, Coupling
    <3>4. remote \in inserted \ detached
      BY <3>3 DEF Coupling
    <3> QED  BY <3>1, <3>2, <3>4 DEF Covered, Looping
  <2> QED  BY <2>1, <2>2, <2>3, <2>4 DEF HandlersInLiveBus, Joined, Threaded
<1> QED  BY <1>1, Invariance, PTL

\* shutdown() of an adapter closes no handle that a publisher sends on or the
\* receiver polls.
THEOREM HandlesOutliveTheirUsers ==
    ASSUME Disciplined
    PROVE  SessionSpec => []HandlesOutliveUsers
<1>1. ASSUME IndInv  PROVE HandlesOutliveUsers
  <2>1. \A th \in using : (th = rx /\ which = "nats") \/ Outbound \in open
    BY <1>1 DEF IndInv, Coupling, Sends
  <2>2. recv = "poll" => Polled \subseteq open
    BY <1>1 DEF IndInv, AdapterInv, PolledInv
  <2> QED  BY <2>1, <2>2 DEF HandlesOutliveUsers
<1> QED  BY <1>1, Invariance, PTL

\* A failed attach() and a detach() of zmq, redis and nats leave no handle, no
\* message, no connected flag and, a callback of nats apart, no receiver behind.
THEOREM NothingIsLeftBehind ==
    ASSUME Disciplined
    PROVE  SessionSpec => []NothingLeftBehind
<1>1. ASSUME IndInv  PROVE NothingLeftBehind
  <2> USE <1>1 DEF IndInv, AdapterInv
  <2>1. SUFFICES ASSUME which # "mqtt", outcome \in {"threw", "detached"}, prog = <<>>
                 PROVE  /\ open = {} /\ ~connected /\ inbox = 0
                        /\ recv = "none" \/ (which = "nats" /\ Delivering)
    BY DEF NothingLeftBehind
  <2>2. open = {} /\ ~connected
    BY <2>1 DEF ReleaseInv
  <2>3. inbox = 0
    BY <2>2 DEF ReleaseInv
  <2>4. Threaded => recv = "none"
    BY <2>1 DEF ReceiverInv, Live, Starting, Attaching, Idle
  <2>5. ~Threaded => which = "nats" /\ (recv = "none" \/ Delivering)
    <3>1. which \in {"zmq", "redis", "nats", "mqtt"}
      BY AdaptersAssumption DEF AdapterTypes
    <3> QED  BY <2>1, <2>2, <3>1 DEF ReceiverInv, AdapterTypes, Threaded, Delivering
  <2> QED  BY <2>2, <2>3, <2>4, <2>5
<1> QED  BY <1>1, Invariance, PTL

\* drain() returns only when every unit its caller had dispatched is finished.
THEOREM DrainCoversItsCaller ==
    ASSUME Disciplined
    PROVE  SessionSpec => DrainCoversOwn
<1> DEFINE Drains == \A th \in Threads : pc[th] = "drain" /\ pc'[th] = "idle" =>
                        \A t \in Transports : pending[th][t] = 0
<1>1. ASSUME IndInv, [SessionNext]_all  PROVE [Drains]_vars
  <2> USE <1>1, SessionFacts DEF IndInv, BusInv, TypeOK
  <2>1. SUFFICES ASSUME NEW u \in Threads, BusMoves(u), NEW th \in Threads, pc[th] = "drain",
                        pc'[th] = "idle", NEW t \in Transports
                 PROVE  pending[th][t] = 0
    <3>1. Entered
      BY DEF Entered, AdapterInv, AdapterTypes, Coupling
    <3>2. UNCHANGED vars \/ \E u \in Threads : BusMoves(u)
      BY <1>1, <3>1, SessionMoves DEF UsingGrows
    <3> QED  BY <3>2
  <2>2. th \in Application
    BY <2>1 DEF Phases
  <2>3. DrainReturn(th)
    <3>1. CASE InsertTransport(u) \/ GiveUp(u) \/ Visit(u) \/ PublishReturn(u) \/ DrainReturn(u)
      BY <2>1, <3>1 DEF InsertTransport, GiveUp, Visit, Visited, PublishReturn, DrainReturn,
         Leave
    <3>2. CASE Exchange(u) \/ Take(u) \/ ShutdownReturn(u) \/ DestroyMembers(u) \/ Publish(u)
      BY <2>1, <3>2 DEF Exchange, Take, Enter, ShutdownReturn, Leave, DestroyMembers, Publish
    <3>3. CASE Drain(u) \/ Shutdown(u) \/ Destroy(u) \/ \E s \in Transports : UseTransport(u, s)
      BY <2>1, <3>3 DEF Drain, Shutdown, Destroy, UseTransport, Enter
    <3>4. CASE \E s \in Local : Dispatch(u, s) \/ Complete(u, s)
      BY <2>1, <3>4 DEF Dispatch, Complete
    <3>5. CASE \E s \in Transports : DrainFlush(u, s) \/ ShutdownFlush(u, s) \/ ShutdownDetach(u, s)
      BY <2>1, <3>5 DEF DrainFlush, ShutdownFlush, ShutdownDetach
    <3> QED  BY <2>1, <3>1, <3>2, <3>3, <3>4, <3>5 DEF BusMoves
  <2>4. ~(pending[th][t] > 0) /\ pending[th][t] \in Nat
    BY <2>1, <2>2, <2>3 DEF DrainReturn, OwnPending
  <2> QED  BY <2>4
<1> QED  BY <1>1, Invariance, PTL DEF SessionSpec, DrainCoversOwn

\* shutdown() covers the transports it took, whatever else uses the bus
\* meanwhile; if the application leaves the bus alone, it covers every transport
\* the bus has owned and everything the application has dispatched.
THEOREM ShutdownCoversItsTransports ==
    ASSUME Callbacks = {rx}
    PROVE  SessionSpec => ShutdownCovers
<1> DEFINE Covers ==
       \A th \in Threads : pc[th] = "flush" /\ pc'[th] = "idle" =>
          /\ \A t \in held[th] : t \in detached /\ pending[th][t] = 0
          /\ Orderly => \A t \in inserted, u \in Threads \ Callbacks :
                           t \in detached /\ pending[u][t] = 0
<1>1. SessionInit => ShutdownInv
  BY ShutdownInitially
<1>2. ShutdownInv /\ [SessionNext]_all => ShutdownInv'
  BY ShutdownStep
<1>3. ASSUME ShutdownInv, [SessionNext]_all  PROVE [Covers]_vars
  <2> USE <1>3 DEF ShutdownInv
  <2>1. SUFFICES ASSUME NEW u \in Threads, BusMoves(u), NEW th \in Threads, pc[th] = "flush",
                        pc'[th] = "idle"
                 PROVE  /\ \A t \in held[th] : t \in detached /\ pending[th][t] = 0
                        /\ Orderly => \A t \in inserted, v \in Threads \ Callbacks :
                                         t \in detached /\ pending[v][t] = 0
    <3>1. UNCHANGED vars \/ \E u \in Threads : BusMoves(u)
      BY <1>3, SessionMoves DEF UsingGrows
    <3> QED  BY <3>1
  <2>2. todo[th] = {}
    <3> USE DEF TypeOK
    <3>1. CASE InsertTransport(u) \/ GiveUp(u) \/ Visit(u) \/ PublishReturn(u) \/ DrainReturn(u)
      BY <2>1, <3>1 DEF InsertTransport, GiveUp, Visit, Visited, PublishReturn, DrainReturn,
         Leave
    <3>2. CASE Exchange(u) \/ Take(u) \/ ShutdownReturn(u) \/ DestroyMembers(u) \/ Publish(u)
      BY <2>1, <3>2 DEF Exchange, Take, Enter, ShutdownReturn, Leave, DestroyMembers, Publish
    <3>3. CASE Drain(u) \/ Shutdown(u) \/ Destroy(u) \/ \E s \in Transports : UseTransport(u, s)
      BY <2>1, <3>3 DEF Drain, Shutdown, Destroy, UseTransport, Enter
    <3>4. CASE \E s \in Local : Dispatch(u, s) \/ Complete(u, s)
      BY <2>1, <3>4 DEF Dispatch, Complete
    <3>5. CASE \E s \in Transports : DrainFlush(u, s) \/ ShutdownFlush(u, s) \/ ShutdownDetach(u, s)
      BY <2>1, <3>5 DEF DrainFlush, ShutdownFlush, ShutdownDetach
    <3> QED  BY <2>1, <3>1, <3>2, <3>3, <3>4, <3>5 DEF BusMoves
  <2>3. flushed[th] = {}
    BY <2>1 DEF LoopInv
  <2>4. \A t \in held[th] : t \in detached /\ pending[th][t] = 0
    BY <2>1, <2>2, <2>3 DEF LoopInv, Looping
  <2>5. ASSUME Orderly, NEW t \in inserted, NEW v \in Threads \ Callbacks
        PROVE  t \in detached /\ pending[v][t] = 0
    <3>1. Disciplined /\ IndInv /\ v \in Application
      BY <2>5 DEF Disciplined, Application
    <3> USE <3>1, SessionFacts DEF IndInv, BusInv
    <3>2. th \in Application /\ shutdown /\ \A w \in Application : w # th => pc[w] = "idle"
      BY <2>1 DEF Phases, ShutdownLabels
    <3>3. transports = {}
      BY <2>1, <3>2 DEF Phases
    <3>4. ~Ahead(t)
      BY <2>2, <3>2, <3>3 DEF Ahead, Looping
    <3>5. t \in detached
      BY <2>2, <2>3, <3>2, <3>3 DEF Covered, Looping
    <3>6. t \in Transports /\ pending[v][t] \in Nat
      BY DEF TypeOK
    <3>7. ~(pending[v][t] > 0)
      BY <3>4, <3>6 DEF OwnPending
    <3> QED  BY <3>5, <3>6, <3>7
  <2> QED  BY <2>4, <2>5
<1> QED  BY <1>1, <1>2, <1>3, PTL DEF SessionSpec, ShutdownCovers
=============================================================================
