--------------------------- MODULE EnvelopeProofs ---------------------------
(***************************************************************************)
(* Proofs about Envelope, for any clock and resolution, any flags and any  *)
(* number of threads, envelopes, messages and hops.                        *)
(***************************************************************************)
EXTENDS Envelope, SequenceTheorems, TLAPS

\* Every envelope, and every message, goes back to a built envelope.
Origin(id) == id \in 1..Len(core) /\ core[id].id = id
OriginsBuilt == \A i \in 1..Len(core) : Origin(core[i].id)

\* Every message says of its event what the built envelope says: no flags but
\* the built ones, all those that a receiver knows, the creation time in
\* milliseconds.
WireFaithful ==
    \A m \in wire :
        /\ Origin(m.id)
        /\ core[m.id].flags \cap Registered \subseteq m.flags
        /\ m.flags \subseteq core[m.id].flags
        /\ m.created_at = core[m.id].created_at \div TicksPerMs

\* The times of a message, in clock ticks again, are times.
WireTimes ==
    \A m \in wire : /\ FromMs(m.published_at) \in Time \cup {Absent}
                    /\ FromMs(m.received_at) \in Time \cup {Absent}

\* A call is about an envelope there is.
CallsPlaced ==
    \A th \in Threads : call[th] # NoCall =>
        call[th].core \in 1..Len(core) /\ call[th].stamp \in Time

\* Two calls on one core that are both under way overlap, and each knows it.
Overlaps ==
    \A th, u \in Threads :
        call[th] # NoCall /\ call[u].core = call[th].core
            => call[u].stamp \in call[th].during

\* The inductive invariant.
IndInv ==
    /\ TypeOK /\ OriginsBuilt /\ WireFaithful /\ WireTimes /\ CallsPlaced
    /\ Overlaps /\ HopsPreserve /\ StampsOverlap

-----------------------------------------------------------------------------
(* The arithmetic of the wire format *)

CoreType ==
    [id : 1..MaxCores, flags : SUBSET Flag, created_at : Time,
     published_at : Time \cup {Absent}, received_at : Time \cup {Absent}]
CallType ==
    [core : 0..MaxCores, stamp : Time \cup {Absent}, stored : BOOLEAN, during : SUBSET Time]

\* Absent is not a time, and the clock resolution is a positive number.
LEMMA Numbers ==
    /\ TicksPerMs \in Nat /\ TicksPerMs > 0
    /\ MaxClock \in Nat /\ MaxBuilt \in Nat /\ MaxCores \in Nat /\ MaxBuilt <= MaxCores
    /\ Absent \notin Time /\ Absent \in Int
  BY NumbersAssumption DEF Absent, Time

\* Whole milliseconds, back in ticks, are the time cut to the millisecond ...
LEMMA CutToMs ==
    ASSUME NEW t \in Nat
    PROVE  /\ t \div TicksPerMs \in 0..t
           /\ (t \div TicksPerMs) * TicksPerMs = t - (t % TicksPerMs)
           /\ t - (t % TicksPerMs) \in 0..t
  <1> DEFINE k == TicksPerMs
  <1>k. k \in Nat /\ k > 0
    BY Numbers
  <1> HIDE DEF k
  <1>1. t = k * (t \div k) + (t % k) /\ t % k \in 0..k - 1 /\ t \div k \in Int
    BY <1>k
  <1>2. t \div k \in Nat
    BY <1>1, <1>k
  <1>3. t \div k <= k * (t \div k)
    BY <1>2, <1>k
  <1>4. (t \div k) * k = k * (t \div k) /\ k * (t \div k) \in Nat
    BY <1>2, <1>k
  <1> QED
    BY <1>1, <1>2, <1>3, <1>4, <1>k DEF k

\* ... and cutting such a time again changes nothing.
LEMMA CutOnce ==
    ASSUME NEW t \in Nat
    PROVE  ((t \div TicksPerMs) * TicksPerMs) \div TicksPerMs = t \div TicksPerMs
  <1> DEFINE k == TicksPerMs
  <1>k. k \in Nat /\ k > 0
    BY Numbers
  <1>1. t \div k \in Nat
    BY CutToMs
  <1> HIDE DEF k
  <1>2. ASSUME NEW q \in Nat PROVE (q * k) \div k = q
    BY <1>k
  <1> QED
    BY <1>1, <1>2 DEF k

\* A time, present or not, has a form on the wire that decodes to a time.
LEMMA WireTime ==
    ASSUME NEW t \in Time \cup {Absent}
    PROVE  /\ ToMs(t) \in Time \cup {Absent}
           /\ FromMs(ToMs(t)) \in Time \cup {Absent}
  <1>1. CASE t = Absent
    BY <1>1, Numbers DEF ToMs, FromMs
  <1>2. CASE t # Absent
    <2>1. t \in Nat /\ t <= MaxClock /\ MaxClock \in Nat
      BY <1>2, Numbers DEF Time
    <2>2. /\ t \div TicksPerMs \in 0..t
          /\ (t \div TicksPerMs) * TicksPerMs \in 0..t
      BY <2>1, CutToMs
    <2>3. ToMs(t) = t \div TicksPerMs /\ ToMs(t) # Absent
      BY <1>2, <2>2 DEF ToMs, Absent
    <2>4. FromMs(ToMs(t)) = (t \div TicksPerMs) * TicksPerMs
      BY <2>3 DEF FromMs
    <2> QED
      BY <2>1, <2>2, <2>3, <2>4 DEF Time
  <1> QED
    BY <1>1, <1>2

-----------------------------------------------------------------------------
(* The codec *)

\* Encoding an envelope gives a message with its identity and flags, and with
\* its times in milliseconds, that decode to times again.
LEMMA Encoded ==
    ASSUME NEW c \in CoreType
    PROVE  /\ ToWire(c) \in CoreType
           /\ ToWire(c).id = c.id /\ ToWire(c).flags = c.flags
           /\ ToWire(c).created_at = c.created_at \div TicksPerMs
           /\ FromMs(ToWire(c).published_at) \in Time \cup {Absent}
           /\ FromMs(ToWire(c).received_at) \in Time \cup {Absent}
  <1>1. /\ c.id \in 1..MaxCores /\ c.flags \in SUBSET Flag /\ c.created_at \in Time
        /\ c.published_at \in Time \cup {Absent} /\ c.received_at \in Time \cup {Absent}
    BY DEF CoreType
  <1>2. /\ ToWire(c).id = c.id /\ ToWire(c).flags = c.flags
        /\ ToWire(c).created_at = ToMs(c.created_at)
        /\ ToWire(c).published_at = ToMs(c.published_at)
        /\ ToWire(c).received_at = ToMs(c.received_at)
    BY DEF ToWire, CoreType
  <1>3. ToMs(c.created_at) = c.created_at \div TicksPerMs /\ ToMs(c.created_at) \in Time
    <2>1. c.created_at # Absent /\ c.created_at \in Nat /\ c.created_at <= MaxClock
      BY <1>1, Numbers DEF Time
    <2>2. c.created_at \div TicksPerMs \in 0..c.created_at
      BY <2>1, CutToMs
    <2>3. ToMs(c.created_at) = c.created_at \div TicksPerMs
      BY <2>1 DEF ToMs
    <2> QED
      BY <2>1, <2>2, <2>3, Numbers DEF Time
  <1>4. /\ ToMs(c.published_at) \in Time \cup {Absent}
        /\ ToMs(c.received_at) \in Time \cup {Absent}
        /\ FromMs(ToMs(c.published_at)) \in Time \cup {Absent}
        /\ FromMs(ToMs(c.received_at)) \in Time \cup {Absent}
    BY <1>1, WireTime
  <1>5. ToWire(c) \in CoreType
    BY <1>3, <1>4 DEF ToWire, CoreType
  <1> QED
    BY <1>2, <1>3, <1>4, <1>5

\* Decoding a message whose creation time is t in milliseconds.
LEMMA Decoded ==
    ASSUME NEW m \in CoreType, NEW t \in Time, NEW now \in Time,
           m.created_at = t \div TicksPerMs,
           FromMs(m.published_at) \in Time \cup {Absent}
    PROVE  LET c == [FromWire(m) EXCEPT !.received_at = now]
           IN  /\ c \in CoreType
               /\ c.id = m.id /\ c.flags = m.flags \cap Registered
               /\ c.created_at = t - (t % TicksPerMs)
  <1> DEFINE c == [FromWire(m) EXCEPT !.received_at = now]
  <1>1. /\ c.id = m.id /\ c.flags = m.flags \cap Registered
        /\ c.created_at = FromMs(m.created_at)
    BY DEF FromWire, CoreType
  <1>2. t \in Nat /\ t <= MaxClock /\ MaxClock \in Nat
    BY Numbers DEF Time
  <1>3. m.created_at # Absent
    BY <1>2, CutToMs DEF Absent
  <1>4. FromMs(m.created_at) = t - (t % TicksPerMs)
    BY <1>2, <1>3, CutToMs DEF FromMs
  <1>5. t - (t % TicksPerMs) \in Time
    BY <1>2, CutToMs DEF Time
  <1>6. m.flags \cap Registered \in SUBSET Flag /\ FromMs(m.created_at) \in Time
    BY <1>4, <1>5 DEF CoreType
  <1>7. c \in CoreType
    BY <1>6 DEF FromWire, CoreType
  <1> QED
    BY <1>1, <1>4, <1>7

-----------------------------------------------------------------------------
(* The invariant, action by action *)

\* The type invariant with the type of a core named.
LEMMA TypeOKNamed ==
    TypeOK <=>
        /\ builder \in [flags : SUBSET Flag, created_at : Time, created_at_set : BOOLEAN]
        /\ core \in Seq(CoreType) /\ Len(core) <= MaxCores
        /\ wire \subseteq CoreType
        /\ call \in [Threads -> CallType]
  BY DEF TypeOK, CoreType, CallType

\* What the invariant says of one envelope: where it comes from, and that it is
\* either built or what the hops preserve.
GoodCore(s, c, i) ==
    LET built == s[c.id]
    IN  /\ c.id \in 1..Len(s) /\ built.id = c.id
        /\ c.id # i => /\ built.flags \cap Registered \subseteq c.flags
                       /\ c.flags \subseteq built.flags
                       /\ c.created_at = built.created_at - (built.created_at % TicksPerMs)

\* Two parts of the invariant, envelope by envelope.
LEMMA GoodCores ==
    OriginsBuilt /\ HopsPreserve <=> \A i \in 1..Len(core) : GoodCore(core, core[i], i)
  BY DEF OriginsBuilt, HopsPreserve, Origin, Received, GoodCore

\* An envelope that joins the others leaves what is known of them, of the
\* messages and of the calls as it is.
LEMMA Grow ==
    ASSUME IndInv, NEW c \in CoreType, core' = Append(core, c), Len(core) < MaxCores,
           UNCHANGED <<wire, call>>,
           GoodCore(core', c, Len(core) + 1)
    PROVE  /\ core' \in Seq(CoreType) /\ Len(core') <= MaxCores
           /\ OriginsBuilt' /\ WireFaithful' /\ WireTimes' /\ CallsPlaced'
           /\ Overlaps' /\ HopsPreserve' /\ StampsOverlap'
  <1>i. /\ TypeOK /\ OriginsBuilt /\ WireFaithful /\ WireTimes /\ CallsPlaced
        /\ Overlaps /\ HopsPreserve /\ StampsOverlap
    BY DEF IndInv
  <1>1. core \in Seq(CoreType) /\ Len(core) \in Nat
    BY <1>i, TypeOKNamed
  <1>2. /\ core' \in Seq(CoreType) /\ Len(core') = Len(core) + 1
        /\ core'[Len(core) + 1] = c
        /\ \A i \in 1..Len(core) : core'[i] = core[i]
    BY <1>1
  <1>3. \A i \in 1..Len(core) : i \in 1..Len(core')
    BY <1>1, <1>2
  <1>4. ASSUME NEW i \in 1..Len(core') PROVE GoodCore(core', core'[i], i)
    <2>1. CASE i \in 1..Len(core)
      <3>1. GoodCore(core, core[i], i)
        BY <2>1, <1>i, GoodCores
      <3>2. core[i].id \in 1..Len(core) /\ core'[i] = core[i]
        BY <2>1, <3>1, <1>2 DEF GoodCore
      <3>3. core'[core[i].id] = core[core[i].id] /\ core[i].id \in 1..Len(core')
        BY <3>2, <1>2, <1>3
      <3> QED
        BY <3>1, <3>2, <3>3 DEF GoodCore
    <2>2. CASE i = Len(core) + 1
      BY <2>2, <1>2
    <2> QED
      BY <2>1, <2>2, <1>1, <1>2
  <1>5. OriginsBuilt' /\ HopsPreserve'
    BY <1>4 DEF OriginsBuilt, HopsPreserve, Origin, Received, GoodCore
  <1>6. WireFaithful'
    BY <1>i, <1>2, <1>3 DEF WireFaithful, Origin
  <1>7. WireTimes'
    BY <1>i DEF WireTimes
  <1>8. CallsPlaced' /\ Overlaps' /\ StampsOverlap'
    <2>1. CallsPlaced' /\ Overlaps'
      BY <1>i, <1>3 DEF CallsPlaced, Overlaps
    <2>2. \A th \in Threads : call[th].stored => call[th].core \in 1..Len(core)
      BY <1>i DEF CallsPlaced, NoCall
    <2> QED
      BY <2>1, <2>2, <1>i, <1>2 DEF StampsOverlap
  <1>9. Len(core') <= MaxCores
    BY <1>1, <1>2, Numbers
  <1> QED
    BY <1>2, <1>5, <1>6, <1>7, <1>8, <1>9

BuilderType == [flags : SUBSET Flag, created_at : Time, created_at_set : BOOLEAN]

\* What no envelope, message or call takes part in: the builder.
LEMMA Frame ==
    ASSUME IndInv, UNCHANGED <<core, wire, call>>, builder' \in BuilderType
    PROVE  IndInv'
  <1>i. /\ TypeOK /\ OriginsBuilt /\ WireFaithful /\ WireTimes /\ CallsPlaced
        /\ Overlaps /\ HopsPreserve /\ StampsOverlap
    BY DEF IndInv
  <1>1. TypeOK'
    BY <1>i DEF TypeOK, BuilderType
  <1>2. OriginsBuilt' /\ WireFaithful' /\ WireTimes' /\ HopsPreserve'
    BY <1>i DEF OriginsBuilt, Origin, WireFaithful, WireTimes, HopsPreserve, Received
  <1>3. CallsPlaced' /\ Overlaps' /\ StampsOverlap'
    BY <1>i DEF CallsPlaced, Overlaps, StampsOverlap
  <1> QED
    BY <1>1, <1>2, <1>3 DEF IndInv

\* The types of the builder and of the clock.
LEMMA SmallTypes ==
    ASSUME IndInv
    PROVE  builder \in BuilderType /\ \A now \in Clock : now \in Time
  BY ClockAssumption DEF IndInv, TypeOK, BuilderType

\* The builder is begun, or told a flag or a creation time.
LEMMA BuilderStep ==
    ASSUME IndInv,
           \/ NewBuilder
           \/ \E f \in Flag : SetFlag(f)
           \/ \E t \in Time : SetCreatedAt(t)
    PROVE  IndInv'
  <1>1. builder' \in BuilderType
    <2>1. CASE NewBuilder
      <3>1. 0 \in Time
        BY Numbers DEF Time
      <3> QED
        BY <2>1, <3>1, FlagsAssumption DEF NewBuilder, Fresh, BuilderType
    <2>2. CASE \E f \in Flag : SetFlag(f)
      BY <2>2, SmallTypes DEF SetFlag, BuilderType
    <2>3. CASE \E t \in Time : SetCreatedAt(t)
      BY <2>3, SmallTypes DEF SetCreatedAt, BuilderType
    <2> QED
      BY <2>1, <2>2, <2>3
  <1>2. UNCHANGED <<core, wire, call>>
    BY DEF NewBuilder, SetFlag, SetCreatedAt
  <1> QED
    BY <1>1, <1>2, Frame

\* build(): the new envelope is its own origin.
LEMMA BuildStep ==
    ASSUME IndInv, NEW now \in Clock, Build(now)
    PROVE  IndInv'
  <1> DEFINE c == [id |-> Len(core) + 1, flags |-> builder.flags,
                   created_at |-> IF builder.created_at_set THEN builder.created_at ELSE now,
                   published_at |-> Absent, received_at |-> Absent]
  <1>1. /\ core' = Append(core, c) /\ Len(core) < MaxBuilt
        /\ UNCHANGED <<wire, call>>
    BY DEF Build, MoreBuilt
  <1>2. core \in Seq(CoreType) /\ Len(core) \in Nat
    BY TypeOKNamed DEF IndInv
  <1>3. Len(core) < MaxCores /\ Len(core) + 1 \in 1..MaxCores
    BY <1>1, <1>2, Numbers
  <1>4. c \in CoreType
    BY <1>3, SmallTypes DEF CoreType, BuilderType
  <1>5. c.id = Len(core) + 1
    OBVIOUS
  <1> HIDE DEF c
  <1>6. Len(core') = Len(core) + 1 /\ core'[Len(core) + 1] = c
    BY <1>1, <1>2, <1>4
  <1>7. GoodCore(core', c, Len(core) + 1)
    BY <1>2, <1>5, <1>6 DEF GoodCore
  <1>8. /\ core' \in Seq(CoreType) /\ Len(core') <= MaxCores
        /\ OriginsBuilt' /\ WireFaithful' /\ WireTimes' /\ CallsPlaced'
        /\ Overlaps' /\ HopsPreserve' /\ StampsOverlap'
    BY <1>1, <1>3, <1>4, <1>7, Grow
  <1>9. builder' \in BuilderType
    BY SmallTypes DEF Build, BuilderType
  <1>10. TypeOK'
    BY <1>1, <1>8, <1>9 DEF IndInv, TypeOK, CoreType, BuilderType
  <1> QED
    BY <1>8, <1>10 DEF IndInv

\* The inbound path: the decoded envelope has the message's origin.
LEMMA ReceiveStep ==
    ASSUME IndInv, NEW m \in wire, NEW now \in Clock, Receive(m, now)
    PROVE  IndInv'
  <1> DEFINE c == [FromWire(m) EXCEPT !.received_at = now]
             b == core[m.id]
  <1>i. TypeOK /\ WireFaithful /\ WireTimes
    BY DEF IndInv
  <1>1. /\ core' = Append(core, c) /\ Len(core) < MaxCores
        /\ UNCHANGED <<builder, wire, call>>
    BY DEF Receive
  <1>2. core \in Seq(CoreType) /\ Len(core) \in Nat /\ m \in CoreType /\ now \in Time
    BY <1>i, TypeOKNamed, SmallTypes
  <1>3. /\ m.id \in 1..Len(core) /\ b.id = m.id
        /\ b.flags \cap Registered \subseteq m.flags /\ m.flags \subseteq b.flags
        /\ m.created_at = b.created_at \div TicksPerMs
    BY <1>i DEF WireFaithful, Origin
  <1>4. b \in CoreType /\ b.created_at \in Time
    <2>1. b \in CoreType
      BY <1>2, <1>3
    <2> HIDE DEF b
    <2>2. b.created_at \in Time
      BY <2>1 DEF CoreType
    <2> QED
      BY <2>1, <2>2
  <1>5. FromMs(m.published_at) \in Time \cup {Absent}
    BY <1>i DEF WireTimes
  <1> HIDE DEF b
  <1>6. /\ c \in CoreType /\ c.id = m.id /\ c.flags = m.flags \cap Registered
        /\ c.created_at = b.created_at - (b.created_at % TicksPerMs)
    BY <1>2, <1>3, <1>4, <1>5, Decoded
  <1> HIDE DEF c
  <1>7. Len(core') = Len(core) + 1 /\ core'[m.id] = core[m.id] /\ m.id \in 1..Len(core')
    BY <1>1, <1>2, <1>3, <1>6
  <1>8. GoodCore(core', c, Len(core) + 1)
    BY <1>3, <1>6, <1>7 DEF GoodCore, b
  <1>9. /\ core' \in Seq(CoreType) /\ Len(core') <= MaxCores
        /\ OriginsBuilt' /\ WireFaithful' /\ WireTimes' /\ CallsPlaced'
        /\ Overlaps' /\ HopsPreserve' /\ StampsOverlap'
    BY <1>1, <1>6, <1>8, Grow
  <1>10. TypeOK'
    BY <1>1, <1>9, <1>i DEF TypeOK, CoreType
  <1> QED
    BY <1>9, <1>10 DEF IndInv

\* publish_impl() reads the clock: the calls on this core that are under way
\* learn of the new one, and it of them.
LEMMA PublishStep ==
    ASSUME IndInv, NEW th \in Threads, NEW i \in 1..Len(core), NEW now \in Clock,
           Publish(th, i, now)
    PROVE  IndInv'
  <1> DEFINE others == {u \in Threads : call[u].core = i}
             new == [core |-> i, stamp |-> now, stored |-> FALSE,
                     during |-> {now} \cup {call[v].stamp : v \in others}]
  <1>i. /\ TypeOK /\ OriginsBuilt /\ WireFaithful /\ WireTimes /\ CallsPlaced
        /\ Overlaps /\ HopsPreserve /\ StampsOverlap
    BY DEF IndInv
  <1>1. /\ call[th] = NoCall /\ UNCHANGED <<builder, core, wire>>
        /\ call' = [u \in Threads |->
               CASE u = th -> new
                 [] u \in others -> [call[u] EXCEPT !.during = @ \cup {now}]
                 [] OTHER -> call[u]]
    BY DEF Publish
  <1>2. /\ Len(core) \in Nat /\ Len(core) <= MaxCores /\ now \in Time
        /\ call \in [Threads -> CallType] /\ i \in 1..MaxCores
    BY <1>i, TypeOKNamed, SmallTypes, Numbers
  <1>3. th \notin others
    BY <1>1, <1>2 DEF NoCall
  <1>4. \A u \in others : call[u] # NoCall /\ call[u].stamp \in Time
    BY <1>i, <1>2 DEF CallsPlaced, NoCall
  <1>5. new \in CallType
    BY <1>2, <1>4 DEF CallType
  <1>6. /\ call'[th] = new
        /\ \A u \in Threads : u # th /\ u \notin others => call'[u] = call[u]
        /\ \A u \in others : call'[u] = [call[u] EXCEPT !.during = @ \cup {now}]
    BY <1>1, <1>3
  <1>7. /\ new.core = i /\ new.stamp = now /\ ~new.stored /\ now \in new.during
        /\ \A v \in others : call[v].stamp \in new.during
    OBVIOUS
  <1> HIDE DEF new
  <1>8. \A u \in others :
            /\ call'[u] \in CallType /\ call'[u].core = i /\ call'[u].stamp = call[u].stamp
            /\ call'[u].stored = call[u].stored /\ call'[u].during = call[u].during \cup {now}
    <2> SUFFICES ASSUME NEW u \in others, NEW o \in CallType, o = call[u],
                        NEW o1, o1 = [o EXCEPT !.during = @ \cup {now}]
                 PROVE  /\ o1 \in CallType /\ o1.core = o.core /\ o1.stamp = o.stamp
                        /\ o1.stored = o.stored /\ o1.during = o.during \cup {now}
      BY <1>2, <1>6
    <2> QED
      BY <1>2 DEF CallType
  <1>9. call' \in [Threads -> CallType]
    <2>1. \A u \in Threads : call'[u] \in CallType
      BY <1>2, <1>5, <1>6, <1>8
    <2> QED
      BY <2>1, <1>1
  <1> HIDE DEF others
  <1>o. ASSUME NEW u \in Threads PROVE u \in others <=> call[u].core = i
    BY DEF others
  <1>10. CallsPlaced'
    <2> SUFFICES ASSUME NEW u \in Threads, call'[u] # NoCall
                 PROVE  call'[u].core \in 1..Len(core) /\ call'[u].stamp \in Time
      BY <1>1 DEF CallsPlaced
    <2>1. CASE u = th
      BY <2>1, <1>2, <1>6, <1>7
    <2>2. CASE u \in others
      BY <2>2, <1>2, <1>4, <1>8
    <2>3. CASE u # th /\ u \notin others
      BY <2>3, <1>i, <1>6 DEF CallsPlaced
    <2> QED
      BY <2>1, <2>2, <2>3
  <1>11. Overlaps'
    <2> SUFFICES ASSUME NEW u \in Threads, NEW v \in Threads, call'[u] # NoCall,
                        call'[v].core = call'[u].core
                 PROVE  call'[v].stamp \in call'[u].during
      BY DEF Overlaps
    <2>1. CASE u = th
      <3>1. v = th \/ v \in others
        BY <2>1, <1>6, <1>7, <1>o
      <3> QED
        BY <2>1, <3>1, <1>6, <1>7, <1>8
    <2>2. CASE u \in others
      <3>1. v = th \/ v \in others
        BY <2>2, <1>6, <1>8, <1>o
      <3>2. CASE v = th
        BY <3>2, <2>2, <1>6, <1>7, <1>8
      <3>3. CASE v \in others
        <4>1. call[v].stamp \in call[u].during
          BY <3>3, <2>2, <1>i, <1>4, <1>o DEF Overlaps
        <4> QED
          BY <4>1, <3>3, <2>2, <1>8
      <3> QED
        BY <3>1, <3>2, <3>3
    <2>3. CASE u # th /\ u \notin others
      <3>1. call'[u] = call[u] /\ call[u].core # i
        BY <2>3, <1>6, <1>o
      <3>2. v # th /\ v \notin others
        BY <3>1, <1>6, <1>7, <1>8
      <3> QED
        BY <3>1, <3>2, <1>i, <1>6 DEF Overlaps
    <2> QED
      BY <2>1, <2>2, <2>3
  <1>12. StampsOverlap'
    <2> SUFFICES ASSUME NEW u \in Threads, call'[u].stored
                 PROVE  core[call'[u].core].published_at \in call'[u].during
      BY <1>1 DEF StampsOverlap
    <2>1. u # th
      BY <1>6, <1>7
    <2>2. CASE u \in others
      BY <2>2, <1>i, <1>8, <1>o DEF StampsOverlap
    <2>3. CASE u \notin others
      BY <2>1, <2>3, <1>i, <1>6 DEF StampsOverlap
    <2> QED
      BY <2>2, <2>3
  <1>13. TypeOK'
    BY <1>i, <1>1, <1>9, TypeOKNamed DEF TypeOK, CallType
  <1>14. OriginsBuilt' /\ WireFaithful' /\ WireTimes' /\ HopsPreserve'
    BY <1>i, <1>1 DEF OriginsBuilt, Origin, WireFaithful, WireTimes, HopsPreserve, Received
  <1> QED
    BY <1>10, <1>11, <1>12, <1>13, <1>14 DEF IndInv

\* The stamp is stored: whoever has stored before and is still under way has
\* overlapped this call.
LEMMA StoreStep ==
    ASSUME IndInv, NEW th \in Threads, Store(th)
    PROVE  IndInv'
  <1> DEFINE i == call[th].core
             now == call[th].stamp
  <1>i. /\ TypeOK /\ OriginsBuilt /\ WireFaithful /\ WireTimes /\ CallsPlaced
        /\ Overlaps /\ HopsPreserve /\ StampsOverlap
    BY DEF IndInv
  <1>1. /\ call[th] # NoCall
        /\ core' = [core EXCEPT ![i].published_at = now]
        /\ call' = [call EXCEPT ![th].stored = TRUE]
        /\ UNCHANGED <<builder, wire>>
    BY DEF Store
  <1>2. /\ core \in Seq(CoreType) /\ Len(core) \in Nat /\ Len(core) <= MaxCores
        /\ call \in [Threads -> CallType] /\ i \in 1..Len(core) /\ now \in Time
    BY <1>i, <1>1, TypeOKNamed DEF CallsPlaced
  <1> HIDE DEF i, now
  <1>3. core[i] \in CoreType
    BY <1>2
  <1>4. [core[i] EXCEPT !.published_at = now] \in CoreType
    BY <1>2, <1>3 DEF CoreType
  <1>5. core' = [core EXCEPT ![i] = [core[i] EXCEPT !.published_at = now]]
    BY <1>1
  <1>6. core' \in Seq(CoreType) /\ Len(core') = Len(core)
    BY <1>2, <1>4, <1>5
  <1>7. /\ core'[i] = [core[i] EXCEPT !.published_at = now]
        /\ \A j \in 1..Len(core) : j # i => core'[j] = core[j]
    BY <1>2, <1>5
  <1>8. /\ core'[i].id = core[i].id /\ core'[i].flags = core[i].flags
        /\ core'[i].created_at = core[i].created_at /\ core'[i].published_at = now
    BY <1>3, <1>7 DEF CoreType
  <1>9. \A j \in 1..Len(core) : /\ core'[j].id = core[j].id /\ core'[j].flags = core[j].flags
                                /\ core'[j].created_at = core[j].created_at
    BY <1>7, <1>8
  <1>10. OriginsBuilt' /\ HopsPreserve'
    <2>1. OriginsBuilt'
      BY <1>i, <1>6, <1>9 DEF OriginsBuilt, Origin
    <2>2. ASSUME NEW j \in 1..Len(core), core'[j].id # j
          PROVE  LET built == core'[core'[j].id]
                 IN  /\ built.flags \cap Registered \subseteq core'[j].flags
                     /\ core'[j].flags \subseteq built.flags
                     /\ core'[j].created_at = built.created_at - (built.created_at % TicksPerMs)
      <3>1. core[j].id \in 1..Len(core) /\ core[j].id # j /\ core'[j].id = core[j].id
        BY <2>2, <1>i, <1>9 DEF OriginsBuilt, Origin
      <3> QED
        BY <3>1, <1>i, <1>9 DEF HopsPreserve, Received
    <2> QED
      BY <2>1, <2>2, <1>6 DEF HopsPreserve, Received
  <1>11. WireFaithful' /\ WireTimes'
    BY <1>i, <1>1, <1>6, <1>9 DEF WireFaithful, WireTimes, Origin
  <1>12. /\ call' \in [Threads -> CallType]
         /\ \A u \in Threads : u # th => call'[u] = call[u]
         /\ call'[th].core = i /\ call'[th].stamp = now /\ call'[th].during = call[th].during
    <2>1. PICK o \in CallType : o = call[th]
      BY <1>2
    <2>2. PICK o1 : o1 = [o EXCEPT !.stored = TRUE]
      OBVIOUS
    <2>3. /\ o1 \in CallType /\ o1.core = o.core /\ o1.stamp = o.stamp
          /\ o1.during = o.during
      BY <2>2 DEF CallType
    <2>4. call' = [call EXCEPT ![th] = o1]
      BY <2>1, <2>2, <1>1
    <2> QED
      BY <2>1, <2>3, <2>4, <1>2 DEF i, now
  <1>13. CallsPlaced'
    BY <1>i, <1>2, <1>6, <1>12 DEF CallsPlaced
  <1>14. \A u \in Threads : /\ call'[u].core = call[u].core /\ call'[u].stamp = call[u].stamp
                            /\ call'[u].during = call[u].during
    BY <1>12 DEF i, now
  <1>15. Overlaps'
    <2> SUFFICES ASSUME NEW u \in Threads, NEW v \in Threads, call'[u] # NoCall,
                        call'[v].core = call'[u].core
                 PROVE  call'[v].stamp \in call'[u].during
      BY DEF Overlaps
    <2>1. call[u] # NoCall
      BY <1>1, <1>12
    <2> QED
      BY <2>1, <1>i, <1>14 DEF Overlaps
  <1>16. StampsOverlap'
    <2> SUFFICES ASSUME NEW u \in Threads, call'[u].stored
                 PROVE  core'[call'[u].core].published_at \in call'[u].during
      BY DEF StampsOverlap
    <2>1. call[u] # NoCall
      BY <1>1, <1>12 DEF NoCall
    <2>2. CASE call[u].core = i
      <3>1. now \in call[u].during
        BY <2>1, <2>2, <1>i DEF Overlaps, i, now
      <3> QED
        BY <3>1, <2>2, <1>8, <1>14
    <2>3. CASE call[u].core # i
      <3>1. call[u].core \in 1..Len(core) /\ u # th
        BY <2>1, <2>3, <1>i DEF CallsPlaced, i
      <3> QED
        BY <3>1, <2>3, <1>i, <1>7, <1>12 DEF StampsOverlap
    <2> QED
      BY <2>2, <2>3
  <1>17. TypeOK'
    BY <1>i, <1>1, <1>6, <1>2, <1>12, TypeOKNamed DEF TypeOK, CoreType, CallType
  <1> QED
    BY <1>10, <1>11, <1>13, <1>15, <1>16, <1>17 DEF IndInv

\* A transport encodes the envelope: the message has the envelope's origin, and
\* cutting the creation time of a received envelope again changes nothing.
LEMMA DispatchStep ==
    ASSUME IndInv, NEW th \in Threads, Dispatch(th)
    PROVE  IndInv'
  <1> DEFINE i == call[th].core
             m == ToWire(core[i])
  <1>i. /\ TypeOK /\ OriginsBuilt /\ WireFaithful /\ WireTimes /\ CallsPlaced
        /\ Overlaps /\ HopsPreserve /\ StampsOverlap
    BY DEF IndInv
  <1>1. /\ call[th] # NoCall /\ wire' = wire \cup {m}
        /\ UNCHANGED <<builder, core, call>>
    BY DEF Dispatch, NoCall
  <1>2. /\ core \in Seq(CoreType) /\ Len(core) \in Nat /\ wire \subseteq CoreType
        /\ call \in [Threads -> CallType]
    BY <1>i, TypeOKNamed
  <1>3. i \in 1..Len(core)
    BY <1>i, <1>1 DEF CallsPlaced
  <1>4. core[i] \in CoreType
    BY <1>2, <1>3
  <1> HIDE DEF i
  <1>5. /\ m \in CoreType /\ m.id = core[i].id /\ m.flags = core[i].flags
        /\ m.created_at = core[i].created_at \div TicksPerMs
        /\ FromMs(m.published_at) \in Time \cup {Absent}
        /\ FromMs(m.received_at) \in Time \cup {Absent}
    BY <1>4, Encoded
  <1> HIDE DEF m
  <1> DEFINE o == core[i].id
             b == core[o]
  <1>6. o \in 1..Len(core) /\ b.id = o
    BY <1>i, <1>3 DEF OriginsBuilt, Origin
  <1>7. /\ b.flags \cap Registered \subseteq m.flags /\ m.flags \subseteq b.flags
        /\ m.created_at = b.created_at \div TicksPerMs
    <2>1. CASE o = i
      BY <2>1, <1>5
    <2>2. CASE o # i
      <3>1. /\ b.flags \cap Registered \subseteq core[i].flags /\ core[i].flags \subseteq b.flags
            /\ core[i].created_at = b.created_at - (b.created_at % TicksPerMs)
        BY <2>2, <1>i, <1>3 DEF HopsPreserve, Received
      <3>2. b.created_at \in Nat
        <4>1. b \in CoreType
          BY <1>2, <1>6
        <4> HIDE DEF b
        <4>2. b.created_at \in Time
          BY <4>1 DEF CoreType
        <4> QED
          BY <4>2, Numbers DEF Time
      <3>3. core[i].created_at \div TicksPerMs = b.created_at \div TicksPerMs
        BY <3>1, <3>2, CutToMs, CutOnce
      <3> QED
        BY <3>1, <3>3, <1>5
    <2> QED
      BY <2>1, <2>2
  <1>8. WireFaithful'
    <2>1. ASSUME NEW w \in wire'
          PROVE  /\ w.id \in 1..Len(core) /\ core[w.id].id = w.id
                 /\ core[w.id].flags \cap Registered \subseteq w.flags
                 /\ w.flags \subseteq core[w.id].flags
                 /\ w.created_at = core[w.id].created_at \div TicksPerMs
      <3>1. CASE w = m
        BY <3>1, <1>5, <1>6, <1>7
      <3>2. CASE w \in wire
        BY <3>2, <1>i DEF WireFaithful, Origin
      <3> QED
        BY <3>1, <3>2, <1>1
    <2> QED
      BY <2>1, <1>1 DEF WireFaithful, Origin
  <1>9. WireTimes'
    BY <1>i, <1>1, <1>5 DEF WireTimes
  <1>11. CallsPlaced' /\ Overlaps' /\ StampsOverlap'
    BY <1>i, <1>1 DEF CallsPlaced, Overlaps, StampsOverlap
  <1>12. TypeOK'
    BY <1>i, <1>1, <1>2, <1>5 DEF TypeOK, CoreType
  <1>13. OriginsBuilt' /\ HopsPreserve'
    BY <1>i, <1>1 DEF OriginsBuilt, HopsPreserve, Origin, Received
  <1> QED
    BY <1>8, <1>9, <1>11, <1>12, <1>13 DEF IndInv

\* publish() returns.
LEMMA ReturnStep ==
    ASSUME IndInv, NEW th \in Threads, Return(th)
    PROVE  IndInv'
  <1>i. /\ TypeOK /\ OriginsBuilt /\ WireFaithful /\ WireTimes /\ CallsPlaced
        /\ Overlaps /\ HopsPreserve /\ StampsOverlap
    BY DEF IndInv
  <1>1. call' = [call EXCEPT ![th] = NoCall] /\ UNCHANGED <<builder, core, wire>>
    BY DEF Return
  <1>2. NoCall \in CallType /\ NoCall.core = 0 /\ ~NoCall.stored
    BY Numbers DEF NoCall, CallType
  <1>3. /\ call' \in [Threads -> CallType] /\ call'[th] = NoCall
        /\ \A u \in Threads : u # th => call'[u] = call[u]
    BY <1>i, <1>1, <1>2, TypeOKNamed
  <1>4. CallsPlaced'
    BY <1>i, <1>1, <1>3 DEF CallsPlaced
  <1>5. Overlaps'
    <2> SUFFICES ASSUME NEW u \in Threads, NEW v \in Threads, call'[u] # NoCall,
                        call'[v].core = call'[u].core
                 PROVE  call'[v].stamp \in call'[u].during
      BY DEF Overlaps
    <2>1. call'[u].core \in 1..Len(core)
      BY <1>4, <1>1 DEF CallsPlaced
    <2>2. u # th /\ v # th
      BY <2>1, <1>2, <1>3
    <2> QED
      BY <2>2, <1>i, <1>3 DEF Overlaps
  <1>6. StampsOverlap'
    BY <1>i, <1>1, <1>2, <1>3 DEF StampsOverlap
  <1>7. TypeOK'
    BY <1>i, <1>1, <1>3 DEF TypeOK, CallType
  <1>8. OriginsBuilt' /\ WireFaithful' /\ WireTimes' /\ HopsPreserve'
    BY <1>i, <1>1 DEF OriginsBuilt, Origin, WireFaithful, WireTimes, HopsPreserve, Received
  <1> QED
    BY <1>4, <1>5, <1>6, <1>7, <1>8 DEF IndInv

\* The inductive invariant holds in every reachable state.
THEOREM Invariance == Spec => []IndInv
  <1>1. Init => IndInv
    <2> SUFFICES ASSUME Init PROVE IndInv
      OBVIOUS
    <2>1. 0 \in Time /\ 0 \in 0..MaxCores
      BY Numbers DEF Time
    <2>2. TypeOK
      BY <2>1, Numbers, FlagsAssumption DEF Init, TypeOK, Fresh, NoCall
    <2> QED
      BY <2>2 DEF Init, IndInv, OriginsBuilt, WireFaithful, WireTimes, CallsPlaced, Overlaps,
         HopsPreserve, StampsOverlap, NoCall
  <1>2. IndInv /\ [Next]_vars => IndInv'
    <2> SUFFICES ASSUME IndInv, [Next]_vars PROVE IndInv'
      OBVIOUS
    <2>2. CASE NewBuilder \/ (\E f \in Flag : SetFlag(f)) \/ (\E t \in Time : SetCreatedAt(t))
      BY <2>2, BuilderStep
    <2>3. CASE \E now \in Clock : Build(now)
      BY <2>3, BuildStep
    <2>4. CASE \E th \in Threads : Store(th) \/ Dispatch(th) \/ Return(th)
      BY <2>4, StoreStep, DispatchStep, ReturnStep
    <2>5. CASE \E th \in Threads : \E i \in 1..Len(core), now \in Clock : Publish(th, i, now)
      BY <2>5, PublishStep
    <2>6. CASE \E m \in wire, now \in Clock : Receive(m, now)
      BY <2>6, ReceiveStep
    <2>7. CASE UNCHANGED vars
      BY <2>7, SmallTypes, Frame DEF vars
    <2> QED
      BY <2>2, <2>3, <2>4, <2>5, <2>6, <2>7 DEF Next
  <1> QED
    BY <1>1, <1>2, PTL DEF Spec

\* The state has its declared types.
THEOREM TypeCorrect == Spec => []TypeOK
  <1>1. IndInv => TypeOK
    BY DEF IndInv
  <1> QED
    BY <1>1, Invariance, PTL

\* However often an event is relayed, duplicated or published again, to_json()
\* and from_json() keep the flags the receiver knows, add none, and keep the
\* creation time to the millisecond.
THEOREM HopsPreserveEvents == Spec => []HopsPreserve
  <1>1. IndInv => HopsPreserve
    BY DEF IndInv
  <1> QED
    BY <1>1, Invariance, PTL

\* Whichever threads share an envelope's core, and however the clock is set,
\* what a publish() encodes is its own stamp or that of a publish() it
\* overlapped.
THEOREM StampsOfOverlapping == Spec => []StampsOverlap
  <1>1. IndInv => StampsOverlap
    BY DEF IndInv
  <1> QED
    BY <1>1, Invariance, PTL
=============================================================================
