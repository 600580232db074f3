------------------------------ MODULE Envelope ------------------------------
(***************************************************************************)
(* An envelope from its builder to the wire and back: EventBuilder         *)
(* (include/conduit/builder.hpp), the core that copies of an envelope      *)
(* share, and EventEnvelope::to_json / from_json                           *)
(* (include/conduit/envelope.hpp), with the stamps that Bus::publish and   *)
(* the transports put on it.  A received envelope may be published again,  *)
(* so an event can make several hops.                                      *)
(*                                                                         *)
(* Times are clock ticks, several to a millisecond; system_clock may be    *)
(* set back, so a reading of it is any time.  id stands for all that the   *)
(* codec copies verbatim: the identifiers, the metadata and the payload.   *)
(* delivered_at and failed_at travel as received_at does, and nothing sets *)
(* them.                                                                   *)
(***************************************************************************)
EXTENDS Integers, Sequences, FiniteSets

CONSTANTS
    Threads,        \* threads that publish
    Flag,           \* flag types
    DefaultFlags,   \* those the event type declares
    Registered,     \* those in the receiver's GlobalFlagRegistry
    TicksPerMs,
    MaxClock,       \* bound on times
    Clock,          \* the times the clock may show
    MaxBuilt,       \* bound on the number of envelopes built
    MaxCores,       \* bound on the number of envelopes, built and received
    MaxSends        \* bound on the number of distinct messages

ASSUME FlagsAssumption == DefaultFlags \subseteq Flag /\ Registered \subseteq Flag
ASSUME NumbersAssumption ==
    /\ TicksPerMs \in Nat \ {0}
    /\ {MaxClock, MaxBuilt, MaxCores, MaxSends} \subseteq Nat /\ MaxBuilt <= MaxCores

Absent == -1        \* an empty std::optional
Time == 0..MaxClock
ASSUME ClockAssumption == Clock \subseteq Time

VARIABLES
    builder,    \* core_ of an EventBuilder, with created_at_set_
    core,       \* the EnvelopeCores, in order of creation
    wire,       \* the messages sent
    call        \* per thread, the publish() it is in

vars == <<builder, core, wire, call>>

\* Of a publish(): its core, publish_started, whether it has been stored and,
\* for the properties, the publish_started of every publish() of the same core
\* that was under way at some moment of this one.
NoCall == [core |-> 0, stamp |-> Absent, stored |-> FALSE, during |-> {}]
Fresh == [flags |-> DefaultFlags, created_at |-> 0, created_at_set |-> FALSE]

Init ==
    /\ builder = Fresh /\ core = <<>> /\ wire = {}
    /\ call = [th \in Threads |-> NoCall]

-----------------------------------------------------------------------------
(* EventBuilder *)

\* The bound on building.
MoreBuilt == Len(core) < MaxBuilt

\* conduit::event(payload): the default flags are collected here.
NewBuilder ==
    /\ MoreBuilt
    /\ builder' = Fresh
    /\ UNCHANGED <<core, wire, call>>

SetFlag(f) ==
    /\ MoreBuilt
    /\ builder' = [builder EXCEPT !.flags = @ \cup {f}]
    /\ UNCHANGED <<core, wire, call>>

SetCreatedAt(t) ==
    /\ MoreBuilt
    /\ builder' = [builder EXCEPT !.created_at = t, !.created_at_set = TRUE]
    /\ UNCHANGED <<core, wire, call>>

\* build() moves core_ into the envelope; what flags a moved-from FlagSet
\* holds is unspecified, and nothing collects the default ones again.
Build(now) ==
    /\ MoreBuilt
    /\ core' = Append(core,
           [id |-> Len(core) + 1, flags |-> builder.flags,
            created_at |-> IF builder.created_at_set THEN builder.created_at ELSE now,
            published_at |-> Absent, received_at |-> Absent])
    /\ \E left \in {{}, builder.flags} : builder' = [builder EXCEPT !.flags = left]
    /\ UNCHANGED <<wire, call>>

-----------------------------------------------------------------------------
(* The wire *)

\* Times on the wire are in whole milliseconds; an absent one is left out.
ToMs(t) == IF t = Absent THEN Absent ELSE t \div TicksPerMs

\* Variant: milliseconds are taken for clock ticks.
FromMsUnscaled(ms) == ms

FromMs(ms) == IF ms = Absent THEN Absent ELSE ms * TicksPerMs

\* to_json(), flags by name
ToWire(c) ==
    [c EXCEPT !.created_at = ToMs(@), !.published_at = ToMs(@), !.received_at = ToMs(@)]

\* from_json(): a flag whose name the registry does not know is skipped.
FromWire(m) ==
    [m EXCEPT !.flags = @ \cap Registered, !.created_at = FromMs(@),
              !.published_at = FromMs(@), !.received_at = FromMs(@)]

\* publish_impl() reads the clock ...
Publish(th, i, now) ==
    /\ call[th] = NoCall
    /\ LET others == {u \in Threads : call[u].core = i}
       IN  call' = [u \in Threads |->
               CASE u = th -> [core |-> i, stamp |-> now, stored |-> FALSE,
                               during |-> {now} \cup {call[v].stamp : v \in others}]
                 [] u \in others -> [call[u] EXCEPT !.during = @ \cup {now}]
                 [] OTHER -> call[u]]
    /\ UNCHANGED <<builder, core, wire>>

\* Variant: a core that has a stamp keeps it.
StoreIfAbsent(th) ==
    /\ call[th] # NoCall /\ ~call[th].stored
    /\ core' = [core EXCEPT ![call[th].core].published_at =
                               IF @ = Absent THEN call[th].stamp ELSE @]
    /\ call' = [call EXCEPT ![th].stored = TRUE]
    /\ UNCHANGED <<builder, wire>>

\* ... then stamps the core, which every copy of the envelope shares ...
Store(th) ==
    /\ call[th] # NoCall /\ ~call[th].stored
    /\ core' = [core EXCEPT ![call[th].core].published_at = call[th].stamp]
    /\ call' = [call EXCEPT ![th].stored = TRUE]
    /\ UNCHANGED <<builder, wire>>

\* ... and later each wire transport encodes what the core holds by then.
Dispatch(th) ==
    /\ call[th].stored /\ Cardinality(wire) < MaxSends
    /\ wire' = wire \cup {ToWire(core[call[th].core])}
    /\ UNCHANGED <<builder, core, call>>

Return(th) ==
    /\ call[th].stored
    /\ call' = [call EXCEPT ![th] = NoCall]
    /\ UNCHANGED <<builder, core, wire>>

\* The inbound path of a transport; a broker may deliver a message again.
Receive(m, now) ==
    /\ Len(core) < MaxCores
    /\ core' = Append(core, [FromWire(m) EXCEPT !.received_at = now])
    /\ UNCHANGED <<builder, wire, call>>

Next ==
    \/ NewBuilder
    \/ \E f \in Flag : SetFlag(f)
    \/ \E t \in Time : SetCreatedAt(t)
    \/ \E now \in Clock : Build(now)
    \/ \E th \in Threads :
          \/ Store(th) \/ Dispatch(th) \/ Return(th)
          \/ \E i \in 1..Len(core), now \in Clock : Publish(th, i, now)
    \/ \E m \in wire, now \in Clock : Receive(m, now)

Spec == Init /\ [][Next]_vars

-----------------------------------------------------------------------------
(* Properties *)

\* The state has its declared types.
TypeOK ==
    LET Cores(T) == [id : 1..MaxCores, flags : SUBSET Flag, created_at : T,
                     published_at : T \cup {Absent}, received_at : T \cup {Absent}]
    IN  /\ builder \in [flags : SUBSET Flag, created_at : Time, created_at_set : BOOLEAN]
        /\ core \in Seq(Cores(Time)) /\ Len(core) <= MaxCores
        /\ wire \subseteq Cores(Time)
        /\ call \in [Threads -> [core : 0..MaxCores, stamp : Time \cup {Absent},
                                 stored : BOOLEAN, during : SUBSET Time]]

\* Hops do not add up: after any number of them an event carries every flag of
\* its builder that the receiver knows and none that its builder did not set,
\* and its creation time is the built one cut to the millisecond, once.
Received(i) == core[i].id # i
HopsPreserve ==
    \A i \in 1..Len(core) : Received(i) =>
        LET built == core[core[i].id]
        IN  /\ built.flags \cap Registered \subseteq core[i].flags
            /\ core[i].flags \subseteq built.flags
            /\ core[i].created_at = built.created_at - (built.created_at % TicksPerMs)

\* The core is shared and its stamp is read and stored without a lock, so a
\* publish() may send the stamp of another one, older or newer; but only of one
\* that overlapped it: the stamp of a publish() that had returned before, or of
\* the process the envelope was received from, is never sent again.
StampsOverlap ==
    \A th \in Threads : call[th].stored =>
        core[call[th].core].published_at \in call[th].during
=============================================================================
