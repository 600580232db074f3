---------------------------- MODULE RemoteSession ----------------------------
(***************************************************************************)
(* A bus with a local transport and one of the zmq, redis, nats and mqtt   *)
(* adapters: BusLifecycle, whose transport remote is an adapter.           *)
(* use_transport() runs the adapter's attach() before the insertion,       *)
(* shutdown() runs its detach(), dispatch() on it is synchronous, and its  *)
(* receiver rx calls handlers, which may publish to the same bus.          *)
(***************************************************************************)
EXTENDS BusLifecycle, RemoteAdapter

CONSTANTS
    Adapters,       \* the adapters to check
    remote,         \* the transport that is one
    rx              \* its receiver

Zmq   == INSTANCE ZmqTransport
Redis == INSTANCE RedisTransport
Nats  == INSTANCE NatsTransport
Mqtt  == INSTANCE MqttTransport

ASSUME AdaptersAssumption == Adapters \subseteq {"zmq", "redis", "nats", "mqtt"}
ASSUME RemoteAssumption == remote \in Transports /\ rx \in Callbacks

Local == Transports \ {remote}
Application == Threads \ {rx}
all == <<vars, adapter>>

\* What the adapter at hand makes of a definition that each of them has.
Of(zmq, redis, nats, mqtt) ==
    CASE which = "zmq" -> zmq [] which = "redis" -> redis
      [] which = "nats" -> nats [] which = "mqtt" -> mqtt

AttachProgram  == Of(Zmq!AttachProgram, Redis!AttachProgram, Nats!AttachProgram, Mqtt!AttachProgram)
DetachProgram  == Of(Zmq!DetachProgram, Redis!DetachProgram, Nats!DetachProgram, Mqtt!DetachProgram)
DestroyProgram == Of(Zmq!DestroyProgram, Redis!DestroyProgram, Nats!DestroyProgram, Mqtt!DestroyProgram)
Outbound       == Of(Zmq!Outbound, Redis!Outbound, Nats!Outbound, Mqtt!Outbound)
Polled         == Of(Zmq!Polled, Redis!Polled, Nats!Polled, Mqtt!Polled)

SessionInit ==
    /\ Init
    /\ which \in Adapters
    /\ ends \in SUBSET {"outbound", "inbound"} /\ open \in {{}, {"client"}}
    /\ Of(Zmq!Constructed, Redis!Constructed, Nats!Constructed, Mqtt!Constructed)
    /\ prog = <<>> /\ outcome = "none" /\ attempts = 0
    /\ sink = FALSE /\ connected = FALSE
    /\ recv = "none" /\ stop = FALSE /\ wake = FALSE /\ inbox = 0
    /\ using = {}

-----------------------------------------------------------------------------
(* Steps of the bus and the adapter together *)

\* attach_with_sink(): bus_, the registry and both sinks are set first.
Attach(th) ==
    /\ UseTransport(th, remote)
    /\ prog = <<>> /\ attempts < MaxAttach /\ outcome # "freed"
    /\ attempts' = attempts + 1
    /\ sink' = TRUE
    /\ prog' = AttachProgram
    /\ UNCHANGED <<which, ends, outcome, open, connected, receiver, using>>

\* attach() returns, and the bus inserts the transport.
Attached(th) ==
    /\ remote \in held[th] /\ At("end") /\ Head(prog).on = "attached"
    /\ InsertTransport(th)
    /\ Finish

\* attach() throws, and use_transport() with it.
AttachThrows(th) ==
    /\ pc[th] = "insert" /\ remote \in held[th]
    /\ At("end") /\ Head(prog).on \in {"threw", "unspawned"}
    /\ Leave(th)
    /\ Finish
    /\ UNCHANGED <<transports, shutdown, bus, detached, inserted, pending, flushed>>

\* shutdown() calls detach() ...
Detach(th) ==
    /\ pc[th] = "detach" /\ remote \in flushed[th] /\ prog = <<>> /\ outcome = "attached"
    /\ prog' = DetachProgram
    /\ UNCHANGED <<vars, object, outcome, open, sink, connected, receiver, using>>

\* ... and goes on when it has returned.
Detached(th) ==
    /\ At("end") /\ Head(prog).on = "detached"
    /\ ShutdownDetach(th, remote)
    /\ Finish

\* The last reference goes: the bus never had one, or has dropped it.
Drop ==
    /\ prog = <<>> /\ outcome # "freed"
    /\ remote \notin transports /\ \A th \in Threads : remote \notin held[th]
    /\ prog' = DestroyProgram
    /\ UNCHANGED <<vars, object, outcome, open, sink, connected, receiver, using>>

Freed ==
    /\ At("end") /\ Head(prog).on = "freed"
    /\ Finish
    /\ UNCHANGED vars

\* dispatch() on the adapter ...
DispatchRemote(th) ==
    /\ pc[th] = "dispatch" /\ First(th, remote)
    /\ Of(Zmq!Dispatch(th), Redis!Dispatch(th), Nats!Dispatch(th), Mqtt!Dispatch(th))
    /\ UNCHANGED vars

Visited(th) ==
    /\ todo' = [todo EXCEPT ![th] = @ \ {remote}]
    /\ UNCHANGED <<transports, shutdown, bus, detached, inserted, pending, pc, held, flushed>>

\* ... which does nothing while it has no handle to send on, ...
DispatchSkips(th) ==
    /\ pc[th] = "dispatch" /\ First(th, remote) /\ Outbound \notin open /\ th \notin using
    /\ Visited(th)
    /\ UNCHANGED adapter

\* ... and its return.  The bus goes on in the same way whether the send worked,
\* failed in silence (zmq, redis, nats) or threw (mqtt).
Sent(th) ==
    /\ Of(Zmq!SendReturns(th), Redis!SendReturns(th), Nats!SendReturns(th), Mqtt!SendReturns(th))
    /\ Visited(th)

\* A handler that rx runs publishes, once.
HandlerPublishes ==
    /\ recv = "handler"
    /\ Publish(rx)
    /\ RecvGoes("nested")

HandlerEnd ==
    /\ recv \in {"handler", "nested"} /\ pc[rx] = "idle"
    /\ RecvGoes(Back)
    /\ UNCHANGED vars

\* The broker has a message for us.
Arrive ==
    /\ inbox < MaxInbox
    /\ open \cap {"inbound", "subscriber", "sub"} # {}
    /\ inbox' = inbox + 1
    /\ UNCHANGED <<vars, object, prog, outcome, open, sink, connected, recv, stop, wake, using>>

-----------------------------------------------------------------------------
(* Steps of one of them *)

BusStep(th) ==
    /\ \/ InsertTransport(th) /\ remote \notin held[th]
       \/ PublishReturn(th) \/ DrainReturn(th)
       \/ Exchange(th) \/ Take(th) \/ ShutdownReturn(th) \/ DestroyMembers(th)
       \/ \E t \in Local : (Dispatch(th, t) /\ th \notin using) \/ ShutdownDetach(th, t)
       \/ \E t \in Transports : DrainFlush(th, t) \/ ShutdownFlush(th, t)
    /\ UNCHANGED adapter

BusCall(th) ==
    /\ \/ Publish(th) \/ Drain(th) \/ Shutdown(th) \/ Destroy(th)
       \/ \E t \in Local : UseTransport(th, t)
    /\ UNCHANGED adapter

Worker(th, t) == Complete(th, t) /\ UNCHANGED adapter

AdapterStep ==
    /\ OwnerStep \/ Of(Zmq!OwnStep, Redis!OwnStep, Nats!OwnStep, Mqtt!OwnStep)
    /\ UNCHANGED vars

Environment ==
    \/ Arrive
    \/ which = "mqtt" /\ (Mqtt!LateConnect \/ Mqtt!LateSuback \/ Mqtt!ConnectionLost) /\ UNCHANGED vars

ReceiverStep ==
    \/ HandlerEnd
    \/ /\ \/ ReportEnd
          \/ Of(Zmq!ReceiverStep, Redis!ReceiverStep, Nats!ReceiverStep, Mqtt!ReceiverStep)
       /\ UNCHANGED vars

ThreadGoesOn(th) ==
    \/ BusStep(th) \/ Attached(th) \/ AttachThrows(th) \/ Detach(th) \/ Detached(th)
    \/ DispatchRemote(th) \/ DispatchSkips(th) \/ Sent(th)

SessionNext ==
    \/ \E th \in Application : BusCall(th) \/ Attach(th)
    \/ \E th \in Threads : ThreadGoesOn(th)
    \/ \E th \in Threads, t \in Local : Worker(th, t)
    \/ AdapterStep \/ Drop \/ Freed
    \/ HandlerPublishes \/ ReceiverStep \/ Environment

SessionSpec == SessionInit /\ [][SessionNext]_all

\* Threads inside a call, pool workers and the receiver run on.
FairSession ==
    /\ SessionSpec
    /\ \A th \in Threads : WF_all(ThreadGoesOn(th))
    /\ \A th \in Threads, t \in Local : WF_all(Worker(th, t))
    /\ WF_all(AdapterStep) /\ WF_all(ReceiverStep)

-----------------------------------------------------------------------------
(* Properties *)

\* The receiver is a thread that detach() joins: zmq and redis.
Joined == which \in {"zmq", "redis"}

\* No handler and no on_transport_error() runs in a bus that is gone, nor on
\* behalf of an adapter that is, and no (non-empty) message that was taken is
\* dropped because the sink is gone: detach() has joined the receiver by then.
\* (nats and mqtt have no such thread: a callback of their client libraries may
\* run on behind detach(), and nothing is claimed of it.)
HandlersInLiveBus ==
    Joined => /\ Delivering => bus # "gone" /\ outcome # "freed"
              /\ recv = "deliver" => sink

\* No handle is closed while somebody uses it: a publisher that sends, or the
\* receiver that polls or whose handler sends.  (Of nats, the nested publish of
\* a callback that runs on behind detach() is left out.)
HandlesOutliveUsers ==
    /\ (IF which = "nats" THEN using \ {rx} ELSE using) # {} => Outbound \in open
    /\ recv = "poll" => Polled \subseteq open

\* An attach() that throws during set-up, and a detach(), leave nothing behind:
\* no handle, no message, no connected flag, and no receiver but the callback
\* of nats that is under way.  (mqtt keeps its client, which a failed attach()
\* can leave connected.)
NothingLeftBehind ==
    which # "mqtt" /\ outcome \in {"threw", "detached"} /\ prog = <<>>
        => /\ open = {} /\ ~connected /\ inbox = 0
           /\ recv = "none" \/ (which = "nats" /\ Delivering)
=============================================================================
