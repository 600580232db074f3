---------------------------- MODULE NatsTransport ----------------------------
(***************************************************************************)
(* conduit::nats::Transport (transports/nats/src/transport.cpp): options,  *)
(* a connection and a subscription of nats.c, which calls msg_handler() on *)
(* a thread of its own.                                                    *)
(***************************************************************************)
EXTENDS RemoteAdapter

\* The constructor throws if the subject is empty.
Constructed == ends = {} /\ open = {}

AttachProgram == <<Make("opts"), Make("conn"), Do("subscribe"), Do("online"), End("attached")>>

\* Impl::shutdown(): nothing in it waits for a callback that is under way.
ShutdownProgram == <<Do("unsubscribe"), Close("conn"), Close("opts"), Do("offline")>>

DetachProgram == ShutdownProgram \o <<Do("unsink"), End("detached")>>
DestroyProgram == ShutdownProgram \o <<End("freed")>>

\* Variant: a failed attach() leaves what it has made.
SetupFailsLeaks ==
    /\ At("make") \/ At("subscribe")
    /\ "setup" \in May
    /\ prog' = <<End("threw")>>
    /\ UNCHANGED <<object, outcome, open, sink, connected, receiver, using>>

\* Options that are refused, TLS that is not built in, no connection, no
\* subscription: shutdown(), then throw.
SetupFails ==
    /\ At("make") \/ At("subscribe")
    /\ "setup" \in May
    /\ prog' = ShutdownProgram \o <<End("threw")>>
    /\ UNCHANGED <<object, outcome, open, sink, connected, receiver, using>>

\* natsConnection_Subscribe() or _QueueSubscribe(): messages may come at once,
\* before connected is set and attach() has returned.
Subscribe ==
    /\ At("subscribe")
    /\ open' = open \cup {"sub"}
    /\ recv' = "poll"
    /\ prog' = Tail(prog)
    /\ UNCHANGED <<object, outcome, sink, connected, stop, wake, inbox, using>>

\* Unsubscribe and destroy the subscription, if there is one: no callback
\* begins any more.
Unsubscribe ==
    /\ At("unsubscribe")
    /\ open' = open \ {"sub"}
    /\ recv' = IF Delivering THEN recv ELSE "none"
    /\ inbox' = 0
    /\ prog' = Tail(prog)
    /\ UNCHANGED <<object, outcome, sink, connected, stop, wake, using>>

OwnStep == SetupFails \/ Subscribe \/ Unsubscribe

-----------------------------------------------------------------------------
\* msg_handler() on the library's thread ...
MessageHandler == recv = "poll" /\ RecvTakes("deliver")

\* ... and Impl::deliver_bytes()
DeliverBytes == DeliverOrReport

ReceiverStep == MessageHandler \/ DeliverBytes

-----------------------------------------------------------------------------
Outbound == "conn"
Polled == {}

\* dispatch() ignores the status of the publish; with RequireAck it also flushes
\* the connection, for at most five seconds.
Dispatch(th) == Outbound \in open /\ EnterLibrary(th)
SendReturns(th) == LeaveLibrary(th)
=============================================================================
