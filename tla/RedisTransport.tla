---------------------------- MODULE RedisTransport ----------------------------
(***************************************************************************)
(* conduit::redis::Transport (transports/redis/src/transport.cpp): one     *)
(* connection to publish on, one with a subscriber, and a thread that      *)
(* consumes from it with a 200 ms socket timeout.                          *)
(***************************************************************************)
EXTENDS RemoteAdapter

\* The constructor throws if the channel is empty.
Constructed == ends = {} /\ open = {}

\* The ping that forces a round trip fails like the step after it.
AttachProgram ==
    <<Make("publisher"), Make("subscriber_conn"), Make("subscriber"), Do("online"), Do("spawn"),
      End("attached")>>

\* Variant: the thread is not told to stop.
ShutdownUnstopped ==
    <<Do("join"), Close("subscriber"), Close("subscriber_conn"),
      Close("publisher"), Do("offline")>>

\* Impl::shutdown()
ShutdownProgram ==
    <<Do("stop"), Do("join"), Close("subscriber"), Close("subscriber_conn"),
      Close("publisher"), Do("offline")>>

\* Variant: the sink is cleared before the thread has ended.
DetachUnsinksFirst == <<Do("unsink")>> \o ShutdownProgram \o <<End("detached")>>

DetachProgram == ShutdownProgram \o <<Do("unsink"), End("detached")>>
DestroyProgram == ShutdownProgram \o <<End("freed")>>

\* Bad options, a refused connection, a failed ping or SUBSCRIBE.
SetupFails ==
    /\ At("make") /\ "setup" \in May
    /\ prog' = ShutdownProgram \o <<End("threw")>>
    /\ UNCHANGED <<object, outcome, open, sink, connected, receiver, using>>

OwnStep == SetupFails

-----------------------------------------------------------------------------
(* The subscriber thread *)

CheckStop == recv = "check" /\ RecvGoes(IF stop THEN "ended" ELSE "poll")

\* consume() calls the message callback.
ConsumeMessage == recv = "poll" /\ RecvTakes("deliver")

\* TimeoutError: look at the stop token again.
ConsumeTimeout == recv = "poll" /\ inbox = 0 /\ RecvGoes("check")

\* Any other exception ends the thread; connected stays set.
ConsumeError == recv = "poll" /\ "receive" \in May /\ RecvGoes("ended")

\* Impl::deliver()
Deliver == DeliverOrReport

ReceiverStep == CheckStop \/ ConsumeMessage \/ ConsumeTimeout \/ ConsumeError \/ Deliver

-----------------------------------------------------------------------------
Outbound == "publisher"
Polled == {"subscriber", "subscriber_conn"}

\* dispatch() publishes synchronously and swallows every error.
Dispatch(th) == Outbound \in open /\ EnterLibrary(th)
SendReturns(th) == LeaveLibrary(th)
=============================================================================
