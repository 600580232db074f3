----------------------------- MODULE ZmqTransport -----------------------------
(***************************************************************************)
(* conduit::zmq::Transport (transports/zmq/src/transport.cpp): up to four  *)
(* sockets on one context, and a worker thread that polls the inbound one  *)
(* together with the receiving end of an inproc pair that wakes it up.     *)
(***************************************************************************)
EXTENDS RemoteAdapter

\* The constructor throws unless at least one end is configured: validate().
Constructed == ends \in SUBSET {"outbound", "inbound"} \ {{}} /\ open = {}

\* The sockets in the order in which attach() makes them, for every pattern; an
\* inbound one comes with the pair that wakes its worker.
Sockets ==
    (IF "outbound" \in ends THEN <<Make("outbound")>> ELSE <<>>)
      \o (IF "inbound" \in ends
          THEN <<Make("inbound"), Make("shutdown_sub"), Make("shutdown_pub")>> ELSE <<>>)

AttachProgram ==
    <<Do("context")>> \o Sockets
      \o (IF "inbound" \in ends THEN <<Do("online"), Do("spawn"), End("attached")>>
          ELSE <<Do("online"), End("attached")>>)

\* Variant: the sockets are closed before the worker is joined.
ShutdownUnjoined ==
    <<Do("stop"), Do("wake"), Close("inbound"), Do("join"), Close("outbound"),
      Close("shutdown_pub"), Close("shutdown_sub"), Do("term"), Do("offline")>>

\* Impl::shutdown()
ShutdownProgram ==
    <<Do("stop"), Do("wake"), Do("join"), Close("inbound"), Close("outbound"),
      Close("shutdown_pub"), Close("shutdown_sub"), Do("term"), Do("offline")>>

DetachProgram == ShutdownProgram \o <<Do("unsink"), End("detached")>>
DestroyProgram == ShutdownProgram \o <<End("freed")>>

-----------------------------------------------------------------------------
\* context = make_unique<context_t>(): the old context is terminated first,
\* which blocks while a socket of it is open.
NewContext ==
    /\ At("context") /\ open \subseteq {"context"}
    /\ open' = {"context"}
    /\ prog' = Tail(prog)
    /\ UNCHANGED <<object, outcome, sink, connected, receiver, using>>

\* Making, setting up, binding or connecting a socket throws.
SetupFails ==
    /\ At("context") \/ At("make")
    /\ "setup" \in May
    /\ prog' = ShutdownProgram \o <<End("threw")>>
    /\ UNCHANGED <<object, outcome, open, sink, connected, receiver, using>>

\* One byte into the pair, if there is one; the send may fail.
SendWake ==
    /\ At("wake")
    /\ \E sent \in IF "wake" \in May THEN BOOLEAN ELSE {TRUE} :
          wake' = (sent /\ "shutdown_pub" \in open)
    /\ prog' = Tail(prog)
    /\ UNCHANGED <<object, outcome, open, sink, connected, recv, stop, inbox, using>>

\* context.reset(): waits for the sockets, and what they held is gone.
TermContext ==
    /\ At("term") /\ open \subseteq {"context"}
    /\ open' = {} /\ wake' = FALSE
    /\ prog' = Tail(prog)
    /\ UNCHANGED <<object, outcome, sink, connected, recv, stop, inbox, using>>

OwnStep == NewContext \/ SetupFails \/ SendWake \/ TermContext

-----------------------------------------------------------------------------
(* run_loop() *)

CheckStop == recv = "check" /\ RecvGoes(IF stop THEN "ended" ELSE "poll")

\* 200 ms pass with nothing to read.
PollTimeout == recv = "poll" /\ ~wake /\ inbox = 0 /\ RecvGoes("check")

PollError == recv = "poll" /\ "receive" \in May /\ RecvGoes("ended")

PollWoken ==
    /\ recv = "poll" /\ wake
    /\ recv' = "ended" /\ wake' = FALSE
    /\ UNCHANGED <<object, prog, outcome, open, sink, connected, stop, inbox, using>>

PollMessage == recv = "poll" /\ ~wake /\ RecvTakes("deliver")

\* recv() throws or finds nothing, or the payload frame is missing.
DropFrame == recv = "poll" /\ ~wake /\ "receive" \in May /\ RecvTakes("check")

\* Impl::deliver_bytes()
DeliverBytes == DeliverOrReport

ReceiverStep ==
    CheckStop \/ PollTimeout \/ PollError \/ PollWoken \/ PollMessage \/ DropFrame \/ DeliverBytes

-----------------------------------------------------------------------------
\* The socket that dispatch() needs, and those that the worker polls.
Outbound == "outbound"
Polled == {"inbound", "shutdown_sub"}

\* dispatch() encodes and sends without waiting; a full queue and every error
\* are swallowed.
Dispatch(th) == Outbound \in open /\ EnterLibrary(th)
SendReturns(th) == LeaveLibrary(th)
=============================================================================
