---------------------------- MODULE MqttTransport ----------------------------
(***************************************************************************)
(* conduit::mqtt::Transport (transports/mqtt/src/transport.cpp) on an      *)
(* asynchronous paho client, made by the constructor and destroyed by the  *)
(* destructor, which calls message_arrived() on a thread of its own.       *)
(***************************************************************************)
EXTENDS RemoteAdapter

\* The constructor throws if the topic is empty, and makes the client.
Constructed == ends = {} /\ open = {"client"}

AttachProgram == <<Do("connect"), Do("subscribe"), End("attached")>>

\* disconnect_blocking(): a callback that is under way runs on.
ShutdownProgram == <<Do("disconnect")>>

DetachProgram == ShutdownProgram \o <<Do("unsink"), End("detached")>>

\* ~Transport(), and the client goes with Impl.
DestroyProgram == ShutdownProgram \o <<Close("client"), End("freed")>>

\* connect_blocking(): the wait can end with the connection up, or expire with
\* the attempt still under way ("tok" is its token), which is not told apart.
Connect ==
    /\ At("connect")
    /\ \/ connected' = TRUE /\ open' = open \ {"tok"}
       \/ "late" \in May /\ ~connected /\ UNCHANGED connected /\ open' = open \cup {"tok"}
    /\ prog' = Tail(prog)
    /\ UNCHANGED <<object, outcome, sink, receiver, using>>

\* The attempt that attach() stopped waiting for succeeds after all.
LateConnect ==
    /\ {"tok", "client"} \subseteq open /\ ~connected
    /\ connected' = TRUE
    /\ UNCHANGED <<object, prog, outcome, open, sink, receiver, using>>

\* The attempt is refused, or the subscription is: attach() throws and leaves
\* the client as it is.
SetupFails ==
    /\ At("connect") \/ (At("subscribe") /\ connected)
    /\ "setup" \in May
    /\ prog' = <<End("threw")>>
    /\ UNCHANGED <<object, outcome, open, sink, connected, receiver, using>>

\* if (client->is_connected()) subscribe, for at most five seconds: the broker
\* grants it in time, or the wait expires with the request still under way
\* ("subtok" is its token), which is not told apart.
Subscribe ==
    /\ At("subscribe")
    /\ \/ connected /\ open' = open \cup {"sub"} /\ recv' = "poll"
       \/ connected /\ "late" \in May /\ open' = open \cup {"subtok"} /\ UNCHANGED recv
       \/ ~connected /\ UNCHANGED <<open, recv>>
    /\ prog' = Tail(prog)
    /\ UNCHANGED <<object, outcome, sink, connected, stop, wake, inbox, using>>

\* The request that attach() stopped waiting for is granted after all (or it is
\* refused, or never answered: nothing happens then).
LateSuback ==
    /\ {"subtok", "client"} \subseteq open /\ connected
    /\ open' = (open \ {"subtok"}) \cup {"sub"}
    /\ recv' = "poll"
    /\ UNCHANGED <<object, prog, outcome, sink, connected, stop, wake, inbox, using>>

\* The broker goes away; a clean session loses its subscription.
ConnectionLost ==
    /\ connected /\ "receive" \in May
    /\ connected' = FALSE /\ open' = open \ {"sub", "subtok", "tok"} /\ inbox' = 0
    /\ recv' = IF Delivering THEN recv ELSE "none"
    /\ UNCHANGED <<object, prog, outcome, sink, stop, wake, using>>

\* if (client->is_connected()) disconnect, waiting for at most five seconds.
Disconnect ==
    /\ At("disconnect")
    /\ connected' = FALSE /\ open' = open \ {"sub", "subtok"} /\ inbox' = 0
    /\ recv' = IF Delivering THEN recv ELSE "none"
    /\ prog' = Tail(prog)
    /\ UNCHANGED <<object, outcome, sink, stop, wake, using>>

OwnStep == Connect \/ SetupFails \/ Subscribe \/ Disconnect

-----------------------------------------------------------------------------
\* message_arrived()
MessageArrived == recv = "poll" /\ RecvTakes("deliver")

Deliver == DeliverOrReport

ReceiverStep == MessageArrived \/ Deliver

-----------------------------------------------------------------------------
Outbound == "client"
Polled == {}

\* dispatch() hands the message to the client, which throws when it is not
\* connected; with RequireAck it waits for at most five seconds.
Dispatch(th) == Outbound \in open /\ EnterLibrary(th)
SendReturns(th) == LeaveLibrary(th)
=============================================================================
