---------------------------- MODULE RemoteAdapter ----------------------------
(***************************************************************************)
(* What the zmq, redis, nats and mqtt adapters have in common: the state   *)
(* of Transport::Impl and of the base class conduit::Transport, and the    *)
(* steps that their attach(), detach() and destructor are made of.         *)
(*                                                                         *)
(* The thread inside one of those calls works through a program, the       *)
(* sequence prog of the steps it has still to take; each adapter's module  *)
(* says which programs those are.  A handle is an object of the client     *)
(* library that Impl owns (a socket, a connection, a subscription).        *)
(***************************************************************************)
EXTENDS Naturals, Sequences, FiniteSets

CONSTANTS
    May,            \* which failures can strike
    MaxInbox,       \* bound on the messages waiting in the client library
    MaxAttach       \* bound on the calls of attach()

Failures == {"setup", "spawn", "wake", "receive", "late"}

ASSUME MayAssumption == May \subseteq Failures
ASSUME AdapterBounds == MaxInbox \in Nat /\ MaxAttach \in Nat

VARIABLES
    which,          \* the adapter
    ends,           \* zmq: the sockets its Config asks for
    prog,           \* what attach(), detach() or ~Transport() has still to do
    outcome,        \* how the last of them ended
    attempts,       \* the calls of attach() so far
    open,           \* the handles that are not null
    sink,           \* Impl::sink is set
    connected,      \* the flag connected; is_connected() of the mqtt client
    recv,           \* where the receiver is: a thread of ours or the library's
    stop,           \* request_stop() was called on the receiver thread
    wake,           \* a byte waits in zmq's shutdown pair
    inbox,          \* messages waiting in the client library
    using           \* threads inside the client library on behalf of dispatch()

object   == <<which, ends, attempts>>
receiver == <<recv, stop, wake, inbox>>
adapter  == <<object, prog, outcome, open, sink, connected, receiver, using>>

Do(step) == [do |-> step, on |-> "-"]
Make(h)  == [do |-> "make", on |-> h]
Close(h) == [do |-> "close", on |-> h]
End(o)   == [do |-> "end", on |-> o]

\* The receiver is inside deliver_bytes() or message_arrived().
Delivering == recv \in {"deliver", "handler", "nested", "report"}

At(step) == prog # <<>> /\ Head(prog).do = step

-----------------------------------------------------------------------------
(* Steps of the thread that attaches, detaches or destroys *)

\* A constructor or a connect call of the client library succeeds.
MakeHandle ==
    /\ At("make")
    /\ open' = open \cup {Head(prog).on}
    /\ prog' = Tail(prog)
    /\ UNCHANGED <<object, outcome, sink, connected, receiver, using>>

\* Messages that wait in it are lost with it.
CloseHandle ==
    /\ At("close")
    /\ open' = open \ {Head(prog).on}
    /\ inbox' = IF Head(prog).on \in {"inbound", "subscriber"} THEN 0 ELSE inbox
    /\ prog' = Tail(prog)
    /\ UNCHANGED <<object, outcome, sink, connected, recv, stop, wake, using>>

\* connected.store()
SetConnected ==
    /\ At("online") \/ At("offline")
    /\ connected' = At("online")
    /\ prog' = Tail(prog)
    /\ UNCHANGED <<object, outcome, open, sink, receiver, using>>

SpawnThread ==
    /\ At("spawn")
    /\ recv' = "check" /\ stop' = FALSE
    /\ prog' = Tail(prog)
    /\ UNCHANGED <<object, outcome, open, sink, connected, wake, inbox, using>>

\* The thread cannot be created: attach() throws, outside its try block.
SpawnFails ==
    /\ At("spawn") /\ "spawn" \in May
    /\ prog' = <<End("unspawned")>>
    /\ UNCHANGED <<object, outcome, open, sink, connected, receiver, using>>

\* if (worker) worker->request_stop()
StopThread ==
    /\ At("stop")
    /\ stop' = (recv # "none")
    /\ prog' = Tail(prog)
    /\ UNCHANGED <<object, outcome, open, sink, connected, recv, wake, inbox, using>>

\* if (worker) { worker->join(); worker.reset(); }
JoinThread ==
    /\ At("join") /\ recv \in {"none", "ended"}
    /\ recv' = "none" /\ stop' = FALSE
    /\ prog' = Tail(prog)
    /\ UNCHANGED <<object, outcome, open, sink, connected, wake, inbox, using>>

\* impl_->sink = nullptr
ClearSink ==
    /\ At("unsink")
    /\ sink' = FALSE
    /\ prog' = Tail(prog)
    /\ UNCHANGED <<object, outcome, open, connected, receiver, using>>

\* attach() throws, or the destructor is through; what else can end attach()
\* and detach() is a step of the bus too.
Finish ==
    /\ At("end")
    /\ outcome' = Head(prog).on
    /\ prog' = <<>>
    /\ UNCHANGED <<object, open, sink, connected, receiver, using>>

OwnerStep ==
    \/ MakeHandle \/ CloseHandle \/ SetConnected \/ SpawnThread \/ SpawnFails
    \/ StopThread \/ JoinThread \/ ClearSink

-----------------------------------------------------------------------------
(* The receiver *)

\* A step of the receiver that leaves everything but recv alone.
RecvGoes(label) ==
    /\ recv' = label
    /\ UNCHANGED <<object, prog, outcome, open, sink, connected, stop, wake, inbox, using>>

\* It takes a message from the client library.
RecvTakes(label) ==
    /\ inbox > 0
    /\ inbox' = inbox - 1
    /\ recv' = label
    /\ UNCHANGED <<object, prog, outcome, open, sink, connected, stop, wake, using>>

\* Where it goes on after a message: our threads check their stop token, a
\* thread of the library waits for the next message of the subscription.
Back == IF which \in {"zmq", "redis"} THEN "check"
        ELSE IF "sub" \in open THEN "poll" ELSE "none"

\* decode_json() or decode_cbor(): the envelope goes to the sink, a failure to
\* the error sink; without a sink the message is dropped.
DeliverOrReport ==
    /\ recv = "deliver"
    /\ \E next \in IF sink THEN {"handler", "report"} ELSE {Back} : RecvGoes(next)

\* Bus::report_transport_error(): the middleware of a copy are told in turn.
ReportEnd == recv = "report" /\ RecvGoes(Back)

-----------------------------------------------------------------------------
(* dispatch() on any thread, from the null check to the end of the send *)

EnterLibrary(th) ==
    /\ th \notin using
    /\ using' = using \cup {th}
    /\ UNCHANGED <<object, prog, outcome, open, sink, connected, receiver>>

LeaveLibrary(th) ==
    /\ th \in using
    /\ using' = using \ {th}
    /\ UNCHANGED <<object, prog, outcome, open, sink, connected, receiver>>
=============================================================================
