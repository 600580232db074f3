--------------------------- MODULE AmqpTransport ---------------------------
(***************************************************************************)
(* conduit::amqp::Transport (transports/amqp/src/transport.cpp).  One IO   *)
(* thread owns the AMQP-CPP objects; every other thread posts a task to    *)
(* its queue, wakes it through a pipe and, for all but a plain dispatch(), *)
(* waits a limited time for a promise the task is to resolve.              *)
(*                                                                         *)
(* A task names the promise it resolves.  The tasks of flush() and         *)
(* shutdown() hold a reference into their caller's stack frame; those of   *)
(* dispatch() and connect_and_declare() share ownership of the promise.    *)
(***************************************************************************)
EXTENDS Integers, Sequences, FiniteSets

CONSTANTS
    Users,       \* threads that call dispatch() and flush()
    Owner,       \* the thread that attaches and detaches
    Io,          \* the IO thread, which runs listener code for inbound messages
    MaxCalls,    \* per thread, bound on its calls
    MaxAttach,   \* bound on the number of attach() calls
    May          \* what may happen: see Events

\* Timed waits that may expire, and failures that may strike.
Events == {"publishTimeout", "flushTimeout", "closeTimeout", "connectTimeout", "pollTimeout",
           "pollError", "throw", "channelError", "connectionError", "nested"}

Callers == Users \cup {Owner, Io}
Promises == UNION {{c} \X (1..MaxCalls[c]) : c \in Callers}
NoTask == [kind |-> "none", p |-> <<Owner, 1>>, ack |-> FALSE]
Task == [kind : {"none", "publish", "flush", "close", "connect"}, p : Promises, ack : BOOLEAN]

ASSUME ThreadsAssumption == Owner # Io /\ Owner \notin Users /\ Io \notin Users
ASSUME BoundsAssumption ==
    /\ MaxCalls \in [Callers -> Nat] /\ MaxAttach \in Nat \ {0}
    /\ MaxCalls[Owner] >= 2 * MaxAttach   \* connect and close
ASSUME MayAssumption == May \subseteq Events

VARIABLES
    queue,          \* task_queue, guarded by queue_mu
    batch,          \* drained, the IO thread's own copy
    pipe,           \* is a byte in wakeup_pipe?
    io,             \* where the IO thread is
    stop,           \* the IO thread's stop_token
    conn,           \* connection and channel
    stage,          \* how far the broker has answered connect_and_declare()
    shared_p,       \* the promise that the callbacks of the channel share
    error_seen,
    next_tag,       \* next_delivery_tag
    pending,        \* pending_confirms
    wire,           \* the messages published on this channel
    unanswered,     \* the delivery tags the broker has not yet confirmed
    pc, cur, calls, \* per thread: where it is, its last task, its calls so far
    attaches,       \* number of attach() calls
    inserted,       \* the bus knows the transport: an attach() has returned
    outcome,        \* what each promise was resolved with
    answer,         \* what the broker said of each RequireAck message (history)
    base,           \* next_delivery_tag when this channel was opened (history)
    strays          \* messages never sent, though their tags were drawn (history)

ioVars == <<batch, io>>
link == <<conn, stage, shared_p, error_seen, next_tag, pending, wire, unanswered>>
callVars == <<pc, cur, calls, attaches, inserted>>
tags == <<base, strays>>
vars == <<queue, batch, pipe, io, stop, link, callVars, outcome, answer, tags>>

Init ==
    /\ queue = <<>> /\ batch = <<>> /\ pipe = FALSE /\ io = "none" /\ stop = FALSE
    /\ conn = "null" /\ stage = "none" /\ shared_p = {} /\ error_seen = FALSE
    /\ next_tag = 1 /\ pending = {} /\ wire = <<>> /\ unanswered = {}
    /\ pc = [c \in Callers |-> "idle"] /\ cur = [c \in Callers |-> NoTask]
    /\ calls = [c \in Callers |-> 0] /\ attaches = 0 /\ inserted = FALSE
    /\ outcome = [p \in Promises |-> "none"] /\ answer = [p \in Promises |-> "none"]
    /\ base = 1 /\ strays = {}

\* set_value(): only the first one counts, later ones throw and are swallowed.
Resolve(ps, v) == [p \in Promises |-> IF p \in ps /\ outcome[p] = "none" THEN v ELSE outcome[p]]

-----------------------------------------------------------------------------
(* post() and the callers *)

\* Push the task under queue_mu; the wakeup byte is written after the unlock.
Post(c, kind, ack) ==
    LET t == [kind |-> kind, p |-> <<c, calls[c] + 1>>, ack |-> ack]
    IN  /\ calls[c] < MaxCalls[c]
        /\ queue' = Append(queue, t)
        /\ cur' = [cur EXCEPT ![c] = t]
        /\ calls' = [calls EXCEPT ![c] = @ + 1]
        /\ pc' = [pc EXCEPT ![c] = "posted"]
        /\ UNCHANGED <<pipe, ioVars, stop, link, attaches, inserted, outcome, answer, tags>>

Wake(c) ==
    /\ pc[c] = "posted"
    /\ pipe' = TRUE
    /\ pc' = [pc EXCEPT ![c] = IF cur[c].kind = "publish" /\ ~cur[c].ack THEN "idle" ELSE "waiting"]
    /\ UNCHANGED <<queue, ioVars, stop, link, cur, calls, attaches, inserted, outcome, answer, tags>>

\* Calls come through the bus, which has the transport once attach() returned
\* and, in stale snapshots, after detach().  Listener code runs on the IO thread.
CanCall(c) ==
    /\ pc[c] = "idle" /\ c # Owner /\ inserted
    /\ c = Io => io = "handler" /\ "nested" \in May

\* dispatch(): ack stands for RequireAck on a transport with confirms.
Dispatch(c, ack) == CanCall(c) /\ conn # "null" /\ Post(c, "publish", ack)

Flush(c) == CanCall(c) /\ c # Io /\ Post(c, "flush", FALSE)

Waiting(c, kind) == pc[c] = "waiting" /\ cur[c].kind = kind
Ready(c) == outcome[cur[c].p] # "none"
Expires(c, event) == ~Ready(c) /\ event \in May

Goto(c, l) ==
    /\ pc' = [pc EXCEPT ![c] = l]
    /\ UNCHANGED <<queue, pipe, ioVars, stop, link, cur, calls, attaches, inserted, outcome, answer, tags>>

\* The wait is over, one way or another; its result is ignored.
DispatchReturn(c) == Waiting(c, "publish") /\ (Ready(c) \/ Expires(c, "publishTimeout")) /\ Goto(c, "idle")

FlushReturn(c) == Waiting(c, "flush") /\ (Ready(c) \/ Expires(c, "flushTimeout")) /\ Goto(c, "idle")

-----------------------------------------------------------------------------
(* attach_with_sink(), detach() and shutdown() *)

\* start_io_thread()
Attach ==
    /\ pc[Owner] = "idle" /\ io = "none" /\ attaches < MaxAttach
    /\ io' = "top" /\ stop' = FALSE
    /\ attaches' = attaches + 1
    /\ pc' = [pc EXCEPT ![Owner] = "started"]
    /\ UNCHANGED <<queue, batch, pipe, link, cur, calls, inserted, outcome, answer, tags>>

Connect == pc[Owner] = "started" /\ Post(Owner, "connect", FALSE)

AttachReturn ==
    /\ Waiting(Owner, "connect") /\ outcome[cur[Owner].p] = "ok" /\ ~error_seen
    /\ inserted' = TRUE
    /\ pc' = [pc EXCEPT ![Owner] = "idle"]
    /\ UNCHANGED <<queue, pipe, ioVars, stop, link, cur, calls, attaches, outcome, answer, tags>>

\* A timeout, an error reply or a connection error makes attach() shut down.
AttachFail ==
    /\ Waiting(Owner, "connect")
    /\ \/ outcome[cur[Owner].p] = "error"
       \/ outcome[cur[Owner].p] = "ok" /\ error_seen
       \/ Expires(Owner, "connectTimeout")
    /\ Goto(Owner, "shutdown")

Detach == pc[Owner] = "idle" /\ io # "none" /\ Goto(Owner, "shutdown")

PostClose == pc[Owner] = "shutdown" /\ Post(Owner, "close", FALSE)

\* request_stop()
RequestStop ==
    /\ Waiting(Owner, "close") /\ (Ready(Owner) \/ Expires(Owner, "closeTimeout"))
    /\ stop' = TRUE
    /\ pc' = [pc EXCEPT ![Owner] = "stopping"]
    /\ UNCHANGED <<queue, pipe, ioVars, link, cur, calls, attaches, inserted, outcome, answer, tags>>

WakeToStop ==
    /\ pc[Owner] = "stopping"
    /\ pipe' = TRUE
    /\ pc' = [pc EXCEPT ![Owner] = "join"]
    /\ UNCHANGED <<queue, ioVars, stop, link, cur, calls, attaches, inserted, outcome, answer, tags>>

\* join(), then the thread, the channel and the connection are destroyed.  The
\* task queue, the pending confirms, the tag counter and error_seen stay.
Join ==
    /\ pc[Owner] = "join" /\ io = "exited"
    /\ io' = "none" /\ conn' = "null" /\ stage' = "none" /\ shared_p' = {}
    /\ wire' = <<>> /\ unanswered' = {}
    /\ pc' = [pc EXCEPT ![Owner] = "idle"]
    /\ UNCHANGED <<queue, batch, pipe, stop, error_seen, next_tag, pending, cur, calls, attaches,
                   inserted, outcome, answer, tags>>

-----------------------------------------------------------------------------
(* io_loop() *)

\* Variant: the newest task is run first.
Reversed(s) == [i \in 1..Len(s) |-> s[Len(s) + 1 - i]]
IoSwapReversed ==
    /\ io = "top" /\ ~stop
    /\ batch' = Reversed(queue) /\ queue' = <<>> /\ io' = "tasks"
    /\ UNCHANGED <<pipe, stop, link, callVars, outcome, answer, tags>>

\* drain_tasks() takes the whole queue under queue_mu.
IoSwap ==
    /\ io = "top" /\ ~stop
    /\ batch' = queue /\ queue' = <<>> /\ io' = "tasks"
    /\ UNCHANGED <<pipe, stop, link, callVars, outcome, answer, tags>>

IoGoto(l) ==
    /\ io' = l
    /\ UNCHANGED <<queue, batch, pipe, stop, link, callVars, outcome, answer, tags>>

IoExit == io = "top" /\ stop /\ IoGoto("exited")

\* Variant: the pipe is emptied before poll() instead of after it.
IoTasksDoneEmptiesPipe ==
    /\ io = "tasks" /\ batch = <<>>
    /\ io' = IF stop THEN "exited" ELSE "poll"
    /\ pipe' = FALSE
    /\ UNCHANGED <<queue, batch, stop, link, callVars, outcome, answer, tags>>

IoTasksDone == io = "tasks" /\ batch = <<>> /\ IoGoto(IF stop THEN "exited" ELSE "poll")

\* poll() reports the pipe, which is then emptied.
IoWoken ==
    /\ io = "poll" /\ pipe
    /\ pipe' = FALSE /\ io' = "top"
    /\ UNCHANGED <<queue, batch, stop, link, callVars, outcome, answer, tags>>

IoPollTimeout == io = "poll" /\ ~pipe /\ "pollTimeout" \in May /\ IoGoto("top")
IoPollError == io = "poll" /\ "pollError" \in May /\ IoGoto("exited")

\* The task at the head of the batch is done.
Running(kind) == io = "tasks" /\ batch # <<>> /\ Head(batch).kind = kind
TaskDone ==
    /\ batch' = Tail(batch)
    /\ UNCHANGED <<queue, pipe, io, stop, callVars>>

\* A flush() or shutdown() task resolves a promise on its caller's stack.
Alive(p) == cur[p[1]].p = p /\ pc[p[1]] \in {"posted", "waiting", "stopping", "join"}

RunFlush ==
    /\ Running("flush") /\ Alive(Head(batch).p)
    /\ outcome' = Resolve({Head(batch).p}, "done") /\ TaskDone
    /\ UNCHANGED <<link, answer, tags>>

\* The channel and the connection, if there are any, are closed.
Closed == IF conn = "open" THEN "closed" ELSE conn

RunClose ==
    /\ Running("close") /\ Alive(Head(batch).p)
    /\ conn' = Closed
    /\ outcome' = Resolve({Head(batch).p}, "done") /\ TaskDone
    /\ UNCHANGED <<stage, shared_p, error_seen, next_tag, pending, wire, unanswered, answer, tags>>

\* The caller gave up and returned: set_value() writes to a dead stack frame,
\* which may do no harm or anything at all; then the IO thread is given up.
RunDangling ==
    /\ Running("flush") \/ Running("close")
    /\ ~Alive(Head(batch).p)
    /\ conn' = IF Head(batch).kind = "close" THEN Closed ELSE conn
    /\ batch' = Tail(batch) /\ io' \in {"tasks", "undefined"}
    /\ UNCHANGED <<queue, pipe, stop, stage, shared_p, error_seen, next_tag, pending, wire, unanswered,
                   callVars, outcome, answer, tags>>

\* The connection and the channel are created and the declarations sent; the
\* broker counts the messages of this channel from 1.
RunConnect ==
    /\ Running("connect")
    /\ conn' = "open" /\ stage' = "declareQueue" /\ shared_p' = {Head(batch).p}
    /\ wire' = <<>> /\ unanswered' = {} /\ base' = next_tag
    /\ TaskDone
    /\ UNCHANGED <<error_seen, next_tag, pending, outcome, answer, strays>>

\* A bad address or a refused allocation: no connection.
RunConnectThrow ==
    /\ Running("connect") /\ "throw" \in May
    /\ outcome' = Resolve({Head(batch).p}, "error")
    /\ TaskDone
    /\ UNCHANGED <<link, answer, tags>>

\* emplace(): the confirm of the running task is awaited under the next tag.
Awaited == IF Head(batch).ack THEN pending \cup {[tag |-> next_tag, p |-> Head(batch).p]} ELSE pending

\* Variant: the tag is counted only for messages that want a confirm.
RunPublishOwnTags ==
    /\ Running("publish") /\ conn = "open"
    /\ next_tag' = IF Head(batch).ack THEN next_tag + 1 ELSE next_tag
    /\ pending' = Awaited
    /\ wire' = Append(wire, Head(batch))
    /\ unanswered' = unanswered \cup {Len(wire) + 1}
    /\ TaskDone
    /\ UNCHANGED <<conn, stage, shared_p, error_seen, outcome, answer, tags>>

\* The message goes out under the next delivery tag.
RunPublish ==
    /\ Running("publish") /\ conn = "open"
    /\ next_tag' = next_tag + 1
    /\ pending' = Awaited
    /\ wire' = Append(wire, Head(batch))
    /\ unanswered' = unanswered \cup {Len(wire) + 1}
    /\ TaskDone
    /\ UNCHANGED <<conn, stage, shared_p, error_seen, outcome, answer, tags>>

\* publish() returns false: the confirm just registered is withdrawn.
RunPublishRefused ==
    /\ Running("publish") /\ conn \in {"closed", "failed"}
    /\ next_tag' = next_tag + 1
    /\ outcome' = IF Head(batch).ack THEN Resolve({Head(batch).p}, "nack") ELSE outcome
    /\ TaskDone
    /\ UNCHANGED <<conn, stage, shared_p, error_seen, pending, wire, unanswered, answer, tags>>

\* No channel, or the message could not be built: no tag is used.
RunPublishNowhere ==
    /\ Running("publish") /\ (conn = "null" \/ "throw" \in May)
    /\ outcome' = IF Head(batch).ack THEN Resolve({Head(batch).p}, "nack") ELSE outcome
    /\ TaskDone
    /\ UNCHANGED <<link, answer, tags>>

\* emplace() or publish() throws: the tag is drawn, yet nothing is sent.  If the
\* promise has been moved into pending_confirms, there it stays; the handler
\* finds the task's own promise empty and resolves nothing.
RunPublishThrow ==
    /\ Running("publish") /\ conn # "null" /\ "throw" \in May
    /\ next_tag' = next_tag + 1
    /\ strays' = strays \cup {Head(batch).p}
    /\ \/ Head(batch).ack /\ outcome' = Resolve({Head(batch).p}, "nack") /\ UNCHANGED pending
       \/ pending' = Awaited /\ UNCHANGED outcome
    /\ TaskDone
    /\ UNCHANGED <<conn, stage, shared_p, error_seen, wire, unanswered, answer, base>>

-----------------------------------------------------------------------------
(* connection->process(): what the broker sends, on the IO thread *)

\* poll() reports the socket, and the pipe too if it holds a byte.
Readable == io = "poll" /\ conn \in {"open", "closed"} /\ pipe' = FALSE

NextStage == [declareQueue |-> "bindQueue", bindQueue |-> "consume", consume |-> "ready"]

\* declareQueue, bindQueue and consume succeed one after the other.
SetupReply ==
    /\ Readable /\ conn = "open" /\ stage \in DOMAIN NextStage
    /\ stage' = NextStage[stage] /\ io' = "top"
    /\ outcome' = IF stage' = "ready" THEN Resolve(shared_p, "ok") ELSE outcome
    /\ UNCHANGED <<queue, batch, stop, conn, shared_p, error_seen, next_tag, pending, wire, unanswered,
                   callVars, answer, tags>>

\* The broker closes the channel: a declaration failed, or a later operation.
\* Nothing more is confirmed on it, and nobody is told but attach().
ChannelError ==
    /\ Readable /\ conn = "open" /\ "channelError" \in May
    /\ conn' = "closed" /\ unanswered' = {} /\ io' = "top"
    /\ outcome' = Resolve(shared_p, "error")
    /\ UNCHANGED <<queue, batch, stop, stage, shared_p, error_seen, next_tag, pending, wire, callVars,
                   answer, tags>>

\* The tags a confirm settles.
Settled(S, tag, multiple) == {i \in S : IF multiple THEN i <= tag ELSE i = tag}

\* resolve_confirm(): the pending entries that a confirm settles.
ResolveConfirm(tag, multiple) == {e \in pending : IF multiple THEN e.tag <= tag ELSE e.tag = tag}

Confirm(tag, multiple, v) ==
    LET hit == ResolveConfirm(tag, multiple)
        said == {wire[i].p : i \in {j \in Settled(unanswered, tag, multiple) : wire[j].ack}}
    IN  /\ Readable /\ conn = "open" /\ tag \in unanswered /\ io' = "top"
        /\ pending' = pending \ hit
        /\ outcome' = Resolve({e.p : e \in hit}, v)
        /\ answer' = [p \in Promises |-> IF p \in said THEN v ELSE answer[p]]
        /\ unanswered' = unanswered \ Settled(unanswered, tag, multiple)
        /\ UNCHANGED <<queue, batch, stop, conn, stage, shared_p, error_seen, next_tag, wire, callVars,
                       tags>>

\* Variant: the waiters are left to their timeouts.
OnErrorForgets ==
    /\ Readable /\ "connectionError" \in May
    /\ conn' = "failed" /\ error_seen' = TRUE /\ unanswered' = {} /\ io' = "top"
    /\ pending' = {}
    /\ UNCHANGED <<queue, batch, stop, stage, shared_p, next_tag, wire, callVars, outcome, answer,
                   tags>>

\* onError(): the waiters are released; the channel reports the error as well.
OnError ==
    /\ Readable /\ "connectionError" \in May
    /\ conn' = "failed" /\ error_seen' = TRUE /\ unanswered' = {} /\ io' = "top"
    /\ pending' = {}
    /\ \E told \in {{}, shared_p} :
          outcome' = [p \in Promises |->
                         IF outcome[p] # "none" THEN outcome[p]
                         ELSE IF \E e \in pending : e.p = p THEN "nack"
                         ELSE IF p \in told THEN "error" ELSE "none"]
    /\ UNCHANGED <<queue, batch, stop, stage, shared_p, next_tag, wire, callVars, answer, tags>>

\* A message: acknowledged at once, then decoded and passed to the listeners.
Deliver ==
    /\ Readable /\ conn = "open" /\ stage = "ready"
    /\ io' = "handler"
    /\ UNCHANGED <<queue, batch, stop, link, callVars, outcome, answer, tags>>

HandlerEnd == io = "handler" /\ pc[Io] = "idle" /\ IoGoto("top")

-----------------------------------------------------------------------------
OwnerStep ==
    \/ Connect \/ AttachReturn \/ AttachFail
    \/ PostClose \/ RequestStop \/ WakeToStop \/ Join

CallerStep(c) == Wake(c) \/ DispatchReturn(c) \/ FlushReturn(c)

IoStep ==
    \/ IoSwap \/ IoExit \/ IoTasksDone \/ IoWoken
    \/ RunFlush \/ RunClose \/ RunConnect \/ RunPublish \/ RunPublishRefused
    \/ RunPublishNowhere \/ RunPublishThrow \/ RunConnectThrow \/ RunDangling \/ HandlerEnd

Environment ==
    \/ IoPollTimeout \/ IoPollError
    \/ SetupReply \/ ChannelError \/ OnError \/ Deliver
    \/ \E tag \in unanswered, multiple \in BOOLEAN, v \in {"ack", "nack"} : Confirm(tag, multiple, v)

Next ==
    \/ Attach \/ Detach \/ OwnerStep \/ IoStep \/ Environment
    \/ \E c \in Callers : CallerStep(c) \/ Flush(c) \/ (\E ack \in BOOLEAN : Dispatch(c, ack))

Spec == Init /\ [][Next]_vars

-----------------------------------------------------------------------------
(* Properties *)

\* The state has its declared types.
TypeOK ==
    /\ queue \in Seq(Task) /\ batch \in Seq(Task)
    /\ pipe \in BOOLEAN /\ stop \in BOOLEAN /\ error_seen \in BOOLEAN
    /\ io \in {"none", "top", "tasks", "poll", "handler", "exited", "undefined"}
    /\ conn \in {"null", "open", "closed", "failed"}
    /\ stage \in {"none", "ready"} \cup DOMAIN NextStage /\ shared_p \subseteq Promises
    /\ next_tag \in Nat \ {0} /\ pending \subseteq [tag : Nat, p : Promises]
    /\ wire \in Seq(Task) /\ unanswered \subseteq 1..Len(wire)
    /\ pc \in [Callers -> {"idle", "posted", "waiting", "started", "shutdown", "stopping", "join"}]
    /\ cur \in [Callers -> Task] /\ calls \in [Callers -> Nat]
    /\ attaches \in Nat /\ inserted \in BOOLEAN
    /\ outcome \in [Promises -> {"none", "ok", "error", "done", "ack", "nack"}]
    /\ answer \in [Promises -> {"none", "ack", "nack"}]
    /\ base \in Nat \ {0} /\ strays \subseteq Promises

\* Publisher confirms are not mixed up while the tags are in step with the
\* broker's: what it says of a message is what its dispatch() is told, and a
\* dispatch() is told of an ack only if the broker sent one for that very
\* message, however confirms are batched, plain messages interleaved and waits
\* abandoned.  Nothing is said of a channel opened after tags were drawn on
\* another, nor once a task threw with its tag drawn: tags stay out of step.
InStep == base = 1 /\ strays = {}
ConfirmsMatch ==
    InStep => \A p \in Promises : /\ answer[p] # "none" => outcome[p] = answer[p]
                                  /\ outcome[p] = "ack" => answer[p] = "ack"

\* A connection error releases everyone: nobody waits for the confirm of a
\* message that was handed to AMQP-CPP before the connection failed, on a
\* channel that had been closed before or not.  A task that throws after the
\* failure can still leave its own caller to its timeout.
Queued(p) == \E s \in {queue, batch} : \E i \in 1..Len(s) : s[i].p = p
ErrorReleasesWaiters ==
    conn = "failed" => \A c \in Callers :
                          Waiting(c, "publish") => Ready(c) \/ Queued(cur[c].p) \/ cur[c].p \in strays

\* "so any queued publishes have at least been handed to AMQP-CPP": when
\* flush() has been answered and returns, no publish posted by its caller is
\* still queued.  A flush() whose second has passed promises nothing.
FlushCovers ==
    [][\A c \in Users : Waiting(c, "flush") /\ Ready(c) /\ pc'[c] = "idle"
          => \A n \in 1..MaxCalls[c] : ~Queued(<<c, n>>)]_vars

\* The self-pipe loses no wakeup: the IO thread sleeps in poll() on an empty
\* pipe only while whoever posted a task or requested the stop has still to
\* write its byte; the 200 ms timeout of poll() is never what rescues a caller.
NoLostWakeup ==
    io = "poll" /\ ~pipe =>
        /\ queue # <<>> => \E c \in Callers : pc[c] = "posted"
        /\ stop => pc[Owner] = "stopping"
=============================================================================
