# Verification of conduit

TLA+ models of conduit, a C++ event bus with pluggable transports, with TLC
configurations that check them on small instances, and TLAPS proofs, for every size,
of every safety property that they check. Paths are relative to the repository; `bus.hpp` stands for
`include/conduit/bus.hpp`, and likewise for the other public headers.

    tlc -workers 2 -config LocalSafety.cfg MCLocalTransport
    tlapm LocalTransportProofs.tla

`PROJECT.json` lists every run with its module and its properties, every
definition with the lines it models, and for each property a variant of the
model (a definition whose comment begins "Variant:") that breaks it.

## 1. The system

A `Bus` owns middleware, transports and listeners. `publish()` runs the
middleware, hands the envelope to the transports its flags allow, and runs the
middleware again. A *local* transport brings the envelope back to the bus, on the
same thread or on a pool; a *remote* one encodes it for a broker, whose messages
come back, in another process, through the same `deliver_to_listeners()`. Nothing
is persisted; a failure is reported to `Middleware::on_error` or dropped.

| Component | State | Operations | Talks to |
|---|---|---|---|
| `Bus` (`bus.hpp`) | `middleware_`, `transports_`, `listeners_` under `mu_`; `shutdown_`, `next_id_` (atomic); `self_alias_` (no lock) | `use_*`, `publish`, `deliver_to_listeners`, `listen`, `release`, `drain`, `shutdown`, destructor | calls middleware, transports and handlers with no lock held |
| `Subscription`, `EventSubscriber` (`listener.hpp`) | id, active flag, back reference | move, `release`, `detach`, `on` | calls `Bus::release` |
| `local::Transport` (`local/transport.hpp`) | `outstanding_` under `drain_mu_`, two condition variables, a thread pool | `dispatch`, `complete_one`, `flush`, `detach` | the pool; `deliver_to_listeners` from workers |
| `relay::Transport`, `FilteredTransport` | routes under a mutex; two predicates | `dispatch`, `add_route`, `remove_route`; forwarding | user callbacks; an inner transport |
| `amqp::Transport` (`transports/amqp/src/transport.cpp`) | task queue, self-pipe, stop token, channel, delivery tags, pending confirms | `attach`, `detach`, `dispatch`, `flush`, the IO loop, broker callbacks | AMQP-CPP; the bus from the IO thread |
| zmq, redis, nats, mqtt adapters (`transports/*/src/transport.cpp`) | handles of the client library, `sink`, `connected`, a receiver: a thread of ours (zmq, redis) or of the library (nats, mqtt) | constructor, `attach`, `detach`, `dispatch`, `flush`, destructor, the receiver's loop or callback | their client libraries; `deliver_to_listeners` and `report_transport_error` from the receiver |
| `EventRegistry` (`serialization.hpp`) | a copy-on-write set of event types | `add_descriptor`, `decode_json`, `decode_cbor` | used by `listen`, `publish` and inbound paths |
| `EventEnvelope`, `EventBuilder` | a core shared by all copies; flags, timestamps | `build`, `to_json`, `from_json` | stamped by `publish` and the adapters |
| `Glob` (`glob.hpp`) | none | `match` | listeners, relay routes |

What is hard here is what a test hardly reaches: every container is copied under a
lock and used without it, so each callback sees a possibly stale copy; the
bounded queue sleeps on two condition variables fed by one counter; the
AMQP transport bridges two threads with a pipe and timed waits on promises, some of
which live on the waiting stack; the other adapters close handles that a receiver
polls and publishers send on, with a thread to join or a callback to outlast, after
an `attach()` that may have stopped anywhere; the registry is a read-copy-update;
and the destructor races with whoever still holds a copy. `PROJECT.json` lists these as
hazards, each at its line with the properties that guard it.

What makes each component correct, in a sentence: the local transport delivers
each accepted envelope exactly once, within its bound, and `flush()` is a barrier;
the bus routes by scope, loses no stable listener, reports failures and returns;
`drain()` and `shutdown()` cover what their caller dispatched; an adapter closes
no handle in use and leaves nothing behind, and no handler that it could wait for outlives
the bus; a subscription is released exactly once and listeners are called in the order
asked for; a registered type stays registered; an envelope survives its hops; a confirm
reaches the caller it is for; the matcher decides its pattern language. Where the code
does not keep one of these, the property says how far it does, and section 5 says what
is left out.

## 2. The modules

| Module | Models | Composed with |
|---|---|---|
| `LocalTransport` | `local/transport.hpp`, Queue and ThreadPool modes and the Direct flag | implements `AsyncDelivery` |
| `AsyncDelivery` | the promise of an asynchronous transport: bags of waiting and delivering envelopes, and `flush` as a barrier | refined by `LocalTransport` |
| `BusPublish` | `publish_impl`, `deliver_to_listeners`, `run_on_error`, concurrent registration; `relay::Transport`, `FilteredTransport` | |
| `BusLifecycle` | `use_transport`, `drain`, `shutdown`, the destructor, ownership of transports | assumes of `flush()` what `LocalTransport` shows |
| `RemoteAdapter` | what the four adapters share: the state of `Impl` and the steps of attaching, detaching, receiving, sending | extended by the next five |
| `ZmqTransport`, `RedisTransport`, `NatsTransport`, `MqttTransport` | one adapter each | instances in `RemoteSession` |
| `RemoteSession` | a bus with a local transport and one adapter | composes `BusLifecycle` and the adapters |
| `Subscriptions` | `listen`, `release`, handles, gauge, `self_alias_` | |
| `EventRegistry` | `serialization.hpp` | |
| `Envelope` | builder, shared core, JSON codec, stamps | |
| `AmqpTransport` | the AMQP adapter and the broker it talks to | |
| `Glob` | `glob_match_impl`, one step per loop turn | against `Meaning`, its header's semantics |

`MC*` modules give constants their values; `*Proofs` modules hold the theorems, and
`EventRegistry`, whose proofs are few, holds its own.

**LocalTransport.** `outstanding` is `outstanding_`; `queue` is the pool's FIFO;
`pc` says where each thread is in `dispatch()` or `flush()`, `cur` the envelope of
its call and `task` the one whose task a worker executes. Every section under
`drain_mu_` is one action: `Reserve` or `BlockOnSpace` evaluate the predicate of
`space_cv_`, `CompleteOne` decrements and notifies, `FlushReturn` or
`BlockOnDrain` evaluate the predicate of `drained_cv_`. A waiter that is notified
goes back to its predicate; `SpuriousWakeup` is what C++ allows. `Reject` and
`Undo` are the catch block around `execute()`. Workers that run a handler may call
`dispatch()` and `flush()` themselves. `detach()` is `flush()`.

**BusPublish.** Each `publish()` is an actor whose record `call` holds the locals of
`publish_impl`: the copy `mws`, the loop index, the scope flags read at the start, the copy
`ts` of the transports. `fan[c][s]` is one execution of `deliver_to_listeners`, for call `c` at
site `s` (a transport, or the fallback of a bus with none). Middleware may veto, throw or
change the envelope's flags; transports and listeners may throw. A relay is a site that fans
out to its own `routes`, which come and go like listeners, and swallows what they throw. A
transport in `Filtered` is wrapped: `RouteFiltered` is the outbound predicate of
`FilteredTransport` refusing or throwing, `FanFiltered` the inbound one; neither is a failure,
so neither sets `hist.failed`, as a throw of `dispatch()` or of a handler does. `Insert` and
`Erase` are the sets of what an insertion at a position that keeps the priority order, or the
removal of an element, can give. `gone` are the listeners that were released and `removed[t]`
the routes that were taken from relay `t`. `hist` records what the properties need and nothing
reads it.

**BusLifecycle.** `held` is what a thread's snapshot keeps alive, so a transport is destroyed
when it has left `transports_` and no snapshot holds it. `flush()` and `detach()` wait until no
unit of the transport is pending. Loops visit the transports by `Rank`, their priority, and
those of equal priority in any order. `Callbacks` are the threads that call the bus from
handlers only: nothing tells them that it is being shut down.

**The adapters.** A call of `attach()`, `detach()` or the destructor is a *program*, the
sequence `prog` of the steps that the calling thread has still to take, in the order of the
code: `AttachProgram`, `ShutdownProgram` (which is `Impl::shutdown()` or
`disconnect_blocking()`), `DetachProgram`, `DestroyProgram`. The last step of the program of a
call names its outcome. The action of `RemoteAdapter` or of the adapter that the head of the
program names takes it. `SetupFails` and `SpawnFails` replace the rest of an attaching program
by what the code does then. `open` is the set of handles that are not null, `recv` says where
the receiver is and `using` which threads are inside the client library on behalf of
`dispatch()`. `ends` is what remains of the socket patterns of zmq; the byte in its shutdown
pair is `wake`. For mqtt, `"tok"` in `open` is a connection attempt that `attach()` has stopped
waiting for, and `LateConnect` its late success; `"subtok"` and `LateSuback` are the same for
the subscription, which may also be refused late or never answered. Nothing in `detach()` of
nats and mqtt waits for a callback that is under way (`Delivering`): it runs on, with whatever
is left of the sink, the handles and the bus. `May` selects the failures: `setup` (any step of
`attach()`), `spawn` (the thread), `wake` (the byte to the pair), `receive` (receive errors, a
lost connection) and `late` (the expired waits).

**RemoteSession.** `use_transport()` of the adapter is `Attach`, its program, and `Attached`
(with the insertion) or `AttachThrows`. `shutdown()` is `BusLifecycle`'s, with `Detach` and
`Detached` around the program. The receiver `rx` is a thread of the bus as well: a handler it
runs may `publish()`, which takes its own copy of the transports. `report_transport_error()` is
the span `"report"` of the receiver. `Drop` is the last reference going away.

**Subscriptions.** `listen()` is several steps because only the insertion is locked.
A lambda and a listener object may come with a priority (`Explicit`), and a listener and a
subscriber have one of their own. `EffectivePriority` is what the code stores, `Asked` what
the headers promise; an entry keeps both, with the listeners that were registered when
its `listen()` began. `Alias` is the unlocked test and assignment of `self_alias_`: of two
first calls that race there, the model has the outcomes in which the program survives.
Operations on a handle are one step: a handle belongs to one thread.

**EventRegistry.** `add_descriptor()` is two steps, the copy under the shared lock
and the swap under the unique lock. `settled` remembers the types whose
registration overlapped no other.

**Envelope.** Times are ticks, several to the millisecond; `id` stands for
all that the codec copies verbatim. A received envelope may be published again. `Publish`
reads the clock, which shows any time of `Clock` since it may be set back, and `Store`
writes the reading into the shared core, a separate step as in `bus.hpp:402` and `403`.
`during` collects the readings of every `publish()` of the same core that overlaps one.

**AmqpTransport.** Tasks name the promise they resolve; `Alive` says whether the
stack frame of a by-reference promise still exists. If it does not, `RunDangling` writes to
it all the same, after which the IO thread goes on or, `io` being `"undefined"`, nothing is
known of it. `shared_p` is the promise that the callbacks of `connect_and_declare()` share.
`wire` and `unanswered` are the broker's side of publisher confirms; `answer` is what the
broker said of each message. A publishing task ends in one of four ways: sent
(`RunPublish`), refused by the channel (`RunPublishRefused`), given up before a tag was drawn
(`RunPublishNowhere`) or after (`RunPublishThrow`). `base` is the delivery tag with which the
current channel began and `strays` are the messages whose tags were drawn in vain: `InStep`
says that neither has put the transport's count and the broker's apart. `ChannelError` may
come at any time, not only while declaring. `May` selects the timeouts and failures that
can strike; the run has all of them.

**Glob.** The variables are the locals of `glob_match_impl`, indices 0-based as there.
`Meaning` is what it is compared with: some monotone assignment of the name's characters to
the pattern's, in which a star takes any number of characters, but no dot if it stands
alone, and anything else takes exactly the one that equals it.

## 3. The runs

| Run | Shows | Instance |
|---|---|---|
| `LocalSafety` | `outstanding_` is exact, the bound holds, neither condition variable loses a wakeup, `flush()` is a barrier, and the transport implements `AsyncDelivery` | 3 producers, 2 workers, capacity 2, a queued and a Direct envelope, handlers that call back, failing submissions |
| `LocalLive` | back-pressure never stops all producers for ever, `flush()` returns once publishing stops, and the transport implements the fair `AsyncDelivery` | 2 producers, 1 worker, capacity 2, 2 envelopes |
| `PublishRouting` | vetoed and conflicting envelopes go nowhere; the scope matrix; `after_dispatch` mirrors `before_dispatch`; failures reach every middleware unless the call skips middleware; what a filter refuses is reported to nobody; `publish()` and its fan-outs end | 1 call with each of six flag sets, 2 middleware, a pool and a remote transport behind filters, 2 listeners, all registered at any moment |
| `PublishFanOut` | no stable listener or route is missed, none released before is called, nobody hears what a filter refused, order by priority | a filtered pool and a relay (or no transport), 3 listeners and 2 routes that come and go |
| `RemoteSafe` | `drain()` and `shutdown()` cover what their callers dispatched, and every transport that `shutdown()` took is detached; no handler or error report of zmq and redis runs in a dead bus; no handle is closed under a sender or a poller; a failed `attach()` and a `detach()` leave nothing behind; `shutdown()` ends | an owner, a thread that publishes and drains, handlers that publish at any moment; a local transport and each of the four adapters (zmq with every set of ends), of equal priority; 1 pending unit per thread, 1 waiting message, 2 calls of `attach()`, every failure and expired wait |
| `EventRegistrySafe` | a settled type stays and every later decode knows it | 3 registering threads, 1 decoding, 3 types |
| `EventRegistryLost` | *violated:* no registration removes another | as above |
| `GlobSafe` | reads in bounds, termination, soundness, completeness on patterns with no `*` after a `**` | all patterns up to 5 and names up to 4 characters over `a b . *` |
| `GlobComplete` | *violated:* completeness on all patterns | as above, smaller |
| `SubscriptionsSafe` | exact gauge, one owner per registration, listeners in the order asked for | 2 threads, 3 handles, 3 registrations, all three ways to register, with and without a priority |
| `EnvelopeHops` | the flags that receivers know and the creation time survive hops; a `publish()` sends its own stamp or that of one that overlapped it | 2 threads, 2 messages, 3 cores, times 0 to 3, a clock that shows 1 or 2, 2 ticks per ms |
| `AmqpSafe` | confirms reach the right caller while the tags are in step; connection errors release waiters; the pipe loses no wakeup; an answered `flush()` covers its caller's publishes | two sessions of one object, a user thread and nested calls of a handler with two calls between them, every failure and every timeout |

**Why the bounds are enough.** Three producers on two slots is the least that has two sleepers
and one free slot; two workers let a completion race with another. One `publish()` suffices for
the pipeline because calls share only the registries, which change freely around it. Two
transports are the least where `drain()` can forget one and where `shutdown()` has detached one
and not the other. Two calls of `attach()` are a failed one and a retry on the same object; one
waiting message can arrive before, during and after every step of a detach, and the receiver
takes any number of them in turn. Three adders are the least where a lost update can be hidden
by a third. Five pattern characters hold a double and a single star with text between them. Two
hops are the least where loss could accumulate. Two readings of the clock, either of which may
come first, are an older and a newer stamp. Of the AMQP transport, two calls are a plain
publish before an acknowledged one, or a publish before a flush, and the second session is
where a task, a tag or a confirm that was left by the first can do harm; the `CONSTRAINT`
`TwoCalls` of `AmqpSafe.cfg` bounds the calls of users and handlers together, whoever makes
them. Every bound is a named constant (`MaxBacklog`, `MaxPending`, `MaxInbox`, `MaxId`,
`MaxCalls`, `MaxAttach`, `MaxClock`, `MaxBuilt`, `MaxCores`, `MaxSends`).

**Symmetry** is used in `LocalSafety` only, for producers and workers, which no
definition tells apart; not in runs with liveness.

**Fairness.** `LocalTransport`, `BusPublish` and `RemoteSession` assume weak fairness of a
thread that is inside the library and of pool workers: nothing there waits for anything but the
conditions modelled, and handlers are taken to return. `RemoteSession` includes the adapter's
own steps and its receiver: every wait of theirs is a bounded poll, a socket timeout or a join;
messages, late connections and lost ones are the environment's and get no fairness. Nobody is
obliged to call. `LocalLive` has handlers that do not call back, for the reason in section 5.
`Glob` is one sequential loop. `CHECK_DEADLOCK FALSE` stands where the system may legitimately
stop: no caller need ever call, or the bus is gone.

## 4. The proofs

Proved by TLAPS for every value of the constants that satisfies the named
assumptions of the modules.

**LocalTransportProofs** (any finite sets of threads, any capacity, any handlers,
submissions that may fail): `TypeCorrect`, `AccountingHolds`, `BacklogBoundHolds`,
`NoLostWakeups`, `FlushIsBarrier`. The inductive invariant is

    IndInv == TypeOK /\ SubmitterHasEnvelope /\ Accounting /\ SlotsBounded
                     /\ NoLostSpaceWakeup /\ NoStrandedFlusher

where the last two are the parts of `WakeupsReachSleepers`.
`TypeOK` is not inductive alone: that `outstanding` stays in `Nat` when it is
decremented needs `Accounting`, which says whoever completes a unit is counted in
it. `Accounting` is about cardinalities of sets of threads, so each action first
shows which of the sets gains or loses the acting thread (lemmas on adding and
removing one element). `NoLostSpaceWakeup` needs `SlotsBounded` (reserved slots never
exceed the capacity), and the notified sleeper to be counted among those on their
way to a slot. `FlushIsBarrier` is an action property and follows from
`Accounting`: a zero counter means three empty sets.
`Refinement` shows that the transport implements `AsyncDelivery`: an envelope waits
there while it is being submitted or in the queue, and is being delivered while a worker
has its task, so the proof needs what adding to the end of the queue and taking its head do
to the number of times an envelope is in it.

**BusPublishProofs** (any calls, middleware, transports, relays, listeners and filters;
everything may register, leave, throw or refuse at any moment): `DroppedStops`,
`RoutingRespectsScope`, `AfterMirrors`, `FailuresAreReported`, `RefusalsAreNotReported`,
`HandlersInOrder`, `FanOutIsExact`, `RegistrationHasOnePlace`. The inductive invariant is

    IndInv == Types /\ Registries /\ \A c \in Calls : CallInv(c)

`Registries` says that no container holds anybody twice, or anybody who has left, and
that the listeners are in priority order. `CallInv` says of each call how far its loops
over its own copies have come, in terms of the index `k` and of the two halves `heard` and
`todo` of each fan-out: whoever must be called is in one of the halves, none twice. A call
shares only the registries with the others, so a step of one call leaves `CallInv` of the
others alone, up to the registries' growth, which one lemma treats.
`RegistrationHasOnePlace` is about the containers alone: all three are always in priority
order, so there is a place to insert at, and only one (the least position whose element
has a higher priority); a registration is never disabled in the model, and never ambiguous.

**SubscriptionsProofs** (any threads, handles and priorities): `GaugeIsExact`,
`RegistrationsHaveOneOwner`, `ListenersCalledAsAsked`. The inductive invariant is

    IndInv == TypeOK /\ RegTypes /\ ListSorted /\ Exclusive /\ Owned /\ Quiet /\ GaugeExact

`OneOwner` counts owners; what is inductive is `Exclusive` (no two of: the handles,
the calls of `listen()` under way, the detached ids, have an id in common) with `Owned`
(while the bus lives, the ids that these have are those in `listeners_`). `GaugeExact`
needs both, and uniqueness of ids, to know that a release removes exactly one entry.
`ListenersCalledAsAsked` adds `Ordered`: an entry's priority is the one asked for, unless it
is a subscriber's, and whoever stands before another of the same priority began without
knowing of it.

**AmqpTransportProofs** (any threads, any numbers of calls and of sessions, every failure,
throw and timeout): `WakeupsArrive`, `ErrorsReleaseWaiters`, `FlushIsBarrier`,
`ConfirmsAreMatched`. The inductive invariant is

    IndInv == TypeOK /\ Numbered /\ InOrder /\ Fresh /\ Wakeups /\ Waiters

`InOrder` says that the tasks of a thread are run in the order it posted them, which makes
an answered `flush()` a barrier; `Fresh`, that each promise is resolved by one party only, so that
`set_value` cannot throw; `Wakeups`, that from the swap of the queue on whatever is posted
has its byte in the pipe or a thread that is about to write it; `Waiters`, that whoever
waits for a confirm is told, or its message is in flight or its confirm awaited, which after a
failure only a message whose task threw still is. `ConfirmsAreMatched` adds `FirstTag` (a
channel that began with the first tag met no confirm of an earlier one) and `Tagged`: while
the tags are in step, the awaited confirms are those of the unanswered messages, tag by tag.

**RemoteSessionProofs** (any threads, local transports, each of the four adapters, any
order of the transports, any bounds): `HandlersRunInLiveBus`, `HandlesOutliveTheirUsers`,
`NothingIsLeftBehind`, `DrainCoversItsCaller`, `ShutdownCoversItsTransports`. The first four
assume `Disciplined`: the application leaves the bus alone during `shutdown()` (`Orderly`,
whose need section 5 shows), and the callbacks are those of the receiver. The last assumes
the second half of that only. The inductive invariant is

    IndInv == BusInv /\ AdapterInv /\ Coupling

`BusInv` says that `shutdown()` has the bus to itself, handlers apart (`Phases`), that a
transport the bus has owned is in `transports_`, detached, or ahead of the loop of `shutdown()`
(`Covered`), and that the application has work pending only in transports that are still to be
flushed (`OwnPending`). `AdapterInv` is about what is left of a program: that it is `Proper` (its
steps come in an order that never releases before a receiver of ours has ended), that every open
handle has still its release in it, that what the receiver polls is made before it starts.
The order of the steps of each program is proved once (`AttachProper`, `ShutdownProper`);
that each kind of step keeps the invariant is then independent of the adapter. `Coupling`
ties the program to the call that runs it, and the threads inside the client library to the
transport's place in their snapshot; callbacks of nats that run on are exempt (`Sends`).
`ShutdownCoversItsTransports` rests on an invariant that needs no discipline,

    ShutdownInv == TypeOK /\ Entered /\ LoopInv /\ (Disciplined => IndInv)

where `LoopInv` says of every thread in `shutdown()` that each transport it took is yet to be
flushed, about to be detached, or detached, with no unit of the caller in the last two. Its last
conjunct gives the second half of the property, which is about an orderly application.

**EventRegistry** (at the end of the module): `SettledIsPermanent` and `DecodeSucceeds`, for
any number of threads and types. The strengthening says that every version that is yet to be
swapped in already contains every settled type, because its copy was taken after the settling
swap.

**EnvelopeProofs** (any resolution of the clock, any flags, threads, envelopes and
messages): `HopsPreserveEvents`, `StampsOfOverlapping`, `TypeCorrect`. The inductive invariant is

    IndInv == TypeOK /\ OriginsBuilt /\ WireFaithful /\ WireTimes /\ CallsPlaced
                     /\ Overlaps /\ HopsPreserve /\ StampsOverlap

`HopsPreserve` compares a received envelope with the one that was built, however many hops lie
between. It becomes inductive with `WireFaithful`, which says the same of every message: it has
no flags but the built ones and all of those that are registered, and its creation time is the
built one in milliseconds. That a second hop loses nothing more is the lemma `CutOnce` (cutting
to the millisecond twice is cutting once). `OriginsBuilt` says that what an id refers to is a
built envelope, which is itself never overwritten but for its stamp. `StampsOverlap` needs
`Overlaps`: of two calls on one core that are both under way, each knows the stamp of the
other, so whoever overwrites a stamp writes one that all the calls concerned expect. Nothing is
assumed of the clock. The proofs assume `MaxBuilt <= MaxCores`, since received envelopes count
as cores too.

**GlobProofs** (every pattern and every name): `IndicesInRange`,
`BacktrackReadsInBounds`, `TurnsLowerRank`, `Soundness`, `Completeness`. For the first two,
the position after the last star is never beyond the scan, so backtracking
moves within both strings. `TurnsLowerRank` is why the matcher terminates: each turn of
either loop lowers, in the lexicographic order, the phase, what the pattern has behind the last
star, what the name has behind that star's match, and what is left of both. The
inductive invariant of the other two is

    IndInv == Bounds /\ Scanned /\ Run /\ Hope /\ Trail /\ CompleteOnSimple

`Scanned` says that what has been read of the name matches what has been read of the
pattern, up to the scan and up to the last star; at the end of both strings this is
`Sound`. `Run` says that since the last star only literals were read, one character each.
`Hope` is what backtracking must not lose: if the pattern means the name, the last star can
still grow to a point from where the rest matches the rest. Taking a later star keeps
it by an exchange argument: whatever an earlier star would match beyond this point,
the later one can match instead. If the later star is a single one this must have no dot:
then the earlier one is single too, which is what `Simple` says and where `GlobComplete`
fails, and the literals between them bring no dot in (`NoDotBetween`).
`Trail` is the same for the loop over trailing stars. The cases where such an argument
looks for the first or the last character that an assignment sends somewhere use that a
non-empty set of natural numbers has a least element (`LeastElement`, from the
well-foundedness of `<`).

**What the proofs changed in the models.** A failed proof showed that a route removed from
one relay counted as removed from every relay (now `removed`, per relay), and
that a promise was looked up through the owner's current call where the code's callbacks
keep their own `shared_p`. Both are as in the code now.

**Only model-checked**: liveness (`CallsEnd`, `ShutdownEnds`, `ProducersNotStuck`,
`QuietFlushReturns`, `Terminates`, for which `TurnsLowerRank` is the safety half) and the
fair half of the refinement (`ImplementsFairDelivery`), because fairness is beyond the
prover.

## 5. Where code and documents disagree

Two runs exhibit a disagreement:

- `EventRegistryLost`: `add_descriptor()` (`serialization.hpp:62`) copies the current
  version under the shared lock and swaps later, so one of two overlapping
  registrations is lost, although line 28 says that the writer copies under a unique
  lock.
- `GlobComplete`: the matcher retries only the last star and gives up when a single
  star meets a dot (`glob.hpp:52`), so `**a*` does not match `a.a`, although line 8
  lets `**` match any sequence.

The passing runs state the strongest property found to hold. What the code, or a document,
would lead one to expect beyond it is left out of the property and listed here; none of
it is assumed away silently.

*Shutdown.* `README.md:222` says that `shutdown()` "flushes and detaches every transport".
`ShutdownCovers` says that of the transports it took and of what its caller had
dispatched, and of everything the application dispatched if no thread uses the bus
meanwhile. Not covered, because the code does not:

- A `publish()` that copied `transports_` before they were cleared (`bus.hpp:228`), on another
  thread or in a handler, dispatches to a transport that `shutdown()` has flushed and
  detached; its unit is left pending. A handler on the receiver of an adapter does this however
  orderly the application is, if the local transport is visited before the adapter.
- A transport attached while or after `shutdown()` runs is never detached (`bus.hpp:321`).
- A second `shutdown()` returns at once while the first still flushes (`bus.hpp:225`), and a
  `drain()` that starts then covers nothing. `Orderly = FALSE` in `RemoteSafe.cfg` breaks
  `DrainCoversOwn` in this way.
- Nothing in `detach()` or the destructor of nats and mqtt waits for a callback
  (`transports/nats/src/transport.cpp:57`, `transports/mqtt/src/transport.cpp:67`). It may run on when
  the sink, the handles and the bus are gone, unless the client library waits for it.
  `HandlersInLiveBus` is therefore about zmq and redis, which join their thread, and
  `HandlesOutliveUsers` and `NothingLeftBehind` leave such a callback of nats out.

*Attaching.* `README.md:560` says that `attach()` throws "if it cannot connect to the broker"
and line 597 that it "will block until it connects or fails". For mqtt the code ignores that a
wait expired, that of the connection and that of the SUBACK alike
(`transports/mqtt/src/transport.cpp:132`), so an attached transport may be unconnected,
connected by a late answer and never subscribed, or refused its subscription unnoticed; no
property says that an attached adapter receives. A refused subscription leaves the client
connected and the sink set, so `NothingLeftBehind` leaves mqtt out. A receiver thread that ends
on an error leaves `connected` set. When the thread cannot be created, zmq and redis throw from
outside their try block and leave the handles open and `connected` set (`NothingLeftBehind` is
about the other outcomes), and a second `attach()` of that zmq object waits for ever in the
termination of the old context.

*AMQP.* A `flush()` or `shutdown()` whose wait expires leaves a task that writes to a promise
on a dead stack frame (`transports/amqp/src/transport.cpp:330` and `641`). The run includes it,
and its properties hold around it, but that it never happens does not hold. A `close` task left
so runs after the next `attach()` and closes its connection. Delivery tags are not reset for a
new channel (`transports/amqp/src/transport.cpp:597`), and a throw of `emplace()` or
`publish()` comes after the tag was drawn (line 614): from then on the tags differ from the
broker's, and confirms resolve the wrong waiter or none. `ConfirmsMatch` is therefore about
tags in step. If the promise was moved before the throw, its caller waits for its timeout, even
across a connection error. `flush()` is best effort by its own comment: `FlushCovers` promises
nothing if the wait expires, as it does when a handler occupies the IO thread.

*Middleware.* `README.md:397` and `595` say that `NoMiddleware` skips the pipeline;
`run_on_error` calls `on_error` of every middleware all the same. `FailuresReachMiddleware` is
about the other envelopes.

*Listeners.* `README.md:703` lets `listen()` be called from any thread, but the first two concurrent
calls race on `self_alias_` (`bus.hpp:390`), which is undefined. `listener.hpp:122` says that
`EventSubscriber::on` forwards the subscriber's priority; it does not, so `CalledAsAsked` leaves
subscribers out.

*Envelopes.* A flag that the receiver has not registered is dropped on decode
(`envelope.hpp:299`), although `README.md:442` says that flags need no registration, line 476
that they survive across processes without it, and `flags.hpp:7` the like. `HopsPreserve` says
only that registered flags survive and none appears. The stamp of a core is read and written by
overlapping calls without a lock (`bus.hpp:403`), a data race; `StampsOverlap` says which
stamps can be sent if each access is atomic.

*Back-pressure.* `HandlerCalls` with `"dispatch"` in `LocalLive.cfg` breaks liveness: a handler
on the only worker of a full queue waits for the slot it occupies. Likewise `flush()` ends only
when publishing stops, not with "the current backlog" of `README.md:587`.

Read off the models, and not checked as properties: an envelope that is both vetoed
and in conflict counts as dropped twice (`bus.hpp:420` and `444`); `after_dispatch` of a pool
transport may precede the listeners (`bus.hpp:471`); a `LocalOnly` flag set by a middleware
comes too late for the routing (`bus.hpp:399`); a second `build()` of one builder lacks the
default flags; the outcome of an AMQP confirm is ignored by `dispatch()`; two publishers may
be inside `send()` of one ZeroMQ socket, which is not thread safe, although `README.md:703`
lets any thread publish; zmq, redis and nats swallow failed publishes that `README.md:711`
says reach `on_error`; zmq and nats drop an empty payload without a report.

## 6. Abstractions, and what is not modelled

- Payloads, metadata and names are opaque: `Matching` says which listeners match, and
  `Glob` treats matching by itself. Error replies to malformed input are not modelled.
- The thread pool, condition variables, promises, the prioritized container, AMQP-CPP,
  the four client libraries and the brokers are external and modelled from their use.
- Of the adapters' options, credentials and TLS, what remains is that setting up may fail.
  A send may fail in any way, since the bus goes on alike. `flush()` of nats is a bounded wait that changes
  nothing; that of the other three is empty. Handlers on a receiver publish, and do not
  call `shutdown()` themselves, which would join the thread they run on.
- Data races: of the one on `self_alias_` the model has the outcomes that the program
  survives; of the one on stamps, the clock is read and the stamp stored in separate steps, and
  each store and each encoding is taken to be atomic.
- After a write to a dead stack frame the IO thread of the AMQP transport goes on or stops
  for good; what else such a write may do is not modelled.
- Not modelled: the EventTypeRegistry (single critical sections), metrics beyond the
  three counters the bus modules carry, exceptions, build files and examples.

## 7. Plan

Modelled are the local transport, the bus pipeline and life cycle, registration, the
relay and the filter, the registry, the envelope, the matcher and all five broker adapters.
Every safety property that a run checks is proved. What is left is a composition of
`BusLifecycle` with `LocalTransport` in place of its pending counts.
