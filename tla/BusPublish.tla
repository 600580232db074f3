----------------------------- MODULE BusPublish -----------------------------
(***************************************************************************)
(* The publish pipeline of conduit::Bus (include/conduit/bus.hpp):         *)
(* publish_impl(), deliver_to_listeners() and run_on_error(), running      *)
(* concurrently with one another and with the registration calls           *)
(* use_middleware(), use_transport(), listen() and release().  Transports  *)
(* may be wrapped in a FilteredTransport, whose predicates may refuse an   *)
(* envelope on its way out and on its way back in; a relay::Transport has  *)
(* callbacks (routes) of its own in place of the listeners of the bus.     *)
(*                                                                         *)
(* Each call to publish() is an actor of its own.  mu_ is held only to     *)
(* copy or to change one container, so every such copy is one step; all    *)
(* callbacks (middleware, dispatch(), handlers) run between those steps,   *)
(* on copies that other threads may already have made stale.               *)
(***************************************************************************)
EXTENDS Integers, FiniteSets, SequencesExt

CONSTANTS
    Calls,          \* invocations of Bus::publish
    FlagSets,       \* the flag sets envelopes are published with
    Middleware, Transports, Listeners,   \* what may be registered
    Routes,         \* what may be added to a relay
    Priority,       \* comms::Prioritized: priority of middleware, transports, listeners
    Kind,           \* "inline" | "async" | "remote" | "relay", per transport
    Filtered,       \* transports wrapped with predicates that may refuse
    Matching,       \* listeners and routes whose name or pattern matches the event
    MayVeto,        \* middleware whose before_dispatch may return false
    MayThrow,       \* middleware, transports, listeners and routes that may throw
    MayMark,        \* middleware that may set LocalOnly on the envelope
    Fallback        \* the site of the inline fan-out of a bus with no transport

Flags == {"LocalOnly", "RemoteOnly", "NoMiddleware"}
Sites == Transports \cup {Fallback}
Relays == {t \in Transports : Kind[t] = "relay"}
Scope(t) == IF Kind[t] = "remote" THEN "Remote" ELSE "Local"

ASSUME FlagsAssumption == FlagSets \subseteq SUBSET Flags
ASSUME TransportsAssumption ==
    /\ Kind \in [Transports -> {"inline", "async", "remote", "relay"}]
    /\ Filtered \subseteq Transports
    /\ Fallback \notin Transports
    /\ Relays \cap MayThrow = {}   \* relay::Transport::dispatch swallows everything
ASSUME ListenersAssumption ==
    /\ Matching \subseteq Listeners \cup Routes
    /\ Relays # {} => Routes # {}   \* a relay is constructed with a route
ASSUME PriorityAssumption == Priority \in [Middleware \cup Transports \cup Listeners -> Int]
ASSUME CallbacksAssumption == MayVeto \cup MayMark \subseteq Middleware

VARIABLES
    middleware,     \* middleware_, in dispatch order
    transports,     \* transports_, in dispatch order
    listeners,      \* listeners_, in dispatch order
    routes,         \* routes_ of each relay, in insertion order
    gone,           \* listeners released
    removed,        \* routes removed from each relay
    call,           \* the local variables of each publish_impl() invocation
    fan,            \* each deliver_to_listeners() invocation, per call and site
    published,      \* conduit_events_published_total
    dropped,        \* conduit_events_dropped_total
    hist            \* history of each call, read only by the properties

registries == <<middleware, transports, listeners, routes, gone, removed>>
vars == <<registries, call, fan, published, dropped, hist>>

RangeOf(s) == {s[i] : i \in 1..Len(s)}

\* comms::PrioritizedSet::insert: before the first of a higher priority, so
\* behind its equals.  A sequence in order has exactly one such place.
Insert(s, x) ==
    {InsertAt(s, n, x) : n \in {m \in 1..Len(s) + 1 :
        /\ \A i \in 1..m - 1 : Priority[s[i]] <= Priority[x]
        /\ \A i \in m..Len(s) : Priority[s[i]] > Priority[x]}}

\* The loops that erase the entry with a given id.
Erase(s, x) == {RemoveAt(s, n) : n \in {m \in 1..Len(s) : s[m] = x}}

NotYet == [at |-> "idle", flags |-> {}, local_only |-> FALSE, remote_only |-> FALSE,
           mws |-> <<>>, k |-> 1, ts |-> <<>>, proceed |-> TRUE]
NoFan == [st |-> "none", todo |-> <<>>, heard |-> <<>>]
NoHist == [live |-> [s \in Sites |-> {}], gone |-> [s \in Sites |-> {}], known |-> {}, vetoed |-> FALSE,
           failed |-> FALSE, before |-> <<>>, after |-> <<>>, sent |-> {}, refused |-> {}, told |-> {}]

Init ==
    /\ middleware = <<>> /\ transports = <<>> /\ listeners = <<>> /\ gone = {}
    /\ routes = [t \in Relays |-> <<CHOOSE r \in Routes : TRUE>>]
    /\ removed = [t \in Relays |-> {}]
    /\ call = [c \in Calls |-> NotYet]
    /\ fan = [c \in Calls |-> [s \in Sites |-> NoFan]]
    /\ published = 0 /\ dropped = 0
    /\ hist = [c \in Calls |-> NoHist]

-----------------------------------------------------------------------------
(* Registration, each under mu_ *)

UseMiddleware(m) ==
    /\ m \notin RangeOf(middleware)
    /\ middleware' \in Insert(middleware, m)
    /\ UNCHANGED <<transports, listeners, routes, gone, removed, call, fan, published, dropped, hist>>

UseTransport(t) ==
    /\ t \notin RangeOf(transports)
    /\ transports' \in Insert(transports, t)
    /\ UNCHANGED <<middleware, listeners, routes, gone, removed, call, fan, published, dropped, hist>>

\* Subscription ids are never reused: a released listener does not come back.
Listen(l) ==
    /\ l \notin RangeOf(listeners) \cup gone
    /\ listeners' \in Insert(listeners, l)
    /\ UNCHANGED <<middleware, transports, routes, gone, removed, call, fan, published, dropped, hist>>

Release(l) ==
    /\ l \in RangeOf(listeners)
    /\ listeners' \in Erase(listeners, l)
    /\ gone' = gone \cup {l}
    /\ UNCHANGED <<middleware, transports, routes, removed, call, fan, published, dropped, hist>>

\* relay::Transport::add_route(): route ids are never reused either.
AddRoute(t, r) ==
    /\ r \notin RangeOf(routes[t]) \cup removed[t]
    /\ routes' = [routes EXCEPT ![t] = Append(@, r)]
    /\ UNCHANGED <<middleware, transports, listeners, gone, removed, call, fan, published, dropped,
                   hist>>

RemoveRoute(t, r) ==
    /\ r \in RangeOf(routes[t])
    /\ routes' \in {[routes EXCEPT ![t] = q] : q \in Erase(routes[t], r)}
    /\ removed' = [removed EXCEPT ![t] = @ \cup {r}]
    /\ UNCHANGED <<middleware, transports, listeners, gone, call, fan, published, dropped, hist>>

\* Those a fan-out at site s calls: the routes of a relay, or the listeners.
Audience(s) == IF s \in Relays THEN routes[s] ELSE listeners
Departed(s) == IF s \in Relays THEN removed[s] ELSE gone

-----------------------------------------------------------------------------
(* publish_impl() *)

At(c) == call[c].at

\* The scope flags are read once, then the middleware is copied.
Publish(c, F) ==
    /\ At(c) = "idle"
    /\ published' = published + 1
    /\ call' = [call EXCEPT ![c] =
           [@ EXCEPT !.at = "before", !.flags = F,
                     !.local_only = "LocalOnly" \in F, !.remote_only = "RemoteOnly" \in F,
                     !.mws = IF "NoMiddleware" \in F THEN <<>> ELSE middleware]]
    /\ hist' = [hist EXCEPT ![c].live = [s \in Sites |-> RangeOf(Audience(s))],
                            ![c].gone = [s \in Sites |-> Departed(s)],
                            ![c].known = RangeOf(middleware)]
    /\ UNCHANGED <<registries, fan, dropped>>

Current(c) == call[c].mws[call[c].k]
InBefore(c) == At(c) = "before" /\ call[c].k <= Len(call[c].mws)

\* before_dispatch returned true; it may also have changed the envelope.
BeforeOk(c) ==
    /\ InBefore(c)
    /\ \E F \in {call[c].flags} \cup
                (IF Current(c) \in MayMark THEN {call[c].flags \cup {"LocalOnly"}} ELSE {}) :
          call' = [call EXCEPT ![c].k = @ + 1, ![c].flags = F]
    /\ hist' = [hist EXCEPT ![c].before = Append(@, Current(c))]
    /\ UNCHANGED <<registries, fan, published, dropped>>

\* before_dispatch threw: its own on_error is told, and the loop goes on.
BeforeThrow(c) ==
    /\ InBefore(c) /\ Current(c) \in MayThrow
    /\ call' = [call EXCEPT ![c].k = @ + 1]
    /\ hist' = [hist EXCEPT ![c].before = Append(@, Current(c)),
                            ![c].told = @ \cup {Current(c)}]
    /\ UNCHANGED <<registries, fan, published, dropped>>

\* Variant: the veto leaves the loop but not the pipeline.
BeforeVetoProceeds(c) ==
    /\ InBefore(c) /\ Current(c) \in MayVeto
    /\ call' = [call EXCEPT ![c].at = "snapshot"]
    /\ dropped' = dropped + 1
    /\ hist' = [hist EXCEPT ![c].before = Append(@, Current(c)), ![c].vetoed = TRUE]
    /\ UNCHANGED <<registries, fan, published>>

BeforeVeto(c) ==
    /\ InBefore(c) /\ Current(c) \in MayVeto
    /\ call' = [call EXCEPT ![c].at = "snapshot", ![c].proceed = FALSE]
    /\ dropped' = dropped + 1
    /\ hist' = [hist EXCEPT ![c].before = Append(@, Current(c)), ![c].vetoed = TRUE]
    /\ UNCHANGED <<registries, fan, published>>

BeforeDone(c) ==
    /\ At(c) = "before" /\ call[c].k > Len(call[c].mws)
    /\ call' = [call EXCEPT ![c].at = "snapshot"]
    /\ UNCHANGED <<registries, fan, published, dropped, hist>>

Snapshot(c) ==
    /\ At(c) = "snapshot"
    /\ call' = [call EXCEPT ![c].ts = transports, ![c].k = 1,
                            ![c].at = IF call[c].local_only /\ call[c].remote_only
                                      THEN "conflict" ELSE "route"]
    /\ UNCHANGED <<registries, fan, published, dropped, hist>>

\* Variant: an on_error that throws ends the loop.
ToldUntilThrow(c) ==
    LET reached == {i \in 1..Len(middleware) : \A j \in 1..i - 1 : middleware[j] \notin MayThrow}
    IN  [hist EXCEPT ![c].told = @ \cup {middleware[i] : i \in reached}, ![c].failed = TRUE]

\* run_on_error(): every middleware registered now is told, whatever the flags
\* and whatever the others' on_error throws.
Told(c) == [hist EXCEPT ![c].told = @ \cup RangeOf(middleware), ![c].failed = TRUE]

Conflict(c) ==
    /\ At(c) = "conflict"
    /\ call' = [call EXCEPT ![c].at = "route", ![c].proceed = FALSE]
    /\ dropped' = dropped + 1
    /\ hist' = Told(c)
    /\ UNCHANGED <<registries, fan, published>>

Routing(c) == At(c) = "route" /\ call[c].proceed /\ call[c].k <= Len(call[c].ts)
Target(c) == call[c].ts[call[c].k]
\* Variant: the RemoteOnly test is missing.
InScopeLocalOnly(c) == call[c].local_only => Scope(Target(c)) = "Local"

InScope(c) ==
    /\ call[c].local_only => Scope(Target(c)) = "Local"
    /\ call[c].remote_only => Scope(Target(c)) = "Remote"

\* Variant: a skipped transport is not stepped over.
RouteSkipStays(c) ==
    /\ Routing(c) /\ ~InScope(c)
    /\ UNCHANGED vars

RouteSkip(c) ==
    /\ Routing(c) /\ ~InScope(c)
    /\ call' = [call EXCEPT ![c].k = @ + 1]
    /\ UNCHANGED <<registries, fan, published, dropped, hist>>

\* Variant: a predicate that throws is reported like a dispatch() that does.
RouteFilteredReported(c) ==
    /\ Routing(c) /\ InScope(c) /\ Target(c) \in Filtered
    /\ call' = [call EXCEPT ![c].k = @ + 1]
    /\ hist' = [hist EXCEPT ![c].refused = @ \cup {Target(c)},
                            ![c].told = @ \cup RangeOf(middleware)]
    /\ UNCHANGED <<registries, fan, published, dropped>>

\* FilteredTransport::dispatch(): the outbound predicate returned false or threw.
RouteFiltered(c) ==
    /\ Routing(c) /\ InScope(c) /\ Target(c) \in Filtered
    /\ call' = [call EXCEPT ![c].k = @ + 1]
    /\ hist' = [hist EXCEPT ![c].refused = @ \cup {Target(c)}]
    /\ UNCHANGED <<registries, fan, published, dropped>>

\* t->dispatch(): an inline transport and a relay fan out on this thread, an
\* asynchronous one leaves a job for its pool, a remote one takes the envelope away.
RouteDispatch(c) ==
    /\ Routing(c) /\ InScope(c)
    /\ hist' = [hist EXCEPT ![c].sent = @ \cup {<<Target(c), call[c].flags>>}]
    /\ fan' = IF Kind[Target(c)] = "remote" THEN fan
              ELSE [fan EXCEPT ![c][Target(c)].st = "pending"]
    /\ call' = IF Kind[Target(c)] \in {"inline", "relay"} THEN [call EXCEPT ![c].at = "wait"]
               ELSE [call EXCEPT ![c].k = @ + 1]
    /\ UNCHANGED <<registries, published, dropped>>

RouteThrow(c) ==
    /\ Routing(c) /\ InScope(c) /\ Target(c) \in MayThrow
    /\ call' = [call EXCEPT ![c].k = @ + 1]
    /\ hist' = Told(c)
    /\ UNCHANGED <<registries, fan, published, dropped>>

InlineReturn(c) ==
    /\ At(c) = "wait" /\ fan[c][Target(c)].st = "done"
    /\ call' = [call EXCEPT ![c].at = "route", ![c].k = @ + 1]
    /\ UNCHANGED <<registries, fan, published, dropped, hist>>

\* No transport was registered: fan out on this thread.
RouteFallback(c) ==
    /\ At(c) = "route" /\ call[c].proceed /\ call[c].ts = <<>> /\ ~call[c].remote_only
    /\ fan[c][Fallback].st = "none"
    /\ fan' = [fan EXCEPT ![c][Fallback].st = "pending"]
    /\ UNCHANGED <<registries, call, published, dropped, hist>>

RouteDone(c) ==
    /\ At(c) = "route"
    /\ call[c].proceed => /\ call[c].k > Len(call[c].ts)
                          /\ \/ call[c].ts # <<>> \/ call[c].remote_only
                             \/ fan[c][Fallback].st = "done"
    /\ call' = [call EXCEPT ![c].at = "after", ![c].k = Len(call[c].mws)]
    /\ UNCHANGED <<registries, fan, published, dropped, hist>>

\* Variant: after_dispatch runs on the middleware registered by now.
AfterFresh(c) ==
    /\ At(c) = "after" /\ call[c].k > 0
    /\ call' = [call EXCEPT ![c].k = @ - 1]
    /\ hist' = [hist EXCEPT ![c].after = Append(@, middleware[call[c].k])]
    /\ UNCHANGED <<registries, fan, published, dropped>>

\* after_dispatch, in reverse over the whole copy; a throw reaches only its own
\* middleware's on_error.
After(c) ==
    /\ At(c) = "after" /\ call[c].k > 0
    /\ call' = [call EXCEPT ![c].k = @ - 1]
    /\ \E threw \in IF Current(c) \in MayThrow THEN BOOLEAN ELSE {FALSE} :
          hist' = [hist EXCEPT ![c].after = Append(@, Current(c)),
                               ![c].told = IF threw THEN @ \cup {Current(c)} ELSE @]
    /\ UNCHANGED <<registries, fan, published, dropped>>

Return(c) ==
    /\ At(c) = "after" /\ call[c].k = 0
    /\ call' = [call EXCEPT ![c].at = "done"]
    /\ UNCHANGED <<registries, fan, published, dropped, hist>>

-----------------------------------------------------------------------------
(* deliver_to_listeners(), and the same loop in relay::Transport::dispatch() *)

\* The inbound predicate of a FilteredTransport returned false or threw: the
\* sink never reaches the bus.  A relay has no inbound leg.
FanFiltered(c, s) ==
    /\ fan[c][s].st = "pending" /\ s \in Filtered \ Relays
    /\ fan' = [fan EXCEPT ![c][s].st = "done"]
    /\ hist' = [hist EXCEPT ![c].refused = @ \cup {s}]
    /\ UNCHANGED <<registries, call, published, dropped>>

\* Variant: the copy is walked from its end.
FanStartReversed(c, s) ==
    /\ fan[c][s].st = "pending"
    /\ fan' = [fan EXCEPT ![c][s].st = "running",
                          ![c][s].todo = [i \in 1..Len(Audience(s)) |->
                                              Audience(s)[Len(Audience(s)) + 1 - i]]]
    /\ UNCHANGED <<registries, call, published, dropped, hist>>

FanStart(c, s) ==
    /\ fan[c][s].st = "pending"
    /\ fan' = [fan EXCEPT ![c][s].st = "running", ![c][s].todo = Audience(s)]
    /\ UNCHANGED <<registries, call, published, dropped, hist>>

FanStep(c, s) == fan[c][s].st = "running" /\ fan[c][s].todo # <<>>

FanSkip(c, s) ==
    /\ FanStep(c, s) /\ Head(fan[c][s].todo) \notin Matching
    /\ fan' = [fan EXCEPT ![c][s].todo = Tail(@)]
    /\ UNCHANGED <<registries, call, published, dropped, hist>>

\* What a throw of the callee leaves behind: deliver_to_listeners() reports it
\* to the middleware, a relay swallows it.
Reported(c, s) == IF s \in Relays THEN hist ELSE Told(c)

\* Variant: a handler that throws ends the fan-out.
FanInvokeStops(c, s) ==
    /\ FanStep(c, s) /\ Head(fan[c][s].todo) \in Matching
    /\ \E threw \in IF Head(fan[c][s].todo) \in MayThrow THEN BOOLEAN ELSE {FALSE} :
          /\ hist' = IF threw THEN Reported(c, s) ELSE hist
          /\ fan' = [fan EXCEPT ![c][s].todo = IF threw THEN <<>> ELSE Tail(@),
                                ![c][s].heard = Append(@, Head(fan[c][s].todo))]
    /\ UNCHANGED <<registries, call, published, dropped>>

FanInvoke(c, s) ==
    /\ FanStep(c, s) /\ Head(fan[c][s].todo) \in Matching
    /\ fan' = [fan EXCEPT ![c][s].todo = Tail(@),
                          ![c][s].heard = Append(@, Head(fan[c][s].todo))]
    /\ \E threw \in IF Head(fan[c][s].todo) \in MayThrow THEN BOOLEAN ELSE {FALSE} :
          hist' = IF threw THEN Reported(c, s) ELSE hist
    /\ UNCHANGED <<registries, call, published, dropped>>

FanEnd(c, s) ==
    /\ fan[c][s].st = "running" /\ fan[c][s].todo = <<>>
    /\ fan' = [fan EXCEPT ![c][s].st = "done"]
    /\ UNCHANGED <<registries, call, published, dropped, hist>>

-----------------------------------------------------------------------------
Register ==
    \/ \E m \in Middleware : UseMiddleware(m)
    \/ \E t \in Transports : UseTransport(t)
    \/ \E l \in Listeners : Listen(l) \/ Release(l)
    \/ \E t \in Relays, r \in Routes : AddRoute(t, r) \/ RemoveRoute(t, r)

Step(c) ==
    \/ BeforeOk(c) \/ BeforeThrow(c) \/ BeforeVeto(c) \/ BeforeDone(c)
    \/ Snapshot(c) \/ Conflict(c)
    \/ RouteSkip(c) \/ RouteFiltered(c) \/ RouteDispatch(c) \/ RouteThrow(c)
    \/ InlineReturn(c) \/ RouteFallback(c) \/ RouteDone(c)
    \/ After(c) \/ Return(c)

FanOut(c, s) ==
    \/ FanFiltered(c, s) \/ FanStart(c, s)
    \/ FanSkip(c, s) \/ FanInvoke(c, s) \/ FanEnd(c, s)

Next ==
    \/ Register
    \/ \E c \in Calls : Step(c) \/ (\E F \in FlagSets : Publish(c, F))
                                \/ (\E s \in Sites : FanOut(c, s))

Spec == Init /\ [][Next]_vars

\* Callbacks return and pool workers run; nobody is obliged to publish.
FairSpec ==
    /\ Spec
    /\ \A c \in Calls : WF_vars(Step(c)) /\ \A s \in Sites : WF_vars(FanOut(c, s))

-----------------------------------------------------------------------------
(* Properties *)

\* An envelope that a middleware vetoed, or whose flags conflict, reaches no
\* transport and no listener, on this thread or any other.
DroppedGoesNowhere ==
    \A c \in Calls :
        hist[c].vetoed \/ (call[c].local_only /\ call[c].remote_only)
            => hist[c].sent = {} /\ \A s \in Sites : fan[c][s].st = "none"

\* The routing matrix of publish_impl: an envelope published LocalOnly is never
\* handed to a Remote transport, one published RemoteOnly reaches neither a
\* Local transport nor the inline fallback.
RoutingMatrix ==
    \A c \in Calls :
        /\ call[c].local_only => \A x \in hist[c].sent : Scope(x[1]) = "Local"
        /\ call[c].remote_only => /\ \A x \in hist[c].sent : Scope(x[1]) = "Remote"
                                  /\ fan[c][Fallback].st = "none"

\* Fan-out works on a copy of the listeners (or of the routes of a relay), yet
\* loses nobody and revives nobody: one that matches, was registered before
\* publish() and still is at the end of a fan-out that no filter refused, was
\* invoked by it exactly once, even if others threw; one released before
\* publish() is never invoked for it; and nobody hears what a filter refused.
Times(x, s) == Cardinality({i \in 1..Len(s) : s[i] = x})
FanOutExact ==
    \A c \in Calls, s \in Sites :
        /\ fan[c][s].st = "done" /\ s \notin hist[c].refused =>
              \A l \in Matching \cap hist[c].live[s] \cap RangeOf(Audience(s)) :
                  Times(l, fan[c][s].heard) = 1
        /\ RangeOf(fan[c][s].heard) \cap hist[c].gone[s] = {}
        /\ s \in hist[c].refused => fan[c][s].heard = <<>>

\* Handlers run in priority order, whatever was registered or released while
\* the fan-out was running.
PriorityOrder ==
    \A c \in Calls, s \in Sites \ Relays : LET h == fan[c][s].heard IN
        \A i, j \in 1..Len(h) : i < j => Priority[h[i]] <= Priority[h[j]]

\* after_dispatch mirrors before_dispatch: a completed call has run it, in
\* reverse, on exactly the middleware it copied, which is all that
\* before_dispatch ran on and nothing registered since.
AfterMirrorsBefore ==
    \A c \in Calls : At(c) = "done" =>
        LET b == hist[c].before  a == hist[c].after  m == call[c].mws IN
            /\ Len(a) = Len(m) /\ \A i \in 1..Len(a) : a[i] = m[Len(m) + 1 - i]
            /\ Len(b) <= Len(m) /\ \A i \in 1..Len(b) : b[i] = m[i]
            /\ Len(b) < Len(m) => hist[c].vetoed

\* Whatever throws or vetoes, every publish() returns and every fan-out it
\* started ends, on its own thread or on a pool.
CallsEnd ==
    \A c \in Calls :
        /\ At(c) # "idle" ~> At(c) = "done"
        /\ \A s \in Sites : fan[c][s].st = "pending" ~> fan[c][s].st = "done"

\* "The dispatch attempt is caught and surfaced through Middleware::on_error": a
\* conflict, a dispatch() or a handler that threw is reported to every
\* middleware that was registered before the call, on whichever thread it
\* happened and whatever other middleware throws.  Calls that skip middleware
\* are left out: what the documents say of them is not what the code does.
FailuresReachMiddleware ==
    \A c \in Calls : hist[c].failed /\ "NoMiddleware" \notin call[c].flags
                        => hist[c].known \subseteq hist[c].told

\* A refusal is no failure: if neither flags nor dispatch() nor a handler
\* failed, on_error is called of nobody but a middleware that threw itself, even
\* if a predicate of a FilteredTransport did ("treated the same as one that
\* returned false", on both legs).
RefusalsAreSilent ==
    \A c \in Calls : ~hist[c].failed => hist[c].told \subseteq MayThrow
=============================================================================
