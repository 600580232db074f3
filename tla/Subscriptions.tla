---------------------------- MODULE Subscriptions ----------------------------
(***************************************************************************)
(* Listener registration of conduit::Bus and its RAII handles:             *)
(* register_listener_for_name(), shared_from_this_safe(), release() and    *)
(* ~Bus() (include/conduit/bus.hpp), Subscription and EventSubscriber::on  *)
(* (include/conduit/listener.hpp).                                         *)
(*                                                                         *)
(* A handle is used by one thread at a time, so an operation on a handle   *)
(* is one step; listen() is several, because only the insertion into       *)
(* listeners_ is under mu_.                                                *)
(***************************************************************************)
EXTENDS Integers, FiniteSets, SequencesExt

CONSTANTS
    Threads,
    Handles,        \* Subscription objects
    OwnerOf,        \* the thread that uses each handle
    Routes,         \* how listeners are registered: see Route
    Own,            \* priority() of the listener and of the subscriber object
    Passed,         \* the priorities that callers pass
    Default,        \* comms::Prioritized::DEFAULT_PRIORITY
    MaxId           \* bound on the number of listen() calls

\* listen() with a lambda, with a shared_ptr<EventListener>, or through
\* EventSubscriber::on().
Route == {"lambda", "listener", "subscriber"}

ASSUME HandlesAssumption == OwnerOf \in [Handles -> Threads]
ASSUME FiniteAssumption == IsFiniteSet(Threads) /\ IsFiniteSet(Handles)
ASSUME RoutesAssumption ==
    /\ Routes \subseteq Route /\ Own \in [{"listener", "subscriber"} -> Int]
    /\ Passed \subseteq Int /\ Default \in Int
ASSUME BoundAssumption == MaxId \in Nat

VARIABLES
    next_id,        \* next_id_, atomic
    listeners,      \* listeners_, in dispatch order: id and priority and, as
                    \* history, route, Asked and the listeners it came after
    gauge,          \* conduit_listeners
    alias,          \* self_alias_ has been created
    alive,          \* the bus has not been destroyed
    pc, reg,        \* per thread: where in listen(), and the entry it registers
    handle,         \* Subscription objects: id_, active_, backref_ # nullptr
    detached        \* ids whose handle was detach()ed (history)

vars == <<next_id, listeners, gauge, alias, alive, pc, reg, handle, detached>>

Empty == [id |-> 0, active |-> FALSE, backref |-> FALSE]
NoEntry == [id |-> 0, priority |-> Default, route |-> "lambda", asked |-> Default, after |-> {}]

Init ==
    /\ next_id = 0 /\ listeners = <<>> /\ gauge = 0 /\ detached = {}
    /\ alias = FALSE /\ alive = TRUE
    /\ pc = [t \in Threads |-> "idle"]
    /\ reg = [t \in Threads |-> NoEntry]
    /\ handle = [h \in Handles |-> Empty]

Ids == {listeners[i].id : i \in 1..Len(listeners)}

-----------------------------------------------------------------------------
(* listen() *)

\* Variant: the handler object's own priority wins.
EffectivePriorityOwn(route, explicit) == IF route = "listener" THEN Own[route] ELSE explicit

\* derive_listener_priority(): an explicit priority wins, otherwise the
\* handler object's own.  EventSubscriber::on() passes a lambda and no priority.
EffectivePriority(route, explicit) ==
    IF explicit = Default /\ route = "listener" THEN Own[route] ELSE explicit

\* A subscriber's on() has no priority parameter; an explicit Default is none.
Explicit(route) == IF route = "subscriber" THEN {Default} ELSE Passed \cup {Default}

\* The priority that the headers promise: the explicit one, otherwise that of
\* the listener or of the subscriber, otherwise the default.
Asked(route, explicit) ==
    IF explicit = Default /\ route # "lambda" THEN Own[route] ELSE explicit

Listen(t, route, explicit) ==
    /\ alive /\ pc[t] = "idle" /\ next_id < MaxId
    /\ next_id' = next_id + 1
    /\ reg' = [reg EXCEPT ![t] = [id |-> next_id + 1, route |-> route,
                                  priority |-> EffectivePriority(route, explicit),
                                  asked |-> Asked(route, explicit), after |-> Ids]]
    /\ pc' = [pc EXCEPT ![t] = "insert"]
    /\ UNCHANGED <<listeners, gauge, alias, alive, handle, detached>>

\* Variant: a listener goes in front of those of its own priority.
InsertEntryFirst(t) ==
    /\ pc[t] = "insert"
    /\ \E n \in 1..Len(listeners) + 1 :
          /\ \A i \in 1..n - 1 : listeners[i].priority < reg[t].priority
          /\ \A i \in n..Len(listeners) : listeners[i].priority >= reg[t].priority
          /\ listeners' = InsertAt(listeners, n, reg[t])
    /\ pc' = [pc EXCEPT ![t] = "count"]
    /\ UNCHANGED <<next_id, gauge, alias, alive, reg, handle, detached>>

\* listeners_.insert() under mu_: before the first entry of a higher priority,
\* so behind those of its own.
InsertEntry(t) ==
    /\ pc[t] = "insert"
    /\ \E n \in 1..Len(listeners) + 1 :
          /\ \A i \in 1..n - 1 : listeners[i].priority <= reg[t].priority
          /\ \A i \in n..Len(listeners) : listeners[i].priority > reg[t].priority
          /\ listeners' = InsertAt(listeners, n, reg[t])
    /\ pc' = [pc EXCEPT ![t] = "count"]
    /\ UNCHANGED <<next_id, gauge, alias, alive, reg, handle, detached>>

Count(t) ==
    /\ pc[t] = "count"
    /\ gauge' = gauge + 1
    /\ pc' = [pc EXCEPT ![t] = "alias"]
    /\ UNCHANGED <<next_id, listeners, alias, alive, reg, handle, detached>>

\* shared_from_this_safe() reads self_alias_, and writes it the first time, with
\* no lock held.  Two first calls race here; an outcome of that race in which
\* the program survives gives each of them a pointer to the bus.
Alias(t) ==
    /\ pc[t] = "alias"
    /\ alias' = TRUE
    /\ pc' = [pc EXCEPT ![t] = "assign"]
    /\ UNCHANGED <<next_id, listeners, gauge, alive, reg, handle, detached>>

-----------------------------------------------------------------------------
(* Subscription *)

\* Bus::release(): erase the first entry with the id and balance the gauge.
BusRelease(id) ==
    IF id \in Ids
    THEN /\ \E n \in 1..Len(listeners) :
               /\ listeners[n].id = id /\ \A i \in 1..n - 1 : listeners[i].id # id
               /\ listeners' = RemoveAt(listeners, n)
         /\ gauge' = gauge - 1
    ELSE UNCHANGED <<listeners, gauge>>

\* Subscription::release() without its final reset.
ReleaseHeld(h) ==
    IF handle[h].active /\ handle[h].backref THEN BusRelease(handle[h].id)
    ELSE UNCHANGED <<listeners, gauge>>

Usable(h) == alive /\ pc[OwnerOf[h]] = "idle"

\* Variant: move-assignment forgets what the handle held.
AssignLeaks(h) ==
    /\ pc[OwnerOf[h]] = "assign"
    /\ handle' = [handle EXCEPT ![h] = [id |-> reg[OwnerOf[h]].id, active |-> TRUE,
                                        backref |-> TRUE]]
    /\ pc' = [pc EXCEPT ![OwnerOf[h]] = "idle"]
    /\ reg' = [reg EXCEPT ![OwnerOf[h]] = NoEntry]
    /\ UNCHANGED <<next_id, listeners, gauge, alias, alive, detached>>

\* h = bus.listen(...): what h held is released, then it takes the temporary.
Assign(h) ==
    /\ pc[OwnerOf[h]] = "assign"
    /\ ReleaseHeld(h)
    /\ handle' = [handle EXCEPT ![h] = [id |-> reg[OwnerOf[h]].id, active |-> TRUE,
                                        backref |-> TRUE]]
    /\ pc' = [pc EXCEPT ![OwnerOf[h]] = "idle"]
    /\ reg' = [reg EXCEPT ![OwnerOf[h]] = NoEntry]
    /\ UNCHANGED <<next_id, alias, alive, detached>>

\* h = std::move(g), g = h included.
Move(g, h) ==
    /\ Usable(h) /\ OwnerOf[g] = OwnerOf[h]
    /\ IF g = h THEN UNCHANGED <<listeners, gauge, handle>>
       ELSE /\ ReleaseHeld(h)
            /\ handle' = [handle EXCEPT ![h] = handle[g],
                                        ![g] = [@ EXCEPT !.active = FALSE, !.backref = FALSE]]
    /\ UNCHANGED <<next_id, alias, alive, pc, reg, detached>>

\* release() or the destructor; either may come again.
Release(h) ==
    /\ Usable(h)
    /\ ReleaseHeld(h)
    /\ handle' = [handle EXCEPT ![h] = [@ EXCEPT !.active = FALSE, !.backref = FALSE]]
    /\ UNCHANGED <<next_id, alias, alive, pc, reg, detached>>

\* detach(): the listener stays registered until the bus dies.
Detach(h) ==
    /\ Usable(h)
    /\ handle' = [handle EXCEPT ![h] = [@ EXCEPT !.active = FALSE, !.backref = FALSE]]
    /\ detached' = IF handle[h].active THEN detached \cup {handle[h].id} ELSE detached
    /\ UNCHANGED <<next_id, listeners, gauge, alias, alive, pc, reg>>

\* Variant: the gauge is not balanced for the listeners that are left.
DestroyBusUnbalanced ==
    /\ alive /\ \A t \in Threads : pc[t] = "idle"
    /\ \A h \in Handles : ~handle[h].active
    /\ alive' = FALSE
    /\ listeners' = <<>>
    /\ UNCHANGED <<next_id, gauge, alias, pc, reg, handle, detached>>

\* ~Bus() balances the gauge for whoever is left; no handle outlives the bus.
DestroyBus ==
    /\ alive /\ \A t \in Threads : pc[t] = "idle"
    /\ \A h \in Handles : ~handle[h].active
    /\ alive' = FALSE
    /\ gauge' = gauge - Len(listeners)
    /\ listeners' = <<>>
    /\ UNCHANGED <<next_id, alias, pc, reg, handle, detached>>

-----------------------------------------------------------------------------
Next ==
    \/ \E t \in Threads :
          \/ \E r \in Routes : \E x \in Explicit(r) : Listen(t, r, x)
          \/ InsertEntry(t) \/ Count(t) \/ Alias(t)
    \/ \E h \in Handles : Assign(h) \/ Release(h) \/ Detach(h) \/ (\E g \in Handles : Move(g, h))
    \/ DestroyBus

Spec == Init /\ [][Next]_vars

-----------------------------------------------------------------------------
(* Properties *)

\* The state has its declared types, among them the listeners gauge.
TypeOK ==
    /\ next_id \in 0..MaxId /\ gauge \in Int
    /\ alias \in BOOLEAN /\ alive \in BOOLEAN
    /\ listeners \in Seq([id : 1..MaxId, priority : Int, route : Route, asked : Int,
                         after : SUBSET (1..MaxId)])
    /\ pc \in [Threads -> {"idle", "insert", "count", "alias", "assign"}]
    /\ handle \in [Handles -> [id : 0..MaxId, active : BOOLEAN, backref : BOOLEAN]]
    /\ detached \in SUBSET (1..MaxId)

\* conduit_listeners is exact: it counts the registered listeners, short only
\* of those a thread has inserted and not yet counted, and is back at zero
\* when the bus is gone.
GaugeExact ==
    gauge = Len(listeners) - Cardinality({t \in Threads : pc[t] = "count"})

\* No registration leaks and none is owned twice: a registered listener has
\* exactly one owner among the live handles, a listen() under way and detach().
Owners(id) ==
    Cardinality({h \in Handles : handle[h].active /\ handle[h].id = id})
      + Cardinality({t \in Threads : pc[t] \notin {"idle", "insert"} /\ reg[t].id = id})
      + (IF id \in detached THEN 1 ELSE 0)
OneOwner == alive => \A id \in 1..MaxId : Owners(id) = IF id \in Ids THEN 1 ELSE 0

\* Listeners are called in the order their owners can count on: by the priority
\* asked for in listen() (bus.hpp:136) and, among equals, never one whose
\* listen() began when the other was already registered before that other,
\* whatever is registered and released in between and in whatever order
\* overlapping calls took their ids.  Listeners of an EventSubscriber are left
\* out: on() does not forward the priority that listener.hpp:122 promises.
CalledAsAsked ==
    \A j \in 1..Len(listeners) : \A i \in 1..j - 1 :
        LET first == listeners[i]  second == listeners[j]
        IN  "subscriber" \notin {first.route, second.route} =>
                \/ first.asked < second.asked
                \/ first.asked = second.asked /\ second.id \notin first.after
=============================================================================
