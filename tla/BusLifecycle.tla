---------------------------- MODULE BusLifecycle ----------------------------
(***************************************************************************)
(* The life of a conduit::Bus and of the transports it owns                *)
(* (include/conduit/bus.hpp): use_transport(), publish() as seen by the    *)
(* transports, drain(), shutdown() and ~Bus(), called from several         *)
(* threads.  The transports are asynchronous local ones, whose flush() and *)
(* detach() both wait for the backlog (LocalTransport proves that flush()  *)
(* returns only when it is empty); RemoteSession puts a broker adapter in  *)
(* the place of one of them.                                               *)
(*                                                                         *)
(* A transport is owned by shared pointers: the one in transports_ and the *)
(* ones in the snapshots that publish(), drain() and shutdown() work on.   *)
(***************************************************************************)
EXTENDS Integers, FiniteSets

CONSTANTS
    Threads, Transports,
    Callbacks,    \* threads of transports: they call the bus from handlers only
    Rank,         \* per transport, its priority(): the order of transports_
    Ops,          \* per thread, the operations it performs
    MaxPending,   \* bound on the units one thread has pending in one transport
    Orderly       \* does the application use the bus only outside shutdown()?

OpNames == {"use_transport", "publish", "drain", "shutdown", "destroy"}

ASSUME OpsAssumption == Ops \in [Threads -> SUBSET OpNames]
ASSUME CallbacksAssumption == Callbacks \subseteq Threads /\ \A th \in Callbacks : Ops[th] \subseteq {"publish"}
ASSUME RankAssumption == Rank \in [Transports -> Int]
ASSUME BoundAssumption == MaxPending \in Nat
ASSUME OrderlyAssumption == Orderly \in BOOLEAN

VARIABLES
    transports,   \* transports_, guarded by mu_
    shutdown,     \* shutdown_, atomic
    bus,          \* "alive", "dying" (~Bus has begun) or "gone"
    detached,     \* transports whose detach() has returned
    inserted,     \* transports the bus has ever owned
    pending,      \* units each thread has dispatched and no worker has finished
    pc,           \* where each thread is
    held,         \* the transports a thread keeps alive (snapshot or argument)
    todo,         \* the part of held that its loop has still to visit
    flushed       \* the transport shutdown() has flushed and is to detach

vars == <<transports, shutdown, bus, detached, inserted, pending, pc, held, todo, flushed>>

Labels == {"idle", "insert", "dispatch", "drain", "exchange", "take", "flush", "detach"}

Init ==
    /\ transports = {} /\ shutdown = FALSE /\ bus = "alive"
    /\ detached = {} /\ inserted = {}
    /\ pending = [th \in Threads |-> [t \in Transports |-> 0]]
    /\ pc = [th \in Threads |-> "idle"]
    /\ held = [th \in Threads |-> {}] /\ todo = [th \in Threads |-> {}]
    /\ flushed = [th \in Threads |-> {}]

\* outstanding_ of transport t is zero.
Drained(t) == \A th \in Threads : pending[th][t] = 0

\* Nothing tells a handler that the bus is being shut down or destroyed.
MayCall(th, op) ==
    /\ pc[th] = "idle" /\ op \in Ops[th]
    /\ th \in Callbacks \/ bus = "alive"
    /\ Orderly /\ th \notin Callbacks
         => ~shutdown /\ \A u \in Threads : pc[u] \notin {"exchange", "take", "flush", "detach"}

\* Loops over a snapshot visit the transports in ascending priority().
First(th, t) == t \in todo[th] /\ \A u \in todo[th] : Rank[t] <= Rank[u]

\* Leave a call: its snapshot goes out of scope.
Leave(th) ==
    /\ pc' = [pc EXCEPT ![th] = "idle"]
    /\ held' = [held EXCEPT ![th] = {}]
    /\ todo' = [todo EXCEPT ![th] = {}]

\* Copy transports_ under mu_ and start looping over the copy.
Enter(th, label, ts) ==
    /\ pc' = [pc EXCEPT ![th] = label]
    /\ held' = [held EXCEPT ![th] = ts]
    /\ todo' = [todo EXCEPT ![th] = ts]

-----------------------------------------------------------------------------
(* use_transport(): attach() first, then insert under mu_ *)

UseTransport(th, t) ==
    /\ MayCall(th, "use_transport")
    /\ t \notin inserted /\ \A u \in Threads : t \notin held[u]
    /\ Enter(th, "insert", {t})
    /\ UNCHANGED <<transports, shutdown, bus, detached, inserted, pending, flushed>>

InsertTransport(th) ==
    /\ pc[th] = "insert"
    /\ transports' = transports \cup held[th]
    /\ inserted' = inserted \cup held[th]
    /\ Leave(th)
    /\ UNCHANGED <<shutdown, bus, detached, pending, flushed>>

(* publish(): a snapshot, then dispatch() on each of its transports *)

Publish(th) ==
    /\ MayCall(th, "publish")
    /\ Enter(th, "dispatch", transports)
    /\ UNCHANGED <<transports, shutdown, bus, detached, inserted, pending, flushed>>

Dispatch(th, t) ==
    /\ pc[th] = "dispatch" /\ First(th, t) /\ pending[th][t] < MaxPending
    /\ pending' = [pending EXCEPT ![th][t] = @ + 1]
    /\ todo' = [todo EXCEPT ![th] = @ \ {t}]
    /\ UNCHANGED <<transports, shutdown, bus, detached, inserted, pc, held, flushed>>

PublishReturn(th) ==
    /\ pc[th] = "dispatch" /\ todo[th] = {}
    /\ Leave(th)
    /\ UNCHANGED <<transports, shutdown, bus, detached, inserted, pending, flushed>>

\* A worker of transport t finishes a unit.
Complete(th, t) ==
    /\ pending[th][t] > 0
    /\ pending' = [pending EXCEPT ![th][t] = @ - 1]
    /\ UNCHANGED <<transports, shutdown, bus, detached, inserted, pc, held, todo, flushed>>

(* drain() *)

Drain(th) ==
    /\ MayCall(th, "drain")
    /\ Enter(th, "drain", transports)
    /\ UNCHANGED <<transports, shutdown, bus, detached, inserted, pending, flushed>>

\* Variant: drain() flushes only one transport.
DrainFlushOne(th, t) ==
    /\ pc[th] = "drain" /\ First(th, t) /\ Drained(t)
    /\ todo' = [todo EXCEPT ![th] = {}]
    /\ UNCHANGED <<transports, shutdown, bus, detached, inserted, pending, pc, held, flushed>>

DrainFlush(th, t) ==
    /\ pc[th] = "drain" /\ First(th, t) /\ Drained(t)
    /\ todo' = [todo EXCEPT ![th] = @ \ {t}]
    /\ UNCHANGED <<transports, shutdown, bus, detached, inserted, pending, pc, held, flushed>>

DrainReturn(th) ==
    /\ pc[th] = "drain" /\ todo[th] = {}
    /\ Leave(th)
    /\ UNCHANGED <<transports, shutdown, bus, detached, inserted, pending, flushed>>

-----------------------------------------------------------------------------
(* shutdown() and ~Bus() *)

\* No other thread of the application is inside the bus.
AllQuiet(th) == \A u \in Threads \ (Callbacks \cup {th}) : pc[u] = "idle"

Shutdown(th) ==
    /\ MayCall(th, "shutdown") /\ (Orderly => AllQuiet(th))
    /\ pc' = [pc EXCEPT ![th] = "exchange"]
    /\ UNCHANGED <<transports, shutdown, bus, detached, inserted, pending, held, todo, flushed>>

\* The bus is destroyed last: no other thread is inside it any more.
Destroy(th) ==
    /\ bus = "alive" /\ pc[th] = "idle" /\ "destroy" \in Ops[th] /\ AllQuiet(th)
    /\ bus' = "dying"
    /\ pc' = [pc EXCEPT ![th] = "exchange"]
    /\ UNCHANGED <<transports, shutdown, detached, inserted, pending, held, todo, flushed>>

\* if (shutdown_.exchange(true)) return;
Exchange(th) ==
    /\ pc[th] = "exchange"
    /\ shutdown' = TRUE
    /\ pc' = [pc EXCEPT ![th] = IF shutdown THEN "idle" ELSE "take"]
    /\ UNCHANGED <<transports, bus, detached, inserted, pending, held, todo, flushed>>

\* Copy and clear transports_ under mu_.
Take(th) ==
    /\ pc[th] = "take"
    /\ transports' = {}
    /\ Enter(th, "flush", transports)
    /\ UNCHANGED <<shutdown, bus, detached, inserted, pending, flushed>>

\* Variant: the loop ends after its first transport.
ShutdownFlushOne(th, t) ==
    /\ pc[th] = "flush" /\ First(th, t) /\ Drained(t)
    /\ pc' = [pc EXCEPT ![th] = "detach"]
    /\ todo' = [todo EXCEPT ![th] = {}]
    /\ flushed' = [flushed EXCEPT ![th] = {t}]
    /\ UNCHANGED <<transports, shutdown, bus, detached, inserted, pending, held>>

ShutdownFlush(th, t) ==
    /\ pc[th] = "flush" /\ First(th, t) /\ Drained(t)
    /\ pc' = [pc EXCEPT ![th] = "detach"]
    /\ todo' = [todo EXCEPT ![th] = @ \ {t}]
    /\ flushed' = [flushed EXCEPT ![th] = {t}]
    /\ UNCHANGED <<transports, shutdown, bus, detached, inserted, pending, held>>

\* local::Transport::detach() flushes once more.
ShutdownDetach(th, t) ==
    /\ pc[th] = "detach" /\ t \in flushed[th] /\ Drained(t)
    /\ detached' = detached \cup {t}
    /\ flushed' = [flushed EXCEPT ![th] = {}]
    /\ pc' = [pc EXCEPT ![th] = "flush"]
    /\ UNCHANGED <<transports, shutdown, bus, inserted, pending, held, todo>>

ShutdownReturn(th) ==
    /\ pc[th] = "flush" /\ todo[th] = {}
    /\ Leave(th)
    /\ UNCHANGED <<transports, shutdown, bus, detached, inserted, pending, flushed>>

\* The members go: every transport still in transports_ is destroyed with them.
DestroyMembers(th) ==
    /\ bus = "dying" /\ pc[th] = "idle" /\ "destroy" \in Ops[th] /\ AllQuiet(th)
    /\ bus' = "gone"
    /\ transports' = {}
    /\ UNCHANGED <<shutdown, detached, inserted, pending, pc, held, todo, flushed>>

-----------------------------------------------------------------------------
ThreadStep(th) ==
    \/ InsertTransport(th) \/ PublishReturn(th) \/ DrainReturn(th)
    \/ Exchange(th) \/ Take(th) \/ ShutdownReturn(th) \/ DestroyMembers(th)
    \/ \E t \in Transports : \/ Dispatch(th, t) \/ DrainFlush(th, t)
                             \/ ShutdownFlush(th, t) \/ ShutdownDetach(th, t)

Call(th) ==
    \/ Publish(th) \/ Drain(th) \/ Shutdown(th) \/ Destroy(th)
    \/ \E t \in Transports : UseTransport(th, t)

Next ==
    \/ \E th \in Threads : Call(th) \/ ThreadStep(th)
    \/ \E th \in Threads, t \in Transports : Complete(th, t)

Spec == Init /\ [][Next]_vars

-----------------------------------------------------------------------------
(* Properties *)

\* The state has its declared types; in particular no transport completes more
\* envelopes than it was handed.
TypeOK ==
    /\ transports \in SUBSET Transports /\ inserted \in SUBSET Transports
    /\ detached \in SUBSET Transports
    /\ shutdown \in BOOLEAN /\ bus \in {"alive", "dying", "gone"}
    /\ pending \in [Threads -> [Transports -> Nat]]
    /\ pc \in [Threads -> Labels]
    /\ held \in [Threads -> SUBSET Transports] /\ todo \in [Threads -> SUBSET Transports]
    /\ flushed \in [Threads -> SUBSET Transports]

\* shutdown() "flushes and detaches every transport" that it took: when it
\* returns, each of them is detached and has finished what the caller had
\* dispatched to it, whatever other threads do meanwhile.  If the application
\* leaves the bus alone during shutdown(), these are all the transports the bus
\* has ever owned, and nothing that any application thread dispatched is left.
\* (What handlers publish on threads of a transport during shutdown() may be.)
ShutdownCovers ==
    [][\A th \in Threads : pc[th] = "flush" /\ pc'[th] = "idle" =>
          /\ \A t \in held[th] : t \in detached /\ pending[th][t] = 0
          /\ Orderly => \A t \in inserted, u \in Threads \ Callbacks :
                           t \in detached /\ pending[u][t] = 0]_vars

\* drain() covers what its caller published: when it returns, every unit the
\* calling thread had dispatched, to any transport, has been finished.
DrainCoversOwn ==
    [][\A th \in Threads : pc[th] = "drain" /\ pc'[th] = "idle"
                              => \A t \in Transports : pending[th][t] = 0]_vars

\* shutdown() (and so ~Bus) ends once its callers' backlog is worked off.
ShutdownEnds ==
    \A th \in {u \in Threads : {"shutdown", "destroy"} \cap Ops[u] # {}} :
        pc[th] \in {"take", "flush", "detach"} ~> pc[th] = "idle"
=============================================================================
