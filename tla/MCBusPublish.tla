---------------------------- MODULE MCBusPublish ----------------------------
(* Instances of BusPublish for TLC. *)
EXTENDS BusPublish, TLC

CONSTANTS c1, m1, m2, pool, broker, relay, l1, l2, l3, r1, r2

OneCall == {c1}
TwoMiddleware == {m1, m2}
PoolAndRelay == {pool, relay}
PoolOnly == {pool}
PoolAndBroker == {pool, broker}
TwoListeners == {l1, l2}
ThreeListeners == {l1, l2, l3}
TwoRoutes == {r1, r2}
MatchingBoth == {l1, l2, r1, r2}

None == {}
FirstMiddleware == {m1}
\* m1 and l1 throw, and so does the broker transport's dispatch().
Throwers == {m1, l1, broker}
Listener1 == {l1}
ThrowingCallbacks == {l1, l2, r1}

\* m1 runs before m2 and l2 before l1; l1 and l3 tie, so they keep their insertion order.
Prio == (m1 :> 1) @@ (m2 :> 2) @@ (pool :> 1) @@ (broker :> 0) @@ (relay :> 0)
        @@ (l1 :> 2) @@ (l2 :> 1) @@ (l3 :> 2)
PrioOf(S) == [x \in S |-> Prio[x]]
Priorities == PrioOf(Middleware \cup Transports \cup Listeners)
KindOf == (pool :> "async") @@ (broker :> "remote") @@ (relay :> "relay")
Kinds == [t \in Transports |-> KindOf[t]]

Plain == {{}}
Scopes == {{}, {"LocalOnly"}, {"RemoteOnly"}, {"LocalOnly", "RemoteOnly"}}
AllFlags == Scopes \cup {{"NoMiddleware"}, {"NoMiddleware", "LocalOnly", "RemoteOnly"}}
=============================================================================
