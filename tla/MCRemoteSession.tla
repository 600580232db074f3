--------------------------- MODULE MCRemoteSession ---------------------------
(* Instances of RemoteSession for TLC. *)
EXTENDS RemoteSession, TLC

CONSTANTS main, worker, t1

AllThreads == {main, worker, rx}
BothTransports == {t1, remote}
OnlyReceiver == {rx}

\* main owns the bus; the other thread publishes and drains; handlers
\* of the receiver publish.
OpsOf == (main :> OpNames) @@ (worker :> {"publish", "drain"}) @@ (rx :> {"publish"})

\* Of equal priorities either may have been inserted, and so be visited, first.
AnyOrder == (remote :> 1) @@ (t1 :> 1)
=============================================================================
