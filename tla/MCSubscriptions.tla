-------------------------- MODULE MCSubscriptions --------------------------
(* Instances of Subscriptions for TLC. *)
EXTENDS Subscriptions, TLC

CONSTANTS t1, t2, h1, h2, h3

BothThreads == {t1, t2}
AllHandles == {h1, h2, h3}
\* t1 juggles two handles, t2 has one.
Owner == (h1 :> t1) @@ (h2 :> t1) @@ (h3 :> t2)

OwnPriority == ("listener" :> 2) @@ ("subscriber" :> 3)
=============================================================================
