---------------------------- MODULE AsyncDelivery ----------------------------
(***************************************************************************)
(* What an asynchronous in-process transport promises its bus, with no     *)
(* mutex, condition variable, pool or counter: every accepted unit is      *)
(* delivered exactly once unless the executor refuses it, and flush() is a *)
(* barrier that ends only at a moment when nothing is pending.             *)
(***************************************************************************)
EXTENDS Naturals

CONSTANTS Callers, Env, MayRefuse

VARIABLES
    waiting,      \* per envelope, the units accepted and not yet started
    delivering,   \* per envelope, the units handlers are being run for
    flushing      \* the threads inside flush()

absVars == <<waiting, delivering, flushing>>

Init ==
    /\ waiting = [e \in Env |-> 0]
    /\ delivering = [e \in Env |-> 0]
    /\ flushing = {}

Accept(e) ==
    /\ waiting' = [waiting EXCEPT ![e] = @ + 1]
    /\ UNCHANGED <<delivering, flushing>>

\* The executor refuses the unit: it is dropped, and stays undelivered.
Refuse(e) ==
    /\ MayRefuse /\ waiting[e] > 0
    /\ waiting' = [waiting EXCEPT ![e] = @ - 1]
    /\ UNCHANGED <<delivering, flushing>>

Start(e) ==
    /\ waiting[e] > 0
    /\ waiting' = [waiting EXCEPT ![e] = @ - 1]
    /\ delivering' = [delivering EXCEPT ![e] = @ + 1]
    /\ UNCHANGED flushing

Finish(e) ==
    /\ delivering[e] > 0
    /\ delivering' = [delivering EXCEPT ![e] = @ - 1]
    /\ UNCHANGED <<waiting, flushing>>

FlushBegin(t) ==
    /\ t \notin flushing
    /\ flushing' = flushing \cup {t}
    /\ UNCHANGED <<waiting, delivering>>

FlushEnd(t) ==
    /\ t \in flushing
    /\ \A e \in Env : waiting[e] = 0 /\ delivering[e] = 0
    /\ flushing' = flushing \ {t}
    /\ UNCHANGED <<waiting, delivering>>

Next ==
    \/ \E e \in Env : Accept(e) \/ Refuse(e) \/ Start(e) \/ Finish(e)
    \/ \E t \in Callers : FlushBegin(t) \/ FlushEnd(t)

Spec == Init /\ [][Next]_absVars

\* What is accepted is eventually started, and what is started is finished.
FairSpec ==
    /\ Spec
    /\ \A e \in Env : WF_absVars(Start(e)) /\ WF_absVars(Finish(e))
=============================================================================
