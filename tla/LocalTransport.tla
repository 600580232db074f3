--------------------------- MODULE LocalTransport ---------------------------
(***************************************************************************)
(* conduit::local::Transport (include/conduit/local/transport.hpp) in its  *)
(* Queue and ThreadPool modes: dispatch() reserves a slot under drain_mu_, *)
(* hands a task to the threadman pool, a pool worker delivers the envelope *)
(* and calls complete_one(); flush() waits for outstanding_ to reach zero. *)
(*                                                                         *)
(* Every section the code runs under drain_mu_ is one step.  A thread that *)
(* sleeps on a condition variable has left the mutex; a notification or a  *)
(* spurious wakeup sends it back to re-evaluate its predicate.             *)
(***************************************************************************)
EXTENDS Integers, Sequences, FiniteSets

CONSTANTS
    Producers,     \* threads outside the pool that call dispatch() or flush()
    Workers,       \* the pool's worker threads (Queue mode: exactly one)
    Env,           \* envelopes
    DirectEnv,     \* the envelopes that carry flags::Direct
    NoEnv,         \* "no envelope"
    Capacity,      \* capacity_, 0 = unbounded
    HandlerCalls,  \* what listener code may call back on a worker thread
    MayReject,     \* may pool_->execute() throw?
    MaxBacklog     \* bound on outstanding_ when Capacity = 0 (TLC only)

Callers == Producers \cup Workers

ASSUME ThreadsAssumption ==
    /\ IsFiniteSet(Producers) /\ IsFiniteSet(Workers)
    /\ Producers \cap Workers = {}
ASSUME EnvAssumption == DirectEnv \subseteq Env /\ NoEnv \notin Env
ASSUME CapacityAssumption == Capacity \in Nat /\ MaxBacklog \in Nat
ASSUME HandlerAssumption ==
    HandlerCalls \subseteq {"dispatch", "flush"} /\ MayReject \in BOOLEAN

VARIABLES
    outstanding,   \* outstanding_, guarded by drain_mu_
    queue,         \* the pool's FIFO of submitted tasks (threadman)
    pc,            \* where each thread is inside the transport
    cur,           \* the envelope of the dispatch() call a thread is in
    task           \* the envelope whose task a worker is executing

vars == <<outstanding, queue, pc, cur, task>>

Labels == {"out",        \* in user code, or an idle worker
           "inline",     \* deliver_inbound on the caller's own thread
           "reserve",    \* about to evaluate the space predicate
           "spaceWait",  \* asleep on space_cv_
           "submit",     \* slot reserved, about to call pool_->execute()
           "undo",       \* execute() threw, about to call complete_one()
           "flush",      \* about to evaluate the drained predicate
           "drainWait"}  \* asleep on drained_cv_

At(l) == {t \in Callers : pc[t] = l}
Submitting == {t \in Callers : pc[t] \in {"submit", "undo"}}
Busy == {w \in Workers : task[w] # NoEnv}

Init ==
    /\ outstanding = 0
    /\ queue = <<>>
    /\ pc = [t \in Callers |-> "out"]
    /\ cur = [t \in Callers |-> NoEnv]
    /\ task = [w \in Workers |-> NoEnv]

\* A producer calls whenever it likes; a worker only from inside a handler.
CanCall(t, op) ==
    /\ pc[t] = "out"
    /\ t \in Workers => task[t] # NoEnv /\ op \in HandlerCalls

-----------------------------------------------------------------------------
(* dispatch() *)

\* The Direct flag forces inline delivery: no slot, no task.
DispatchInline(t, e) ==
    /\ CanCall(t, "dispatch") /\ e \in DirectEnv
    /\ pc' = [pc EXCEPT ![t] = "inline"]
    /\ cur' = [cur EXCEPT ![t] = e]
    /\ UNCHANGED <<outstanding, queue, task>>

InlineReturn(t) ==
    /\ pc[t] = "inline"
    /\ pc' = [pc EXCEPT ![t] = "out"]
    /\ cur' = [cur EXCEPT ![t] = NoEnv]
    /\ UNCHANGED <<outstanding, queue, task>>

Dispatch(t, e) ==
    /\ CanCall(t, "dispatch") /\ e \in Env \ DirectEnv
    /\ pc' = [pc EXCEPT ![t] = "reserve"]
    /\ cur' = [cur EXCEPT ![t] = e]
    /\ UNCHANGED <<outstanding, queue, task>>

\* Variant: the bound is off by one.
HasSpaceOffByOne == IF Capacity # 0 THEN outstanding <= Capacity ELSE outstanding < MaxBacklog

\* The predicate of space_cv_.wait(); an unbounded queue never waits.
HasSpace == IF Capacity # 0 THEN outstanding < Capacity ELSE outstanding < MaxBacklog

Reserve(t) ==
    /\ pc[t] = "reserve" /\ HasSpace
    /\ outstanding' = outstanding + 1
    /\ pc' = [pc EXCEPT ![t] = "submit"]
    /\ UNCHANGED <<queue, cur, task>>

BlockOnSpace(t) ==
    /\ pc[t] = "reserve" /\ Capacity # 0 /\ ~HasSpace
    /\ pc' = [pc EXCEPT ![t] = "spaceWait"]
    /\ UNCHANGED <<outstanding, queue, cur, task>>

Execute(t) ==
    /\ pc[t] = "submit"
    /\ queue' = Append(queue, cur[t])
    /\ pc' = [pc EXCEPT ![t] = "out"]
    /\ cur' = [cur EXCEPT ![t] = NoEnv]
    /\ UNCHANGED <<outstanding, task>>

\* Variant: the failed submission gives its slot back here and again in Undo.
RejectReleasesEarly(t) ==
    /\ pc[t] = "submit" /\ MayReject
    /\ outstanding' = outstanding - 1
    /\ pc' = [pc EXCEPT ![t] = "undo"]
    /\ cur' = [cur EXCEPT ![t] = NoEnv]
    /\ UNCHANGED <<queue, task>>

\* pool_->execute() throws: the envelope is gone, the slot is still held.
Reject(t) ==
    /\ pc[t] = "submit" /\ MayReject
    /\ pc' = [pc EXCEPT ![t] = "undo"]
    /\ cur' = [cur EXCEPT ![t] = NoEnv]
    /\ UNCHANGED <<outstanding, queue, task>>

-----------------------------------------------------------------------------
(* complete_one() *)

\* Variants: notify_one() only together with notify_all(); no notification.
NotifyOneAtZero ==
    IF At("spaceWait") = {} \/ outstanding # 1 THEN {{}} ELSE {{t} : t \in At("spaceWait")}
NotifyNever == {{}}
NotifyNobody == {}

\* space_cv_.notify_one() wakes one sleeper, if there is one.
NotifyOne == IF At("spaceWait") = {} THEN {{}} ELSE {{t} : t \in At("spaceWait")}
\* drained_cv_.notify_all(), only when this was the last unit.
NotifyAll == IF outstanding = 1 THEN At("drainWait") ELSE {}

CompleteOne(t) ==
    /\ outstanding' = outstanding - 1
    /\ \E woken \in NotifyOne :
          pc' = [u \in Callers |-> IF u \in woken THEN "reserve"
                                   ELSE IF u \in NotifyAll THEN "flush"
                                   ELSE IF u = t THEN "out" ELSE pc[u]]

\* Variant: a failed submission keeps its slot.
UndoForgets(t) ==
    /\ pc[t] = "undo"
    /\ pc' = [pc EXCEPT ![t] = "out"]
    /\ UNCHANGED <<outstanding, queue, cur, task>>

Undo(t) ==
    /\ pc[t] = "undo"
    /\ CompleteOne(t)
    /\ UNCHANGED <<queue, cur, task>>

\* Variants: the task stays queued; the newest task is taken first.
TakeTaskPeek(w) ==
    /\ pc[w] = "out" /\ task[w] = NoEnv /\ queue # <<>> /\ Len(queue) < 4
    /\ task' = [task EXCEPT ![w] = Head(queue)]
    /\ UNCHANGED <<outstanding, queue, pc, cur>>

TakeTaskNewest(w) ==
    /\ pc[w] = "out" /\ task[w] = NoEnv /\ queue # <<>>
    /\ task' = [task EXCEPT ![w] = queue[Len(queue)]]
    /\ queue' = SubSeq(queue, 1, Len(queue) - 1)
    /\ UNCHANGED <<outstanding, pc, cur>>

\* A worker dequeues a task and enters deliver_inbound().
TakeTask(w) ==
    /\ pc[w] = "out" /\ task[w] = NoEnv /\ queue # <<>>
    /\ task' = [task EXCEPT ![w] = Head(queue)]
    /\ queue' = Tail(queue)
    /\ UNCHANGED <<outstanding, pc, cur>>

\* deliver_inbound() has returned or thrown; either way the task completes.
FinishTask(w) ==
    /\ pc[w] = "out" /\ task[w] # NoEnv
    /\ task' = [task EXCEPT ![w] = NoEnv]
    /\ CompleteOne(w)
    /\ UNCHANGED <<queue, cur>>

-----------------------------------------------------------------------------
(* flush(), which is also detach() *)

Flush(t) ==
    /\ CanCall(t, "flush")
    /\ pc' = [pc EXCEPT ![t] = "flush"]
    /\ UNCHANGED <<outstanding, queue, cur, task>>

\* Variant: flush() does not wait for the last unit.
FlushReturnEarly(t) ==
    /\ pc[t] = "flush" /\ outstanding <= 1
    /\ pc' = [pc EXCEPT ![t] = "out"]
    /\ UNCHANGED <<outstanding, queue, cur, task>>

FlushReturn(t) ==
    /\ pc[t] = "flush" /\ outstanding = 0
    /\ pc' = [pc EXCEPT ![t] = "out"]
    /\ UNCHANGED <<outstanding, queue, cur, task>>

BlockOnDrain(t) ==
    /\ pc[t] = "flush" /\ outstanding # 0
    /\ pc' = [pc EXCEPT ![t] = "drainWait"]
    /\ UNCHANGED <<outstanding, queue, cur, task>>

\* A condition variable may wake a waiter for no reason.
SpuriousWakeup(t) ==
    /\ pc[t] \in {"spaceWait", "drainWait"}
    /\ pc' = [pc EXCEPT ![t] = IF pc[t] = "spaceWait" THEN "reserve" ELSE "flush"]
    /\ UNCHANGED <<outstanding, queue, cur, task>>

-----------------------------------------------------------------------------
Call(t) == Flush(t) \/ \E e \in Env : Dispatch(t, e) \/ DispatchInline(t, e)

Progress(t) ==
    \/ InlineReturn(t)
    \/ Reserve(t) \/ BlockOnSpace(t)
    \/ Execute(t) \/ Reject(t) \/ Undo(t)
    \/ FlushReturn(t) \/ BlockOnDrain(t)

Work(w) == TakeTask(w) \/ FinishTask(w)

Next ==
    \/ \E t \in Callers : Call(t) \/ Progress(t) \/ SpuriousWakeup(t)
    \/ \E w \in Workers : Work(w)

Spec == Init /\ [][Next]_vars

\* A thread inside the transport keeps running, and a handler that has begun
\* ends (the code has no timeout on either); nobody is obliged to call, and
\* spurious wakeups are never owed.
Fairness ==
    /\ \A t \in Callers : WF_vars(Progress(t))
    /\ \A w \in Workers : WF_vars(Work(w))

FairSpec == Spec /\ Fairness

-----------------------------------------------------------------------------
(* Properties *)

\* The state of the transport has its declared types; in particular the
\* unsigned counter outstanding_ never goes below zero.
TypeOK ==
    /\ outstanding \in Nat
    /\ queue \in Seq(Env)
    /\ pc \in [Callers -> Labels]
    /\ cur \in [Callers -> Env \cup {NoEnv}]
    /\ task \in [Workers -> Env \cup {NoEnv}]

\* outstanding_ counts every unit between its reservation and its
\* complete_one(): submissions under way, queued tasks, running tasks.
Accounting ==
    outstanding = Cardinality(Submitting) + Len(queue) + Cardinality(Busy)

\* Back-pressure: with a bound configured, the work accepted by the transport
\* (queued and running) never exceeds it.
BacklogBounded == Capacity # 0 => Len(queue) + Cardinality(Busy) <= Capacity

\* While a producer sleeps on space_cv_, every free slot has a thread on its
\* way to claim it.
NoLostSpaceWakeup ==
    At("spaceWait") # {} => Capacity - outstanding <= Cardinality(At("reserve"))

\* Nobody sleeps on drained_cv_ once the transport is idle.
NoStrandedFlusher == At("drainWait") # {} => outstanding > 0

\* Neither condition variable loses a wakeup, although complete_one() calls
\* notify_one() on space_cv_ once per unit and notify_all() on drained_cv_ only
\* for the last one, and woken threads find the counter changed again.
WakeupsReachSleepers == NoLostSpaceWakeup /\ NoStrandedFlusher

\* flush() returns only at a moment when no envelope is queued, being
\* submitted or being delivered by a worker.
FlushReturnsIdle ==
    [][\A t \in Callers :
          pc[t] = "flush" /\ pc'[t] = "out"
             => queue = <<>> /\ Busy = {} /\ Submitting = {}]_vars

\* Back-pressure is not a deadlock: the producers are never all asleep on
\* space_cv_ for ever, as long as handlers do not call back into the bus.
ProducersNotStuck == []<>(\E p \in Producers : pc[p] # "spaceWait")

\* flush() returns once the publishers have gone quiet.
Quiet == At("reserve") \cup At("spaceWait") \cup Submitting = {}
QuietFlushReturns ==
    <>[]Quiet => \A t \in Callers : pc[t] = "flush" ~> pc[t] = "out"

-----------------------------------------------------------------------------
(* The transport implements AsyncDelivery. *)

Abstract == INSTANCE AsyncDelivery WITH
    MayRefuse <- MayReject,
    waiting <- [e \in Env |-> Cardinality({i \in 1..Len(queue) : queue[i] = e})
                            + Cardinality({t \in At("submit") : cur[t] = e})],
    delivering <- [e \in Env |-> Cardinality({w \in Workers : task[w] = e})],
    flushing <- At("flush") \cup At("drainWait")

\* Reservation, submission, the worker loop and flush() together deliver each
\* accepted envelope exactly once, and flush() is a barrier.
ImplementsAsyncDelivery == Abstract!Spec

\* Under the fairness above, and as long as the pool accepts every task, what
\* is accepted is also started and finished.
ImplementsFairDelivery == Abstract!FairSpec
=============================================================================
