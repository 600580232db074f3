------------------------ MODULE LocalTransportProofs ------------------------
(***************************************************************************)
(* Proofs about LocalTransport for every set of threads and envelopes and  *)
(* every capacity.                                                         *)
(***************************************************************************)
EXTENDS LocalTransport, FiniteSetTheorems, FunctionTheorems, SequenceTheorems, TLAPS

\* outstanding_ itself respects the bound, not only the work it counts.
SlotsBounded == Capacity # 0 => outstanding <= Capacity

\* A thread about to submit holds a real envelope.
SubmitterHasEnvelope == \A t \in Callers : pc[t] \in {"reserve", "spaceWait", "submit"} => cur[t] \in Env

\* The inductive invariant.
IndInv ==
    /\ TypeOK
    /\ SubmitterHasEnvelope
    /\ Accounting
    /\ SlotsBounded
    /\ NoLostSpaceWakeup
    /\ NoStrandedFlusher

\* The thread sets the invariant counts are finite.
LEMMA FiniteThreads ==
    /\ IsFiniteSet(Callers)
    /\ IsFiniteSet(Submitting) /\ Cardinality(Submitting) \in Nat
    /\ IsFiniteSet(Busy) /\ Cardinality(Busy) \in Nat
    /\ IsFiniteSet(At("reserve")) /\ Cardinality(At("reserve")) \in Nat
  <1>1. IsFiniteSet(Callers)
    BY FS_Union, ThreadsAssumption DEF Callers
  <1>2. Submitting \in SUBSET Callers /\ At("reserve") \in SUBSET Callers
        /\ Busy \in SUBSET Workers
    BY DEF Submitting, At, Busy
  <1> QED
    BY <1>1, <1>2, FS_Subset, FS_CardinalityType, ThreadsAssumption

\* A step that moves one thread between labels other than those the invariant
\* counts, and leaves the counter, the queue and the tasks alone, keeps it.
LEMMA QuietStep ==
    ASSUME IndInv, NEW t \in Callers, NEW l \in Labels,
           pc[t] \notin {"reserve", "spaceWait", "submit", "undo", "drainWait"},
           l \notin {"reserve", "spaceWait", "submit", "undo", "drainWait"},
           pc' = [pc EXCEPT ![t] = l],
           \E c \in Env \cup {NoEnv} : cur' = [cur EXCEPT ![t] = c],
           UNCHANGED <<outstanding, queue, task>>
    PROVE  IndInv'
  <1>1. TypeOK'
    BY DEF IndInv, TypeOK
  <1>2. SubmitterHasEnvelope'
    BY DEF IndInv, TypeOK, SubmitterHasEnvelope
  <1>3. /\ Submitting' = Submitting /\ Busy' = Busy
        /\ At("reserve")' = At("reserve")
        /\ At("spaceWait")' = At("spaceWait")
        /\ At("drainWait")' = At("drainWait")
    BY DEF IndInv, TypeOK, Submitting, Busy, At
  <1> QED
    BY <1>1, <1>2, <1>3
    DEF IndInv, Accounting, SlotsBounded, NoLostSpaceWakeup, NoStrandedFlusher

\* Releasing one slot: complete_one() with exactly one counted unit going away.
LEMMA CompleteStep ==
    ASSUME IndInv, NEW t \in Callers, pc[t] \in {"undo", "out"},
           CompleteOne(t), UNCHANGED <<queue, cur>>,
           task' \in [Workers -> Env \cup {NoEnv}],
           outstanding > 0,
           \* what the releasing step takes away from the counted units
           Cardinality({u \in Callers \ {t} : pc[u] \in {"submit", "undo"}}) + Len(queue) + Cardinality(Busy')
             = outstanding - 1
    PROVE  IndInv'
  <1> DEFINE S == {u \in Callers \ {t} : pc[u] \in {"submit", "undo"}}
  <1>0. PICK woken \in NotifyOne :
          pc' = [u \in Callers |-> IF u \in woken THEN "reserve"
                                   ELSE IF u \in NotifyAll THEN "flush"
                                   ELSE IF u = t THEN "out" ELSE pc[u]]
    BY DEF CompleteOne
  <1>w. /\ woken \subseteq At("spaceWait")
        /\ At("spaceWait") # {} => \E u \in At("spaceWait") : woken = {u}
    BY DEF NotifyOne
  <1>n. NotifyAll \subseteq At("drainWait")
    BY DEF NotifyAll
  <1>o. outstanding' = outstanding - 1 /\ outstanding' \in Nat
    BY DEF CompleteOne, IndInv, TypeOK
  <1>p. \A u \in Callers :
          pc'[u] = IF u \in woken THEN "reserve"
                   ELSE IF u \in NotifyAll THEN "flush"
                   ELSE IF u = t THEN "out" ELSE pc[u]
    BY <1>0
  <1>1. TypeOK'
    <2>1. pc' \in [Callers -> Labels]
      BY <1>0 DEF IndInv, TypeOK, Labels
    <2> QED
      BY <2>1, <1>o DEF IndInv, TypeOK
  <1>2. SubmitterHasEnvelope'
    BY <1>p, <1>w, <1>n DEF IndInv, SubmitterHasEnvelope, At
  <1>3. Submitting' = S
    BY <1>p, <1>w, <1>n DEF Submitting, At
  <1>4. Accounting'
    BY <1>3, <1>o DEF Accounting
  <1>5. SlotsBounded'
    BY <1>o, CapacityAssumption DEF IndInv, TypeOK, SlotsBounded
  <1>6. NoLostSpaceWakeup'
    <2>1. CASE At("spaceWait") = {}
      <3>1. At("spaceWait")' = {}
        BY <2>1, <1>p, <1>w, <1>n DEF At
      <3> QED
        BY <3>1 DEF NoLostSpaceWakeup
    <2>2. CASE At("spaceWait") # {}
      <3>1. PICK u \in At("spaceWait") : woken = {u}
        BY <2>2, <1>w
      <3>2. At("reserve")' = At("reserve") \cup {u} /\ u \notin At("reserve")
        BY <3>1, <1>p, <1>w, <1>n DEF At
      <3>3. Cardinality(At("reserve")') = Cardinality(At("reserve")) + 1
        BY <3>2, FS_AddElement, FiniteThreads
      <3>4. Capacity - outstanding <= Cardinality(At("reserve"))
        BY <2>2 DEF IndInv, NoLostSpaceWakeup
      <3> QED
        BY <3>3, <3>4, <1>o, FiniteThreads, CapacityAssumption
        DEF NoLostSpaceWakeup, IndInv, TypeOK
    <2> QED
      BY <2>1, <2>2
  <1>7. NoStrandedFlusher'
    <2>1. At("drainWait")' = IF outstanding = 1 THEN {} ELSE At("drainWait")
      <3>1. CASE outstanding = 1
        BY <3>1, <1>p, <1>w DEF At, NotifyAll
      <3>2. CASE outstanding # 1
        BY <3>2, <1>p, <1>w DEF At, NotifyAll
      <3> QED
        BY <3>1, <3>2
    <2> QED
      BY <2>1, <1>o DEF NoStrandedFlusher, IndInv, TypeOK
  <1> QED
    BY <1>1, <1>2, <1>4, <1>5, <1>6, <1>7 DEF IndInv

\* Every step of the transport keeps the inductive invariant.
LEMMA IndInvStep == IndInv /\ [Next]_vars => IndInv'
  <1> SUFFICES ASSUME IndInv, [Next]_vars PROVE IndInv'
    OBVIOUS
  <1> USE FiniteThreads, CapacityAssumption, EnvAssumption
  <1>t. TypeOK /\ SubmitterHasEnvelope /\ Accounting /\ SlotsBounded
        /\ NoLostSpaceWakeup /\ NoStrandedFlusher
    BY DEF IndInv
  <1>l. Len(queue) \in Nat
    BY LenProperties DEF IndInv, TypeOK
  <1>1. ASSUME NEW t \in Callers, NEW e \in Env, DispatchInline(t, e) PROVE IndInv'
    BY <1>1, QuietStep DEF DispatchInline, CanCall, Labels
  <1>2. ASSUME NEW t \in Callers, InlineReturn(t) PROVE IndInv'
    BY <1>2, QuietStep DEF InlineReturn, Labels
  <1>3. ASSUME NEW t \in Callers, NEW e \in Env, Dispatch(t, e) PROVE IndInv'
    <2>1. TypeOK' /\ SubmitterHasEnvelope'
      BY <1>3, <1>t DEF Dispatch, TypeOK, SubmitterHasEnvelope, Labels
    <2>2. /\ Submitting' = Submitting /\ Busy' = Busy
          /\ At("spaceWait")' = At("spaceWait") /\ At("drainWait")' = At("drainWait")
          /\ At("reserve")' = At("reserve") \cup {t} /\ t \notin At("reserve")
      BY <1>3, <1>t DEF Dispatch, CanCall, TypeOK, Submitting, Busy, At
    <2>3. Cardinality(At("reserve")') = Cardinality(At("reserve")) + 1
      BY <2>2, FS_AddElement
    <2> QED
      BY <2>1, <2>2, <2>3, <1>3, <1>t
      DEF Dispatch, IndInv, TypeOK, Accounting, SlotsBounded, NoLostSpaceWakeup,
          NoStrandedFlusher
  <1>4. ASSUME NEW t \in Callers, Reserve(t) PROVE IndInv'
    <2>1. TypeOK' /\ SubmitterHasEnvelope'
      BY <1>4, <1>t DEF Reserve, TypeOK, SubmitterHasEnvelope, Labels
    <2>2. /\ Submitting' = Submitting \cup {t} /\ t \notin Submitting /\ Busy' = Busy
          /\ At("spaceWait")' = At("spaceWait") /\ At("drainWait")' = At("drainWait")
          /\ At("reserve")' = At("reserve") \ {t} /\ t \in At("reserve")
      BY <1>4, <1>t DEF Reserve, TypeOK, Submitting, Busy, At
    <2>3. Cardinality(At("reserve")') = Cardinality(At("reserve")) - 1
      BY <2>2, FS_RemoveElement
    <2>4. Cardinality(Submitting') = Cardinality(Submitting) + 1
      BY <2>2, FS_AddElement
    <2> QED
      BY <2>1, <2>2, <2>3, <2>4, <1>4, <1>t, <1>l
      DEF Reserve, HasSpace, IndInv, TypeOK, Accounting, SlotsBounded, NoLostSpaceWakeup,
          NoStrandedFlusher
  <1>5. ASSUME NEW t \in Callers, BlockOnSpace(t) PROVE IndInv'
    <2>1. TypeOK' /\ SubmitterHasEnvelope'
      BY <1>5, <1>t DEF BlockOnSpace, TypeOK, SubmitterHasEnvelope, Labels
    <2>2. /\ Submitting' = Submitting /\ Busy' = Busy
          /\ At("drainWait")' = At("drainWait")
          /\ At("reserve")' = At("reserve") \ {t}
      BY <1>5, <1>t DEF BlockOnSpace, TypeOK, Submitting, Busy, At
    <2>3. Cardinality(At("reserve")') \in Nat
      BY <2>2, FS_RemoveElement, FS_CardinalityType
    <2> QED
      BY <2>1, <2>2, <2>3, <1>5, <1>t
      DEF BlockOnSpace, HasSpace, IndInv, TypeOK, Accounting, SlotsBounded,
          NoLostSpaceWakeup, NoStrandedFlusher
  <1>6. ASSUME NEW t \in Callers, Execute(t) PROVE IndInv'
    <2>0. Append(queue, cur[t]) \in Seq(Env)
          /\ Len(Append(queue, cur[t])) = Len(queue) + 1 /\ Len(queue) \in Nat
      BY <1>6, <1>t, AppendProperties, LenProperties
      DEF Execute, TypeOK, SubmitterHasEnvelope
    <2>1. TypeOK' /\ SubmitterHasEnvelope'
      BY <1>6, <1>t, <2>0 DEF Execute, TypeOK, SubmitterHasEnvelope, Labels
    <2>2. /\ Submitting' = Submitting \ {t} /\ t \in Submitting /\ Busy' = Busy
          /\ At("spaceWait")' = At("spaceWait") /\ At("drainWait")' = At("drainWait")
          /\ At("reserve")' = At("reserve")
      BY <1>6, <1>t DEF Execute, TypeOK, Submitting, Busy, At
    <2>3. Cardinality(Submitting') = Cardinality(Submitting) - 1
      BY <2>2, FS_RemoveElement
    <2> QED
      BY <2>0, <2>1, <2>2, <2>3, <1>6, <1>t
      DEF Execute, IndInv, TypeOK, Accounting, SlotsBounded, NoLostSpaceWakeup,
          NoStrandedFlusher
  <1>7. ASSUME NEW t \in Callers, Reject(t) PROVE IndInv'
    <2>1. TypeOK' /\ SubmitterHasEnvelope'
      BY <1>7, <1>t DEF Reject, TypeOK, SubmitterHasEnvelope, Labels
    <2>2. /\ Submitting' = Submitting /\ Busy' = Busy
          /\ At("spaceWait")' = At("spaceWait") /\ At("drainWait")' = At("drainWait")
          /\ At("reserve")' = At("reserve")
      BY <1>7, <1>t DEF Reject, TypeOK, Submitting, Busy, At
    <2> QED
      BY <2>1, <2>2, <1>7, <1>t
      DEF Reject, IndInv, Accounting, SlotsBounded, NoLostSpaceWakeup, NoStrandedFlusher
  <1>8. ASSUME NEW t \in Callers, Undo(t) PROVE IndInv'
    <2> DEFINE S == {u \in Callers \ {t} : pc[u] \in {"submit", "undo"}}
    <2>1. S = Submitting \ {t} /\ t \in Submitting /\ Busy' = Busy
      BY <1>8 DEF Undo, Submitting, Busy
    <2>2. Cardinality(S) = Cardinality(Submitting) - 1 /\ Cardinality(S) \in Nat
      BY <2>1, FS_RemoveElement, FS_CardinalityType
    <2>4. Cardinality(S) + Len(queue) + Cardinality(Busy') = outstanding - 1
          /\ outstanding > 0
      BY <2>1, <2>2, <1>l, <1>t DEF Accounting
    <2>5. /\ pc[t] \in {"undo", "out"} /\ CompleteOne(t) /\ UNCHANGED <<queue, cur>>
          /\ task' \in [Workers -> Env \cup {NoEnv}]
      BY <1>8, <1>t DEF Undo, TypeOK
    <2> QED
      BY <2>4, <2>5, CompleteStep
  <1>9. ASSUME NEW w \in Workers, TakeTask(w) PROVE IndInv'
    <2>0. Head(queue) \in Env /\ Tail(queue) \in Seq(Env)
          /\ Len(Tail(queue)) = Len(queue) - 1 /\ Len(queue) \in Nat
      BY <1>9, <1>t, HeadTailProperties, LenProperties DEF TakeTask, TypeOK
    <2>1. TypeOK' /\ SubmitterHasEnvelope'
      BY <1>9, <1>t, <2>0 DEF TakeTask, TypeOK, SubmitterHasEnvelope
    <2>2. /\ Submitting' = Submitting /\ Busy' = Busy \cup {w} /\ w \notin Busy
          /\ At("spaceWait")' = At("spaceWait") /\ At("drainWait")' = At("drainWait")
          /\ At("reserve")' = At("reserve")
      BY <1>9, <1>t, <2>0 DEF TakeTask, TypeOK, Submitting, Busy, At
    <2>3. Cardinality(Busy') = Cardinality(Busy) + 1
      BY <2>2, FS_AddElement
    <2>4. Accounting'
      <3>1. /\ Len(queue') = Len(queue) - 1 /\ outstanding' = outstanding
            /\ Cardinality(Submitting') = Cardinality(Submitting)
        BY <2>0, <2>2, <1>9 DEF TakeTask
      <3> QED
        BY <3>1, <2>0, <2>3, <1>t DEF Accounting
    <2> QED
      BY <2>1, <2>2, <2>4, <1>9, <1>t
      DEF TakeTask, IndInv, SlotsBounded, NoLostSpaceWakeup, NoStrandedFlusher
  <1>10. ASSUME NEW w \in Workers, FinishTask(w) PROVE IndInv'
    <2> DEFINE S == {u \in Callers \ {w} : pc[u] \in {"submit", "undo"}}
    <2>1. S = Submitting /\ Busy' = Busy \ {w} /\ w \in Busy
      BY <1>10, <1>t DEF FinishTask, Submitting, Busy, TypeOK
    <2>2. Cardinality(Busy') = Cardinality(Busy) - 1 /\ Cardinality(Busy') \in Nat
      BY <2>1, FS_RemoveElement, FS_CardinalityType
    <2>4. Cardinality(S) + Len(queue) + Cardinality(Busy') = outstanding - 1
          /\ outstanding > 0
      <3>1. Cardinality(S) = Cardinality(Submitting)
        BY <2>1
      <3> QED
        BY <3>1, <2>2, <1>l, <1>t DEF Accounting
    <2>5. /\ w \in Callers /\ pc[w] \in {"undo", "out"} /\ CompleteOne(w)
          /\ UNCHANGED <<queue, cur>> /\ task' \in [Workers -> Env \cup {NoEnv}]
      BY <1>10, <1>t DEF FinishTask, TypeOK, Callers
    <2> QED
      BY <2>4, <2>5, CompleteStep
  <1>11. ASSUME NEW t \in Callers, Flush(t) PROVE IndInv'
    <2>1. cur' = [cur EXCEPT ![t] = cur[t]] /\ cur[t] \in Env \cup {NoEnv}
      BY <1>11, <1>t DEF Flush, TypeOK
    <2> QED
      BY <2>1, <1>11, QuietStep DEF Flush, CanCall, Labels
  <1>12. ASSUME NEW t \in Callers, FlushReturn(t) PROVE IndInv'
    <2>1. cur' = [cur EXCEPT ![t] = cur[t]] /\ cur[t] \in Env \cup {NoEnv}
      BY <1>12, <1>t DEF FlushReturn, TypeOK
    <2> QED
      BY <2>1, <1>12, QuietStep DEF FlushReturn, Labels
  <1>13. ASSUME NEW t \in Callers, BlockOnDrain(t) PROVE IndInv'
    <2>1. TypeOK' /\ SubmitterHasEnvelope'
      BY <1>13, <1>t DEF BlockOnDrain, TypeOK, SubmitterHasEnvelope, Labels
    <2>2. /\ Submitting' = Submitting /\ Busy' = Busy
          /\ At("spaceWait")' = At("spaceWait") /\ At("reserve")' = At("reserve")
      BY <1>13, <1>t DEF BlockOnDrain, TypeOK, Submitting, Busy, At
    <2> QED
      BY <2>1, <2>2, <1>13, <1>t
      DEF BlockOnDrain, IndInv, TypeOK, Accounting, SlotsBounded, NoLostSpaceWakeup,
          NoStrandedFlusher
  <1>14. ASSUME NEW t \in Callers, SpuriousWakeup(t) PROVE IndInv'
    <2>1. TypeOK' /\ SubmitterHasEnvelope'
      BY <1>14, <1>t DEF SpuriousWakeup, TypeOK, SubmitterHasEnvelope, Labels
    <2>2. Submitting' = Submitting /\ Busy' = Busy
      BY <1>14, <1>t DEF SpuriousWakeup, TypeOK, Submitting, Busy
    <2>3. At("drainWait")' \subseteq At("drainWait") /\ At("spaceWait")' \subseteq At("spaceWait")
      BY <1>14, <1>t DEF SpuriousWakeup, TypeOK, At
    <2>4. \/ At("reserve")' = At("reserve")
          \/ At("reserve")' = At("reserve") \cup {t}
      BY <1>14, <1>t DEF SpuriousWakeup, TypeOK, At
    <2>5. Cardinality(At("reserve")') \in Nat
          /\ Cardinality(At("reserve")') >= Cardinality(At("reserve"))
      <3>1. CASE At("reserve")' = At("reserve")
        BY <3>1
      <3>2. CASE At("reserve")' = At("reserve") \cup {t}
        <4>1. Cardinality(At("reserve") \cup {t})
                = IF t \in At("reserve") THEN Cardinality(At("reserve"))
                                         ELSE Cardinality(At("reserve")) + 1
          BY FS_AddElement
        <4>2. Cardinality(At("reserve")') = Cardinality(At("reserve") \cup {t})
          BY <3>2
        <4> HIDE <3>2
        <4> QED
          BY <4>1, <4>2
      <3> QED
        BY <2>4, <3>1, <3>2
    <2> QED
      BY <2>1, <2>2, <2>3, <2>5, <1>14, <1>t
      DEF SpuriousWakeup, IndInv, TypeOK, Accounting, SlotsBounded, NoLostSpaceWakeup,
          NoStrandedFlusher
  <1>15. CASE UNCHANGED vars
    BY <1>15 DEF vars, IndInv, TypeOK, SubmitterHasEnvelope, Accounting, SlotsBounded,
       NoLostSpaceWakeup, NoStrandedFlusher, Submitting, Busy, At
  <1> QED
    BY <1>1, <1>2, <1>3, <1>4, <1>5, <1>6, <1>7, <1>8, <1>9, <1>10, <1>11, <1>12,
       <1>13, <1>14, <1>15 DEF Next, Call, Progress, Work

\* The initial state satisfies the inductive invariant.
LEMMA IndInvInit == Init => IndInv
  <1> SUFFICES ASSUME Init PROVE IndInv
    OBVIOUS
  <1>1. TypeOK /\ SubmitterHasEnvelope
    BY EmptySeq DEF Init, TypeOK, SubmitterHasEnvelope, Labels
  <1>2. Submitting = {} /\ Busy = {} /\ At("spaceWait") = {} /\ At("drainWait") = {}
    BY DEF Init, Submitting, Busy, At
  <1>3. Len(queue) = 0 /\ Cardinality({}) = 0
    BY EmptySeq, FS_EmptySet DEF Init
  <1> QED
    BY <1>1, <1>2, <1>3, CapacityAssumption
    DEF Init, IndInv, Accounting, SlotsBounded, NoLostSpaceWakeup, NoStrandedFlusher

\* The inductive invariant holds in every reachable state of the transport.
THEOREM Invariance == Spec => []IndInv
  BY IndInvInit, IndInvStep, PTL DEF Spec

\* Type correctness: in particular the unsigned outstanding_ never wraps below
\* zero, whatever the interleaving of completions and failed submissions.
THEOREM TypeCorrect == Spec => []TypeOK
  <1>1. IndInv => TypeOK
    BY DEF IndInv
  <1> QED
    BY <1>1, Invariance, PTL

\* outstanding_ is exactly the number of units in flight.
THEOREM AccountingHolds == Spec => []Accounting
  <1>1. IndInv => Accounting
    BY DEF IndInv
  <1> QED
    BY <1>1, Invariance, PTL

\* Back-pressure: queued and running work never exceeds the configured bound.
THEOREM BacklogBoundHolds == Spec => []BacklogBounded
  <1>1. IndInv => BacklogBounded
    <2> SUFFICES ASSUME IndInv PROVE BacklogBounded
      OBVIOUS
    <2>1. Len(queue) \in Nat
      BY LenProperties DEF IndInv, TypeOK
    <2> QED
      BY <2>1, FiniteThreads, CapacityAssumption
      DEF IndInv, TypeOK, Accounting, SlotsBounded, BacklogBounded
  <1> QED
    BY <1>1, Invariance, PTL

\* Neither condition variable loses a wakeup: a free slot always has an awake
\* claimant, and nobody sleeps in flush() while the transport is idle.
THEOREM NoLostWakeups == Spec => []WakeupsReachSleepers
  <1>1. IndInv => WakeupsReachSleepers
    BY DEF IndInv, WakeupsReachSleepers
  <1> QED
    BY <1>1, Invariance, PTL

\* A zero counter means that nothing is queued, submitted or delivered.
LEMMA IdleFacts ==
    ASSUME IndInv, outstanding = 0
    PROVE  queue = <<>> /\ Busy = {} /\ Submitting = {}
  <1>1. Len(queue) \in Nat
    BY LenProperties DEF IndInv, TypeOK
  <1>2. Cardinality(Submitting) = 0 /\ Cardinality(Busy) = 0 /\ Len(queue) = 0
    BY <1>1, FiniteThreads DEF IndInv, Accounting
  <1>3. Submitting = {} /\ Busy = {}
    BY <1>2, FS_EmptySet, FiniteThreads
  <1>4. queue = <<>>
    BY <1>2, EmptySeq DEF IndInv, TypeOK
  <1> QED
    BY <1>3, <1>4

\* flush() is a barrier: the step in which it returns is taken only when no
\* unit is queued, being submitted or being delivered.
THEOREM FlushIsBarrier == Spec => FlushReturnsIdle
  <1> DEFINE Barrier == \A t \in Callers :
                          pc[t] = "flush" /\ pc'[t] = "out"
                             => queue = <<>> /\ Busy = {} /\ Submitting = {}
  <1>1. IndInv /\ [Next]_vars => [Barrier]_vars
    <2> SUFFICES ASSUME IndInv, Next, NEW t \in Callers, pc[t] = "flush", pc'[t] = "out"
                 PROVE  queue = <<>> /\ Busy = {} /\ Submitting = {}
      OBVIOUS
    <2>1. outstanding = 0
      <3>1. ASSUME NEW u \in Callers, CompleteOne(u), pc[u] # "flush" PROVE FALSE
        BY <3>1 DEF CompleteOne, NotifyOne, NotifyAll, At
      <3>2. ASSUME NEW u \in Callers, Call(u) \/ Progress(u) \/ SpuriousWakeup(u)
            PROVE  outstanding = 0
        BY <3>1, <3>2
        DEF IndInv, TypeOK, Call, Progress, Dispatch, DispatchInline, InlineReturn, Reserve,
            BlockOnSpace, Execute, Reject, Undo, Flush, FlushReturn, BlockOnDrain,
            SpuriousWakeup, CanCall
      <3>3. ASSUME NEW w \in Workers, Work(w) PROVE outstanding = 0
        BY <3>1, <3>3 DEF Work, TakeTask, FinishTask, Callers
      <3> QED
        BY <3>2, <3>3 DEF Next
    <2> QED
      BY <2>1, IdleFacts
  <1> QED
    BY <1>1, Invariance, PTL DEF Spec, FlushReturnsIdle

-----------------------------------------------------------------------------
(* The refinement of AsyncDelivery *)

\* The units that the refinement mapping counts for an envelope.
Slots(e) == {i \in 1..Len(queue) : queue[i] = e}
Submits(e) == {t \in At("submit") : cur[t] = e}
Runs(e) == {w \in Workers : task[w] = e}

WaitingUnits(e) == Cardinality(Slots(e)) + Cardinality(Submits(e))
RunningUnits(e) == Cardinality(Runs(e))
Flushers == At("flush") \cup At("drainWait")

\* The three sets are finite.
LEMMA UnitsFinite ==
    ASSUME TypeOK, NEW e
    PROVE  /\ IsFiniteSet(Slots(e)) /\ Cardinality(Slots(e)) \in Nat
           /\ IsFiniteSet(Submits(e)) /\ Cardinality(Submits(e)) \in Nat
           /\ IsFiniteSet(Runs(e)) /\ Cardinality(Runs(e)) \in Nat
           /\ WaitingUnits(e) \in Nat /\ RunningUnits(e) \in Nat
  <1>1. IsFiniteSet(1..Len(queue))
    BY LenProperties, FS_Interval DEF TypeOK
  <1>2. Slots(e) \subseteq 1..Len(queue) /\ Submits(e) \subseteq Callers /\ Runs(e) \subseteq Workers
    BY DEF Slots, Submits, Runs, At
  <1>3. IsFiniteSet(Slots(e)) /\ IsFiniteSet(Submits(e)) /\ IsFiniteSet(Runs(e))
    BY <1>1, <1>2, FS_Subset, FiniteThreads, ThreadsAssumption
  <1>4. /\ Cardinality(Slots(e)) \in Nat /\ Cardinality(Submits(e)) \in Nat
        /\ Cardinality(Runs(e)) \in Nat
    BY <1>3, FS_CardinalityType
  <1> QED
    BY <1>3, <1>4 DEF WaitingUnits, RunningUnits

\* The abstract state is a function of these counts.
LEMMA StutterMaps ==
    ASSUME \A e \in Env : WaitingUnits(e)' = WaitingUnits(e) /\ RunningUnits(e)' = RunningUnits(e),
           Flushers' = Flushers
    PROVE  [Abstract!Next]_(Abstract!absVars)
  BY DEF WaitingUnits, RunningUnits, Slots, Submits, Runs, Flushers, Abstract!absVars

\* One unit of e joins the waiting ones.
LEMMA AcceptMaps ==
    ASSUME NEW e \in Env, WaitingUnits(e)' = WaitingUnits(e) + 1,
           \A d \in Env \ {e} : WaitingUnits(d)' = WaitingUnits(d),
           \A d \in Env : RunningUnits(d)' = RunningUnits(d), Flushers' = Flushers
    PROVE  Abstract!Accept(e)
  BY DEF WaitingUnits, RunningUnits, Slots, Submits, Runs, Flushers, Abstract!Accept

\* One waiting unit of e is dropped.
LEMMA RefuseMaps ==
    ASSUME NEW e \in Env, MayReject, WaitingUnits(e) > 0, WaitingUnits(e)' = WaitingUnits(e) - 1,
           \A d \in Env \ {e} : WaitingUnits(d)' = WaitingUnits(d),
           \A d \in Env : RunningUnits(d)' = RunningUnits(d), Flushers' = Flushers
    PROVE  Abstract!Refuse(e)
  BY DEF WaitingUnits, RunningUnits, Slots, Submits, Runs, Flushers, Abstract!Refuse

\* One waiting unit of e becomes a running one.
LEMMA StartMaps ==
    ASSUME NEW e \in Env, WaitingUnits(e) > 0, WaitingUnits(e)' = WaitingUnits(e) - 1,
           RunningUnits(e)' = RunningUnits(e) + 1,
           \A d \in Env \ {e} : WaitingUnits(d)' = WaitingUnits(d) /\ RunningUnits(d)' = RunningUnits(d),
           Flushers' = Flushers
    PROVE  Abstract!Start(e)
  BY DEF WaitingUnits, RunningUnits, Slots, Submits, Runs, Flushers, Abstract!Start

\* One running unit of e ends.
LEMMA FinishMaps ==
    ASSUME NEW e \in Env, RunningUnits(e) > 0, RunningUnits(e)' = RunningUnits(e) - 1,
           \A d \in Env \ {e} : RunningUnits(d)' = RunningUnits(d),
           \A d \in Env : WaitingUnits(d)' = WaitingUnits(d), Flushers' = Flushers
    PROVE  Abstract!Finish(e)
  BY DEF WaitingUnits, RunningUnits, Slots, Submits, Runs, Flushers, Abstract!Finish

\* The slots behind the first move up by one when it is taken.
LEMMA ShiftSlots ==
    ASSUME NEW q \in Seq(Env), q # <<>>, NEW e \in Env
    PROVE  Cardinality({i \in 1..Len(Tail(q)) : Tail(q)[i] = e})
             = Cardinality({i \in 1..Len(q) : q[i] = e}) - (IF Head(q) = e THEN 1 ELSE 0)
  <1> DEFINE r == Tail(q)
             S == {i \in 1..Len(r) : r[i] = e}
             T == {i \in 1..Len(q) : q[i] = e} \ {1}
             Q == {i \in 1..Len(q) : q[i] = e}
             f == [i \in S |-> i + 1]
  <1>1. /\ Len(q) \in Nat /\ Len(q) >= 1 /\ Len(r) = Len(q) - 1 /\ Head(q) = q[1]
        /\ \A i \in 1..Len(r) : r[i] = q[i + 1]
    BY HeadTailProperties, EmptySeq, LenProperties
  <1> HIDE DEF r
  <1>2. f \in Bijection(S, T)
    <2>1. f \in [S -> T]
      BY <1>1
    <2>2. \A i, j \in S : f[i] = f[j] => i = j
      BY <1>1
    <2>3. \A j \in T : \E i \in S : f[i] = j
      <3> SUFFICES ASSUME NEW j \in T  PROVE \E i \in S : f[i] = j
        OBVIOUS
      <3>1. j - 1 \in S /\ f[j - 1] = j
        BY <1>1
      <3> QED
        BY <3>1
    <2> HIDE DEF S, T, f
    <2> QED
      BY <2>1, <2>2, <2>3, Fun_IsBij
  <1>3. IsFiniteSet(Q) /\ IsFiniteSet(S)
    <2>1. IsFiniteSet(1..Len(q)) /\ IsFiniteSet(1..Len(r))
      BY <1>1, FS_Interval
    <2>2. Q \subseteq 1..Len(q) /\ S \subseteq 1..Len(r)
      OBVIOUS
    <2> QED
      BY <2>1, <2>2, FS_Subset
  <1> HIDE DEF S, f
  <1>4. Cardinality(T) = Cardinality(S)
    BY <1>2, <1>3, FS_Bijection, Fun_ExistsBij
  <1>5. 1 \in Q <=> Head(q) = e
    BY <1>1
  <1>6. T = Q \ {1}
    OBVIOUS
  <1> HIDE DEF T, Q
  <1>7. CASE Head(q) = e
    BY <1>3, <1>4, <1>5, <1>6, <1>7, FS_RemoveElement DEF S, Q, r
  <1>8. CASE Head(q) # e
    <2>1. T = Q
      BY <1>5, <1>6, <1>8
    <2>2. Cardinality(Q) \in Nat
      BY <1>3, FS_CardinalityType
    <2>3. Cardinality(S) = Cardinality(Q) - 0
      BY <2>1, <2>2, <1>4
    <2> QED
      BY <2>3, <1>8 DEF S, Q, r
  <1> QED
    BY <1>7, <1>8

\* A step that takes no unit anywhere and lets nobody in or out of flush().
LEMMA SameUnits ==
    ASSUME TypeOK, UNCHANGED <<queue, task>>, Flushers' = Flushers,
           \A t \in Callers : pc'[t] = "submit" <=> pc[t] = "submit",
           \A t \in Callers : pc[t] = "submit" => cur'[t] = cur[t]
    PROVE  /\ [Abstract!Next]_(Abstract!absVars)
           /\ \A e \in Env : Slots(e)' = Slots(e) /\ Submits(e)' = Submits(e) /\ Runs(e)' = Runs(e)
  <1>1. \A e \in Env : Slots(e)' = Slots(e) /\ Submits(e)' = Submits(e) /\ Runs(e)' = Runs(e)
    BY DEF Slots, Submits, Runs, At
  <1>2. \A e \in Env : WaitingUnits(e)' = WaitingUnits(e) /\ RunningUnits(e)' = RunningUnits(e)
    BY <1>1 DEF WaitingUnits, RunningUnits
  <1> QED
    BY <1>1, <1>2, StutterMaps

\* complete_one() only moves sleepers back to their predicates.
LEMMA CompleteMoves ==
    ASSUME TypeOK, NEW t \in Callers, pc[t] \in {"undo", "out"}, CompleteOne(t)
    PROVE  /\ \A u \in Callers : pc'[u] = "submit" <=> pc[u] = "submit"
           /\ Flushers' = Flushers
  <1>1. PICK woken \in NotifyOne :
          pc' = [u \in Callers |-> IF u \in woken THEN "reserve"
                                   ELSE IF u \in NotifyAll THEN "flush"
                                   ELSE IF u = t THEN "out" ELSE pc[u]]
    BY DEF CompleteOne
  <1>2. woken \subseteq At("spaceWait") /\ NotifyAll \subseteq At("drainWait")
    BY DEF NotifyOne, NotifyAll
  <1>3. \A u \in Callers : pc'[u] = IF u \in woken THEN "reserve"
                                    ELSE IF u \in NotifyAll THEN "flush"
                                    ELSE IF u = t THEN "out" ELSE pc[u]
    BY <1>1
  <1>4. \A u \in Callers : (u \in woken => pc[u] = "spaceWait") /\ (u \in NotifyAll => pc[u] = "drainWait")
    BY <1>2 DEF At
  <1>5. \A u \in Callers : pc'[u] \in {"flush", "drainWait"} <=> pc[u] \in {"flush", "drainWait"}
    BY <1>3, <1>4
  <1>6. \A u \in Callers : pc'[u] = "submit" <=> pc[u] = "submit"
    BY <1>3, <1>4
  <1> QED
    BY <1>5, <1>6 DEF Flushers, At

\* Every step of the transport is a step of AsyncDelivery, or none.
LEMMA StepRefines == IndInv /\ [Next]_vars => [Abstract!Next]_(Abstract!absVars)
  <1> SUFFICES ASSUME IndInv, [Next]_vars  PROVE [Abstract!Next]_(Abstract!absVars)
    OBVIOUS
  <1>t. TypeOK /\ SubmitterHasEnvelope /\ Accounting
    BY DEF IndInv
  <1>p. pc \in [Callers -> Labels] /\ cur \in [Callers -> Env \cup {NoEnv}] /\ queue \in Seq(Env)
        /\ task \in [Workers -> Env \cup {NoEnv}]
    BY <1>t DEF TypeOK
  <1>u. ASSUME NEW e \in Env
        PROVE  /\ IsFiniteSet(Slots(e)) /\ Cardinality(Slots(e)) \in Nat
               /\ IsFiniteSet(Submits(e)) /\ Cardinality(Submits(e)) \in Nat
               /\ IsFiniteSet(Runs(e)) /\ Cardinality(Runs(e)) \in Nat
    BY <1>t, UnitsFinite
  <1>1. ASSUME NEW t \in Callers,
               \/ \E e \in Env : Dispatch(t, e) \/ DispatchInline(t, e)
               \/ InlineReturn(t) \/ BlockOnSpace(t) \/ BlockOnDrain(t) \/ SpuriousWakeup(t)
        PROVE  [Abstract!Next]_(Abstract!absVars)
    <2>1. UNCHANGED <<queue, task>>
      BY <1>1 DEF Dispatch, DispatchInline, InlineReturn, BlockOnSpace, BlockOnDrain, SpuriousWakeup
    <2>2. \A u \in Callers : /\ pc'[u] = "submit" <=> pc[u] = "submit"
                             /\ pc'[u] \in {"flush", "drainWait"} <=> pc[u] \in {"flush", "drainWait"}
                             /\ pc[u] = "submit" => cur'[u] = cur[u]
      BY <1>1, <1>p DEF Dispatch, DispatchInline, InlineReturn, BlockOnSpace, BlockOnDrain,
                        SpuriousWakeup, CanCall
    <2>3. Flushers' = Flushers
      BY <2>2 DEF Flushers, At
    <2> QED
      BY <2>1, <2>2, <2>3, <1>t, SameUnits
  <1>2. ASSUME NEW t \in Callers, Reserve(t)  PROVE [Abstract!Next]_(Abstract!absVars)
    <2>0. PICK e \in Env : cur[t] = e
      BY <1>2, <1>t DEF Reserve, SubmitterHasEnvelope
    <2>1. UNCHANGED <<queue, task, cur>>
      BY <1>2 DEF Reserve
    <2>2. /\ At("submit")' = At("submit") \cup {t} /\ t \notin At("submit")
          /\ Flushers' = Flushers
      BY <1>2, <1>p DEF Reserve, At, Flushers
    <2>3. /\ Submits(e)' = Submits(e) \cup {t} /\ t \notin Submits(e)
          /\ \A d \in Env \ {e} : Submits(d)' = Submits(d)
      BY <2>0, <2>1, <2>2 DEF Submits
    <2>4. \A d \in Env : Slots(d)' = Slots(d) /\ Runs(d)' = Runs(d)
      BY <2>1 DEF Slots, Runs
    <2>5. Cardinality(Submits(e)') = Cardinality(Submits(e)) + 1
      BY <2>1, <2>3, <1>u, FS_AddElement
    <2>6. WaitingUnits(e)' = WaitingUnits(e) + 1
      BY <2>1, <2>4, <2>5, <1>u DEF WaitingUnits
    <2>7. /\ \A d \in Env \ {e} : WaitingUnits(d)' = WaitingUnits(d)
          /\ \A d \in Env : RunningUnits(d)' = RunningUnits(d)
      BY <2>3, <2>4 DEF WaitingUnits, RunningUnits
    <2>8. Abstract!Accept(e)
      BY <2>1, <2>2, <2>6, <2>7, AcceptMaps
    <2> QED
      BY <2>1, <2>8 DEF Abstract!Next
  <1>3. ASSUME NEW t \in Callers, Execute(t)  PROVE [Abstract!Next]_(Abstract!absVars)
    <2>0. PICK e \in Env : cur[t] = e
      BY <1>3, <1>t DEF Execute, SubmitterHasEnvelope
    <2>n. PICK n \in Nat : Len(queue) = n
      BY <1>p, LenProperties
    <2>1. queue' = Append(queue, e) /\ task' = task /\ t \in Submits(e)
      BY <1>3, <2>0 DEF Execute, Submits, At
    <2>2. Len(queue') = n + 1 /\ queue'[n + 1] = e /\ \A i \in 1..n : queue'[i] = queue[i]
      BY <2>n, <2>1, <1>p, AppendProperties
    <2>3. /\ \A u \in Callers : pc'[u] = "submit" <=> pc[u] = "submit" /\ u # t
          /\ \A u \in Callers : u # t => cur'[u] = cur[u]
          /\ Flushers' = Flushers
      BY <1>3, <1>p DEF Execute, At, Flushers
    <2>4. \A d \in Env : Submits(d)' = Submits(d) \ {t}
      BY <2>3 DEF Submits, At
    <2>5. \A d \in Env \ {e} : t \notin Submits(d)
      BY <2>0 DEF Submits
    <2>6. \A d \in Env \ {e} : Slots(d)' = Slots(d)
      BY <2>n, <2>2 DEF Slots
    <2>7. Slots(e)' = Slots(e) \cup {n + 1} /\ n + 1 \notin Slots(e)
      BY <2>n, <2>2 DEF Slots
    <2>8. Cardinality(Slots(e)') = Cardinality(Slots(e)) + 1
      BY <2>1, <2>7, <1>u, FS_AddElement
    <2>9. Cardinality(Submits(e)') = Cardinality(Submits(e)) - 1
      BY <2>1, <2>4, <1>u, FS_RemoveElement
    <2>10. WaitingUnits(e)' = WaitingUnits(e)
      BY <2>1, <2>8, <2>9, <1>u DEF WaitingUnits
    <2>11. \A d \in Env \ {e} : WaitingUnits(d)' = WaitingUnits(d)
      BY <2>4, <2>5, <2>6 DEF WaitingUnits
    <2>12. \A d \in Env : RunningUnits(d)' = RunningUnits(d)
      BY <2>1 DEF RunningUnits, Runs
    <2> QED
      BY <2>3, <2>10, <2>11, <2>12, StutterMaps
  <1>4. ASSUME NEW t \in Callers, Reject(t)  PROVE [Abstract!Next]_(Abstract!absVars)
    <2>0. PICK e \in Env : cur[t] = e
      BY <1>4, <1>t DEF Reject, SubmitterHasEnvelope
    <2>1. UNCHANGED <<queue, task>> /\ t \in Submits(e) /\ MayReject
      BY <1>4, <2>0 DEF Reject, Submits, At
    <2>2. /\ \A u \in Callers : pc'[u] = "submit" <=> pc[u] = "submit" /\ u # t
          /\ \A u \in Callers : u # t => cur'[u] = cur[u]
          /\ Flushers' = Flushers
      BY <1>4, <1>p DEF Reject, At, Flushers
    <2>3. \A d \in Env : Submits(d)' = Submits(d) \ {t}
      BY <2>2 DEF Submits, At
    <2>4. \A d \in Env \ {e} : t \notin Submits(d)
      BY <2>0 DEF Submits
    <2>5. \A d \in Env : Slots(d)' = Slots(d) /\ Runs(d)' = Runs(d)
      BY <2>1 DEF Slots, Runs
    <2>6. Cardinality(Submits(e)') = Cardinality(Submits(e)) - 1 /\ Cardinality(Submits(e)') \in Nat
      BY <2>1, <2>3, <1>u, FS_RemoveElement, FS_CardinalityType
    <2>7. WaitingUnits(e)' = WaitingUnits(e) - 1 /\ WaitingUnits(e) > 0
      BY <2>1, <2>5, <2>6, <1>u DEF WaitingUnits
    <2>8. /\ \A d \in Env \ {e} : WaitingUnits(d)' = WaitingUnits(d)
          /\ \A d \in Env : RunningUnits(d)' = RunningUnits(d)
      BY <2>3, <2>4, <2>5 DEF WaitingUnits, RunningUnits
    <2>9. Abstract!Refuse(e)
      BY <2>1, <2>2, <2>7, <2>8, RefuseMaps
    <2> QED
      BY <2>1, <2>9 DEF Abstract!Next
  <1>5. ASSUME NEW t \in Callers, Undo(t)  PROVE [Abstract!Next]_(Abstract!absVars)
    BY <1>5, <1>t, CompleteMoves, SameUnits DEF Undo
  <1>6. ASSUME NEW w \in Workers, TakeTask(w)  PROVE [Abstract!Next]_(Abstract!absVars)
    <2>1. queue # <<>> /\ queue' = Tail(queue) /\ UNCHANGED <<pc, cur>> /\ task[w] = NoEnv
      BY <1>6 DEF TakeTask
    <2>2. PICK e \in Env : Head(queue) = e
      BY <2>1, <1>p, HeadTailProperties
    <2>0. task' = [task EXCEPT ![w] = e]
      BY <1>6, <2>2 DEF TakeTask
    <2>3. \A d \in Env : Cardinality(Slots(d)') = Cardinality(Slots(d)) - (IF e = d THEN 1 ELSE 0)
      BY <2>1, <2>2, <1>p, ShiftSlots DEF Slots
    <2>4. \A d \in Env : Submits(d)' = Submits(d)
      BY <2>1 DEF Submits, At
    <2>5. Runs(e)' = Runs(e) \cup {w} /\ w \notin Runs(e) /\ \A d \in Env \ {e} : Runs(d)' = Runs(d)
      BY <2>0, <2>1, <1>p, EnvAssumption DEF Runs
    <2>6. Cardinality(Runs(e)') = Cardinality(Runs(e)) + 1
      BY <2>2, <2>5, <1>u, FS_AddElement
    <2>7. Cardinality(Slots(e)') = Cardinality(Slots(e)) - 1
      BY <2>2, <2>3
    <2>8. Cardinality(Slots(e)) >= 1
      <3>1. 1 \in Slots(e)
        BY <2>1, <2>2, <1>p, HeadTailProperties, EmptySeq, LenProperties DEF Slots
      <3> QED
        BY <3>1, <1>u, FS_EmptySet
    <2>9. WaitingUnits(e)' = WaitingUnits(e) - 1 /\ WaitingUnits(e) > 0
      BY <2>2, <2>4, <2>7, <2>8, <1>u DEF WaitingUnits
    <2>10. RunningUnits(e)' = RunningUnits(e) + 1
      BY <2>6 DEF RunningUnits
    <2>11. ASSUME NEW d \in Env \ {e}
           PROVE  WaitingUnits(d)' = WaitingUnits(d) /\ RunningUnits(d)' = RunningUnits(d)
      <3>1. Cardinality(Slots(d)') = Cardinality(Slots(d))
        BY <2>3, <1>u
      <3> QED
        BY <3>1, <2>4, <2>5 DEF WaitingUnits, RunningUnits
    <2>12. Flushers' = Flushers
      BY <2>1 DEF Flushers, At
    <2>13. Abstract!Start(e)
      BY <2>2, <2>9, <2>10, <2>11, <2>12, StartMaps
    <2> QED
      BY <2>2, <2>13 DEF Abstract!Next
  <1>7. ASSUME NEW w \in Workers, FinishTask(w)  PROVE [Abstract!Next]_(Abstract!absVars)
    <2>0. PICK e \in Env : task[w] = e
      BY <1>7, <1>p DEF FinishTask
    <2>1. /\ UNCHANGED <<queue, cur>> /\ task' = [task EXCEPT ![w] = NoEnv]
          /\ w \in Callers /\ pc[w] = "out" /\ CompleteOne(w)
      BY <1>7 DEF FinishTask, Callers
    <2>2. Flushers' = Flushers /\ \A u \in Callers : pc'[u] = "submit" <=> pc[u] = "submit"
      BY <2>1, <1>t, CompleteMoves
    <2>3. \A d \in Env : Slots(d)' = Slots(d) /\ Submits(d)' = Submits(d)
      BY <2>1, <2>2 DEF Slots, Submits, At
    <2>4. Runs(e)' = Runs(e) \ {w} /\ w \in Runs(e) /\ \A d \in Env \ {e} : Runs(d)' = Runs(d)
      BY <2>0, <2>1, <1>p, EnvAssumption DEF Runs
    <2>5. Cardinality(Runs(e)') = Cardinality(Runs(e)) - 1 /\ Cardinality(Runs(e)') \in Nat
      BY <2>1, <2>4, <1>u, FS_RemoveElement, FS_CardinalityType
    <2>6. RunningUnits(e)' = RunningUnits(e) - 1 /\ RunningUnits(e) > 0
      BY <2>1, <2>5, <1>u DEF RunningUnits
    <2>7. /\ \A d \in Env \ {e} : RunningUnits(d)' = RunningUnits(d)
          /\ \A d \in Env : WaitingUnits(d)' = WaitingUnits(d)
      BY <2>3, <2>4 DEF WaitingUnits, RunningUnits
    <2>8. Abstract!Finish(e)
      BY <2>1, <2>2, <2>6, <2>7, FinishMaps
    <2> QED
      BY <2>1, <2>8 DEF Abstract!Next
  <1>8. ASSUME NEW t \in Callers, Flush(t) \/ FlushReturn(t)
        PROVE  [Abstract!Next]_(Abstract!absVars)
    <2>1. /\ UNCHANGED <<queue, task, cur>>
          /\ \A u \in Callers : pc'[u] = "submit" <=> pc[u] = "submit"
      BY <1>8, <1>p DEF Flush, FlushReturn, CanCall
    <2>2. \A e \in Env : Slots(e)' = Slots(e) /\ Submits(e)' = Submits(e) /\ Runs(e)' = Runs(e)
      BY <2>1 DEF Slots, Submits, Runs, At
    <2>3. \A e \in Env : WaitingUnits(e)' = WaitingUnits(e) /\ RunningUnits(e)' = RunningUnits(e)
      BY <2>2 DEF WaitingUnits, RunningUnits
    <2>4. CASE Flush(t)
      <3>1. Flushers' = Flushers \cup {t} /\ t \notin Flushers
        BY <2>4, <1>p DEF Flush, CanCall, Flushers, At
      <3>2. Abstract!FlushBegin(t)
        BY <2>3, <3>1
           DEF Abstract!FlushBegin, WaitingUnits, RunningUnits, Slots, Submits, Runs, Flushers
      <3> QED
        BY <3>2 DEF Abstract!Next
    <2>5. CASE FlushReturn(t)
      <3>1. Flushers' = Flushers \ {t} /\ t \in Flushers
        BY <2>5, <1>p DEF FlushReturn, Flushers, At
      <3>2. queue = <<>> /\ Busy = {} /\ Submitting = {}
        <4>1. outstanding = 0
          BY <2>5 DEF FlushReturn
        <4> QED
          BY <4>1, IdleFacts
      <3>3. \A e \in Env : Slots(e) = {} /\ Submits(e) = {} /\ Runs(e) = {}
        BY <3>2, EnvAssumption, EmptySeq DEF Slots, Submits, Runs, Busy, Submitting, At
      <3>4. \A e \in Env : WaitingUnits(e) = 0 /\ RunningUnits(e) = 0
        BY <3>3, FS_EmptySet DEF WaitingUnits, RunningUnits
      <3>5. Abstract!FlushEnd(t)
        BY <2>3, <3>1, <3>4 DEF Abstract!FlushEnd, WaitingUnits, RunningUnits, Slots, Submits, Runs,
                               Flushers
      <3> QED
        BY <3>5 DEF Abstract!Next
    <2> QED
      BY <1>8, <2>4, <2>5
  <1>9. CASE UNCHANGED vars
    <2>1. UNCHANGED <<queue, task, cur, pc>>
      BY <1>9 DEF vars
    <2>2. Flushers' = Flushers
      BY <2>1 DEF Flushers, At
    <2> QED
      BY <2>1, <2>2, <1>t, SameUnits
  <1> QED
    BY <1>1, <1>2, <1>3, <1>4, <1>5, <1>6, <1>7, <1>8, <1>9 DEF Next, Call, Progress, Work

\* The transport delivers every accepted envelope exactly once, unless the pool
\* refuses it, and its flush() is a barrier: for any threads, workers, capacity
\* and handlers it implements AsyncDelivery.
THEOREM Refinement == Spec => ImplementsAsyncDelivery
  <1>1. Init => Abstract!Init
    <2> SUFFICES ASSUME Init  PROVE Abstract!Init
      OBVIOUS
    <2>1. \A e \in Env : Slots(e) = {} /\ Submits(e) = {} /\ Runs(e) = {}
      BY EnvAssumption, EmptySeq DEF Init, Slots, Submits, Runs, At
    <2>2. \A e \in Env : WaitingUnits(e) = 0 /\ RunningUnits(e) = 0
      BY <2>1, FS_EmptySet DEF WaitingUnits, RunningUnits
    <2>3. Flushers = {}
      BY DEF Init, Flushers, At
    <2> QED
      BY <2>2, <2>3 DEF Abstract!Init, WaitingUnits, RunningUnits, Slots, Submits, Runs, Flushers
  <1> QED
    BY <1>1, StepRefines, Invariance, PTL DEF Spec, ImplementsAsyncDelivery, Abstract!Spec
=============================================================================
