-------------------------- MODULE MCLocalTransport --------------------------
(* Instances of LocalTransport for TLC. *)
EXTENDS LocalTransport, TLC

CONSTANTS p1, p2, p3, w1, w2, e1, e2, d1

TwoProducers == {p1, p2}
ThreeProducers == {p1, p2, p3}
OneWorker == {w1}
TwoWorkers == {w1, w2}
TwoEnvs == {e1, e2}
MixedEnvs == {e1, d1}
DirectOnly == {d1}
NoneDirect == {}
NoCalls == {}
AnyCall == {"dispatch", "flush"}

ThreadSymmetry == Permutations(ThreeProducers) \cup Permutations(TwoWorkers)
=============================================================================
