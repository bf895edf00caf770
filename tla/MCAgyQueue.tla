---------------------------- MODULE MCAgyQueue ----------------------------
(* Instances of AgyQueue for TLC. *)
EXTENDS AgyQueue, TLC

CONSTANTS w1, w2, s1, s2

MCWorkers == {w1, w2}
MCPreflight == {w1}
OneWorker == {w1}
OneJob == {1}
TwoJobs == {1, 2}
OneScope == {s1}
TwoScopes == {s1, s2}
WorkerSymmetry == Permutations(MCWorkers)
ReadOnly == {"READ_ONLY"}
AllKinds == JobKind
=============================================================================
