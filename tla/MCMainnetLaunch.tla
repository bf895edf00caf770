------------------------- MODULE MCMainnetLaunch -------------------------
(* Instances of MainnetLaunch for TLC. *)
EXTENDS MainnetLaunch, TLC

CONSTANTS p1, p2, a1, a2

OneProc == {p1}
TwoProcs == {p1, p2}
OneApproval == {a1}
TwoApprovals == {a1, a2}
\* Bound of the two-process instance, which is about the one-order limit: the
\* session is not continued, one process at a time is degraded, paused or in a
\* control operation, and the kill switch is left to the one-process instance.
Disturbed(w) == w.adapter = "degraded" \/ w.pause \/ w.ctl # "none"
OneDisturbed ==
  /\ \A a \in Approvals : row[a].policy = "STAGED_FIRST_ORDER"
  /\ \A p \in Procs : ~wk[p].kill
  /\ Cardinality({p \in Procs : Disturbed(wk[p])}) <= 1
Symmetric == Permutations(Procs) \cup Permutations(Approvals)
=============================================================================
