------------------------------ MODULE MCRelease -----------------------------
(* TLC instances of Release. *)
EXTENDS Release, TLC

CONSTANTS c1, c2, b1, b2, a1, a2
=============================================================================
