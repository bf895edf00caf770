------------------------- MODULE MCExecutionLease -------------------------
(* Instances of ExecutionLease for TLC: two processes, each with two
   successive adapters. *)
EXTENDS ExecutionLease

CONSTANTS o1, o2, h1, h2, h3, h4

MCOwners == {o1, o2}
MCHandles == {h1, h2, h3, h4}
MCOwnerOf == [h \in MCHandles |-> IF h \in {h1, h2} THEN o1 ELSE o2]
=============================================================================
