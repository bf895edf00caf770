---------------------------- MODULE FencedLease ----------------------------
(***************************************************************************)
(* What an execution lease promises: at most one handle holds it, every    *)
(* grant opens a new epoch, and a holder that lapsed holds nothing again   *)
(* until a new grant.                                                      *)
(***************************************************************************)
EXTENDS Naturals

CONSTANT Handles

NoHandle == "no-handle"

VARIABLES
  holder,  \* the handle that may submit
  epoch    \* the number of grants so far

vars == <<holder, epoch>>

Init == holder = NoHandle /\ epoch = 0

Grant(h) ==
  /\ holder = NoHandle
  /\ holder' = h
  /\ epoch' = epoch + 1

Lapse ==
  /\ holder' = NoHandle
  /\ UNCHANGED epoch

Next == Lapse \/ \E h \in Handles : Grant(h)

Spec == Init /\ [][Next]_vars

=============================================================================
