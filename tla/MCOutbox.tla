------------------------------ MODULE MCOutbox ------------------------------
(* TLC instances of Outbox. *)
EXTENDS Outbox, TLC

CONSTANTS o1, o2, f2, d1, d2

\* An order o2 and its fill f2; an older order o1 whose rules are unusable.
OrderAndFill == {o2, f2}
TwoOrders == {o1, o2}
MCEventType == [e \in Events |-> IF e = f2 THEN "FILL" ELSE "ORDER"]
MCRank == [e \in Events |-> IF e = o1 THEN 1 ELSE IF e = o2 THEN 2 ELSE 3]
MCOrderOf == [e \in Events |-> IF e = o1 THEN "first" ELSE "second"]
=============================================================================
