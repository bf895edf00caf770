----------------------------- MODULE DurableLog -----------------------------
(***************************************************************************)
(* What the persistence boundary promises: an observation becomes durable  *)
(* at most once, is applied to the tables at most once and only after it   *)
(* became durable, and neither is ever undone.                             *)
(***************************************************************************)
CONSTANT Events

VARIABLES
  durable,  \* the observations the database has acknowledged or may have
  applied   \* those that reached the domain tables

vars == <<durable, applied>>

\* Only what is durable is applied.
TypeOK == durable \subseteq Events /\ applied \subseteq durable

Init == durable = {} /\ applied = {}

Record(e) ==
  /\ e \notin durable
  /\ durable' = durable \cup {e}
  /\ UNCHANGED applied

Apply(e) ==
  /\ e \in durable \ applied
  /\ applied' = applied \cup {e}
  /\ UNCHANGED durable

Next == \E e \in Events : Record(e) \/ Apply(e)

Spec == Init /\ [][Next]_vars
=============================================================================
