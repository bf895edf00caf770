--------------------------- MODULE ExecutionLease ---------------------------
(***************************************************************************)
(* The fenced execution lease (apps/trading_worker/execution_lease.py) of  *)
(* one account, and the order submissions it guards                        *)
(* (venues/binance/execution.py).                                          *)
(*                                                                         *)
(* A handle is one PostgresExecutionLease object: the worker makes a new   *)
(* one for every adapter and acquires it once, always under the owner id   *)
(* of its process, so one owner has several handles over time.  Every      *)
(* store method is one SQL statement (in memory: one locked block).        *)
(*                                                                         *)
(* Time is the seconds left on the lease row: lease_until > now is         *)
(* left > 0, and Tick is the passage of one unit.                          *)
(***************************************************************************)
EXTENDS Naturals

CONSTANTS
  Handles,  \* lease handles
  Owners,   \* worker processes (_execution_lease_owner_id)
  OwnerOf,  \* the process that creates each handle
  TTL       \* EXECUTION_LEASE_TTL_SECONDS

ASSUME TTLAssumption == TTL \in Nat \ {0}
ASSUME OwnerOfAssumption == OwnerOf \in [Handles -> Owners]

NoOwner  == "no-owner"
NoHandle == "no-handle"
ASSUME NamesAssumption == NoOwner \notin Owners /\ NoHandle \notin Handles

VARIABLES
  owner,   \* execution_leases.owner_id
  token,   \* execution_leases.fencing_token; 0: no row yet
  left,    \* time left until lease_until
  fencing_token, \* each handle's token; 0: None
  life,    \* of each handle: not acquired yet, in use, dropped
  order    \* each handle's submission: none, past assert_valid, POST sent

vars == <<owner, token, left, fencing_token, life, order>>

\* The variables have their types.
TypeOK ==
  /\ owner \in Owners \cup {NoOwner}
  /\ token \in Nat
  /\ left \in 0..TTL
  /\ fencing_token \in [Handles -> Nat]
  /\ life \in [Handles -> {"new", "held", "dropped"}]
  /\ order \in [Handles -> {"none", "cleared", "sent"}]

Init ==
  /\ owner = NoOwner /\ token = 0 /\ left = 0
  /\ fencing_token = [h \in Handles |-> 0]
  /\ life = [h \in Handles |-> "new"]
  /\ order = [h \in Handles |-> "none"]

\* The WHERE clause of renew, assert_valid and release.
Matches(h) == owner = OwnerOf[h] /\ token = fencing_token[h]

Valid(h) == fencing_token[h] # 0 /\ Matches(h) /\ left > 0

\* Seeded fault: granted one unit before lease_until.
FreeEarly == left <= 1

\* lease_until <= CURRENT_TIMESTAMP, whoever the owner is.
Free == left = 0

NextToken == token + 1

acquire(h) ==
  /\ life[h] = "new"
  /\ \A g \in Handles : OwnerOf[g] = OwnerOf[h] => life[g] # "held"
  /\ IF Free
     THEN /\ owner' = OwnerOf[h] /\ token' = NextToken /\ left' = TTL
          /\ fencing_token' = [fencing_token EXCEPT ![h] = NextToken]
          /\ life' = [life EXCEPT ![h] = "held"]
     ELSE /\ life' = [life EXCEPT ![h] = "dropped"]
          /\ UNCHANGED <<owner, token, left, fencing_token>>
  /\ UNCHANGED order

\* Seeded fault: any handle that was ever granted the lease extends it.
renew_unfenced(h) ==
  /\ life[h] = "held"
  /\ left' = IF left > 0 THEN TTL ELSE left
  /\ UNCHANGED <<owner, token, fencing_token, life, order>>

\* Seeded fault: an expired lease is extended too.
renew_expired(h) ==
  /\ life[h] = "held"
  /\ left' = IF Matches(h) THEN TTL ELSE left
  /\ UNCHANGED <<owner, token, fencing_token, life, order>>

\* Seeded fault: the TTL is added to lease_until instead of the current time.
renew_adds(h) ==
  /\ life[h] = "held"
  /\ left' = IF Valid(h) THEN left + TTL ELSE left
  /\ UNCHANGED <<owner, token, fencing_token, life, order>>

\* _heartbeat_loop: extend the lease; a refusal only degrades the adapter.
renew(h) ==
  /\ life[h] = "held"
  /\ left' = IF Valid(h) THEN TTL ELSE left
  /\ UNCHANGED <<owner, token, fencing_token, life, order>>

\* The last check before the POST; LeaseLostError rejects the order.
assert_valid(h) ==
  /\ life[h] = "held" /\ order[h] = "none"
  /\ Valid(h)
  /\ order' = [order EXCEPT ![h] = "cleared"]
  /\ UNCHANGED <<owner, token, left, fencing_token, life>>

\* rest_client.request sends after its rate-limit delay and the signing.
Send(h) ==
  /\ order[h] = "cleared"
  /\ order' = [order EXCEPT ![h] = "sent"]
  /\ UNCHANGED <<owner, token, left, fencing_token, life>>

\* The exchange has decided the order, or the request failed unsent.
Decided(h) ==
  /\ order[h] # "none"
  /\ order' = [order EXCEPT ![h] = "none"]
  /\ UNCHANGED <<owner, token, left, fencing_token, life>>

\* adapter.close(): release the lease; a database failure leaves the row.
release(h) ==
  /\ life[h] = "held"
  /\ left' \in {left, IF Matches(h) THEN 0 ELSE left}
  /\ fencing_token' = [fencing_token EXCEPT ![h] = 0]
  /\ life' = [life EXCEPT ![h] = "dropped"]
  /\ UNCHANGED <<owner, token, order>>

\* The process ends without release; a request already sent goes on.
Crash(o) ==
  /\ \E h \in Handles : OwnerOf[h] = o /\ life[h] = "held"
  /\ LET mine(h) == OwnerOf[h] = o IN
     /\ fencing_token' = [h \in Handles |-> IF mine(h) THEN 0 ELSE fencing_token[h]]
     /\ life' = [h \in Handles |-> IF mine(h) THEN "dropped" ELSE life[h]]
     /\ order' = [h \in Handles |-> IF mine(h) /\ order[h] = "cleared"
                                    THEN "none" ELSE order[h]]
  /\ UNCHANGED <<owner, token, left>>

Tick ==
  /\ left > 0
  /\ left' = left - 1
  /\ UNCHANGED <<owner, token, fencing_token, life, order>>

Next ==
  \/ \E h \in Handles : \/ acquire(h) \/ renew(h) \/ release(h)
                        \/ assert_valid(h) \/ Send(h) \/ Decided(h)
  \/ \E o \in Owners : Crash(o)
  \/ Tick

Spec == Init /\ [][Next]_vars

\* Only time is fair: nobody has to renew, acquire or release.
FairSpec == Spec /\ WF_vars(Tick)

-----------------------------------------------------------------------------
(* Properties.                                                             *)

\* Two handles never pass assert_valid in the same state, not even the old and
\* the new handle of one process (what makes Holder below well defined).
OneValidHandle == \A g, h \in Handles : Valid(g) /\ Valid(h) => g = h

\* A handle that lost the lease (expiry, take-over, release) never becomes
\* valid again: only its one acquire makes it so.
NeverRevived ==
  [][\A h \in Handles : ~Valid(h) /\ life[h] # "new" => ~Valid(h)']_vars

\* A lease nobody can use (its process crashed, or the release failed) becomes
\* free, unless a handle is granted it again.
OrphanExpires ==
  (\A h \in Handles : ~Valid(h)) ~> (left = 0 \/ \E h \in Handles : Valid(h))

\* The valid handle holds the abstract lease, the fencing token is its epoch.
Holder == IF \E h \in Handles : Valid(h) THEN CHOOSE h \in Handles : Valid(h)
          ELSE NoHandle

Lease == INSTANCE FencedLease WITH holder <- Holder, epoch <- token

\* The lease row and its handles implement the abstract fenced lease.
ImplementsFencedLease == Lease!Spec

\* execution_lease.py:1: risk-increasing submissions are mutually exclusive.
OneSubmission == \A g, h \in Handles : order[g] = "sent" /\ order[h] = "sent" => g = h

=============================================================================
