------------------------ MODULE ExecutionLeaseProofs ------------------------
(***************************************************************************)
(* Proofs about ExecutionLease, for every set of handles and owners and    *)
(* every TTL.  Alone, neither the uniqueness of the valid handle nor the   *)
(* refinement is inductive: Granted adds that no handle has a token the    *)
(* row has not issued and that no two handles share one.                   *)
(***************************************************************************)
EXTENDS ExecutionLease, TLAPS

\* Tokens are issued once each, and only a handle in use keeps one.
Granted ==
  /\ \A h \in Handles : fencing_token[h] <= token
  /\ \A g, h \in Handles :
       fencing_token[g] # 0 /\ fencing_token[g] = fencing_token[h] => g = h
  /\ \A h \in Handles : fencing_token[h] # 0 => life[h] = "held"

IInv == TypeOK /\ Granted

\* The inductive invariant holds initially.
LEMMA InitIInv == Init => IInv
BY TTLAssumption DEF Init, IInv, TypeOK, Granted

\* Every step keeps the inductive invariant.
LEMMA NextIInv == IInv /\ [Next]_vars => IInv'
<1> SUFFICES ASSUME IInv, [Next]_vars PROVE IInv'
  OBVIOUS
<1> USE TTLAssumption, OwnerOfAssumption DEF IInv, TypeOK, Granted
<1>1. ASSUME NEW h \in Handles, acquire(h) PROVE IInv'
  BY <1>1 DEF acquire, NextToken, Free
<1>2. ASSUME NEW h \in Handles, renew(h) PROVE IInv'
  BY <1>2 DEF renew
<1>3. ASSUME NEW h \in Handles, release(h) PROVE IInv'
  BY <1>3 DEF release
<1>4. ASSUME NEW h \in Handles, assert_valid(h) PROVE IInv'
  BY <1>4 DEF assert_valid
<1>5. ASSUME NEW h \in Handles, Send(h) PROVE IInv'
  BY <1>5 DEF Send
<1>6. ASSUME NEW h \in Handles, Decided(h) PROVE IInv'
  BY <1>6 DEF Decided
<1>7. ASSUME NEW o \in Owners, Crash(o) PROVE IInv'
  BY <1>7 DEF Crash
<1>8. CASE Tick
  BY <1>8 DEF Tick
<1>9. CASE UNCHANGED vars
  BY <1>9 DEF vars
<1>10. QED
  BY <1>1, <1>2, <1>3, <1>4, <1>5, <1>6, <1>7, <1>8, <1>9 DEF Next

\* The lease row and the handles always satisfy the inductive invariant.
THEOREM Invariant == Spec => []IInv
BY InitIInv, NextIInv, PTL DEF Spec

\* Every variable of the lease keeps its type: the time left never exceeds
\* the TTL although every holder may renew at any moment.
THEOREM TypeCorrect == Spec => []TypeOK
BY Invariant, PTL DEF IInv

\* A token that matches the row belongs to one handle only.
LEMMA ValidUnique == IInv => OneValidHandle
BY DEF IInv, Granted, OneValidHandle, Valid, Matches

\* assert_valid accepts at most one handle in any state.
THEOREM MutualExclusion == Spec => []OneValidHandle
BY Invariant, ValidUnique, PTL

\* A step makes a handle valid only when it is acquired; no step revives one.
LEMMA StepNeverRevives ==
  ASSUME IInv, [Next]_vars, NEW h \in Handles, ~Valid(h), life[h] # "new"
  PROVE  ~Valid(h)'
<1> USE TTLAssumption, OwnerOfAssumption DEF IInv, TypeOK, Granted, Valid, Matches
<1>1. ASSUME NEW g \in Handles, acquire(g) PROVE ~Valid(h)'
  BY <1>1 DEF acquire, NextToken, Free
<1>2. ASSUME NEW g \in Handles, renew(g) PROVE ~Valid(h)'
  BY <1>2 DEF renew
<1>3. ASSUME NEW g \in Handles, release(g) PROVE ~Valid(h)'
  BY <1>3 DEF release
<1>4. ASSUME NEW g \in Handles, assert_valid(g) \/ Send(g) \/ Decided(g)
      PROVE  ~Valid(h)'
  BY <1>4 DEF assert_valid, Send, Decided
<1>5. ASSUME NEW o \in Owners, Crash(o) PROVE ~Valid(h)'
  BY <1>5 DEF Crash
<1>6. CASE Tick
  BY <1>6 DEF Tick
<1>7. CASE UNCHANGED vars
  BY <1>7 DEF vars
<1>8. QED
  BY <1>1, <1>2, <1>3, <1>4, <1>5, <1>6, <1>7 DEF Next

\* A handle that lost the lease is never valid again.
THEOREM NoRevival == Spec => NeverRevived
<1>1. IInv /\ [Next]_vars
        => [\A h \in Handles : ~Valid(h) /\ life[h] # "new" => ~Valid(h)']_vars
  BY StepNeverRevives
<1>2. QED
  BY <1>1, Invariant, PTL DEF Spec, NeverRevived

-----------------------------------------------------------------------------
(* Refinement.                                                             *)

\* Holder is the valid handle, or none.
LEMMA HolderIs ==
  ASSUME IInv
  PROVE  /\ \A h \in Handles : Valid(h) => Holder = h
         /\ (\A h \in Handles : ~Valid(h)) => Holder = NoHandle
BY ValidUnique DEF Holder, OneValidHandle

\* Initially nobody holds the abstract lease.
LEMMA InitRefines == Init => Lease!Init
BY DEF Init, Lease!Init, Holder, Valid, Lease!NoHandle, NoHandle

\* A step that issues no token leaves the abstract holder, or removes it.
LEMMA NoGrant ==
  ASSUME IInv, IInv', [Next]_vars, token' = token,
         \A h \in Handles : ~Valid(h) => ~Valid(h)'
  PROVE  Holder' = Holder \/ Holder' = NoHandle
<1>1. CASE \E h \in Handles : Valid(h)'
  <2>1. PICK h \in Handles : Valid(h)'
    BY <1>1
  <2>2. Valid(h)
    BY <2>1
  <2>3. Holder' = h
    BY <2>1, ValidUnique DEF Holder, OneValidHandle
  <2>4. Holder = h
    BY <2>2, HolderIs
  <2>5. QED
    BY <2>3, <2>4
<1>2. CASE \A h \in Handles : ~Valid(h)'
  BY <1>2 DEF Holder, NoHandle
<1>3. QED
  BY <1>1, <1>2

\* Every step of the lease is a step of the abstract one, or stutters.
LEMMA StepRefines ==
  ASSUME IInv, IInv', [Next]_vars
  PROVE  [Lease!Next]_(Lease!vars)
<1> USE TTLAssumption, OwnerOfAssumption
<1>1. ASSUME NEW h \in Handles, acquire(h), Free
      PROVE  Lease!Grant(h)
  <2>1. \A g \in Handles : ~Valid(g)
    BY <1>1 DEF Free, Valid
  <2>2. Holder = NoHandle
    BY <2>1, HolderIs
  <2>3. Valid(h)'
    BY <1>1 DEF acquire, NextToken, Free, Valid, Matches, IInv, TypeOK
  <2>4. Holder' = h
    BY <2>3, ValidUnique DEF Holder, OneValidHandle
  <2>5. token' = token + 1
    BY <1>1 DEF acquire, NextToken
  <2>6. QED
    BY <2>2, <2>4, <2>5 DEF Lease!Grant, Lease!NoHandle, NoHandle
<1>2. ASSUME token' = token, \A h \in Handles : ~Valid(h) => ~Valid(h)'
      PROVE  [Lease!Next]_(Lease!vars)
  BY <1>2, NoGrant DEF Lease!Next, Lease!Lapse, Lease!vars, Lease!NoHandle, NoHandle
<1>3. ASSUME NEW h \in Handles, acquire(h), ~Free
      PROVE  [Lease!Next]_(Lease!vars)
  BY <1>2, <1>3 DEF acquire, Valid, Matches
<1>4. ASSUME NEW g \in Handles, renew(g)
      PROVE  [Lease!Next]_(Lease!vars)
  BY <1>2, <1>4 DEF renew, Valid, Matches, IInv, TypeOK, Granted
<1>5. ASSUME NEW g \in Handles, release(g)
      PROVE  [Lease!Next]_(Lease!vars)
  BY <1>2, <1>5 DEF release, Valid, Matches, IInv, TypeOK
<1>6. ASSUME NEW g \in Handles, assert_valid(g) \/ Send(g) \/ Decided(g)
      PROVE  [Lease!Next]_(Lease!vars)
  BY <1>2, <1>6 DEF assert_valid, Send, Decided, Valid, Matches
<1>7. ASSUME NEW o \in Owners, Crash(o)
      PROVE  [Lease!Next]_(Lease!vars)
  BY <1>2, <1>7 DEF Crash, Valid, Matches, IInv, TypeOK
<1>8. CASE Tick
  BY <1>2, <1>8 DEF Tick, Valid, Matches, IInv, TypeOK
<1>9. CASE UNCHANGED vars
  BY <1>2, <1>9 DEF vars, Valid, Matches
<1>10. QED
  BY <1>1, <1>3, <1>4, <1>5, <1>6, <1>7, <1>8, <1>9 DEF Next, Lease!Next

\* The lease row and its handles implement the abstract fenced lease.
THEOREM Refinement == Spec => ImplementsFencedLease
<1>1. IInv /\ IInv' /\ [Next]_vars => [Lease!Next]_(Lease!vars)
  BY StepRefines
<1>2. QED
  BY <1>1, InitRefines, Invariant, PTL DEF Spec, ImplementsFencedLease, Lease!Spec

=============================================================================
