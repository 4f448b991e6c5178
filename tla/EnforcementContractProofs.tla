---------------------- MODULE EnforcementContractProofs ----------------------
(***************************************************************************)
(* The contract keeps its own promise, for any workloads and GpuBudgets.   *)
(***************************************************************************)
EXTENDS EnforcementContract, TLAPS

TypeOK ==
  /\ there \subseteq Workloads /\ held \subseteq Workloads
  /\ listed \in [Budgets -> SUBSET Workloads]
  /\ asked \subseteq Budgets

IInv == TypeOK /\ Recorded

LEMMA InitInv == Init => IInv
BY DEF Init, IInv, TypeOK, Recorded

LEMMA NextInv == IInv /\ [Next]_vars => IInv'
<1> SUFFICES ASSUME IInv, [Next]_vars PROVE IInv'
  OBVIOUS
<1> USE DEF IInv, TypeOK, Recorded
<1>1. ASSUME NEW b \in Budgets, Ask(b) \/ Withdraw(b) PROVE IInv'
  BY <1>1 DEF Ask, Withdraw
\* What is struck off the record of b is not held.
<1>2. ASSUME NEW b \in Budgets, Serve(b) PROVE IInv'
  BY <1>2 DEF Serve
<1>3. ASSUME NEW b \in Budgets, NEW w \in Workloads, TakeDown(b, w) PROVE IInv'
  BY <1>3 DEF TakeDown, Record
<1>4. ASSUME NEW b \in Budgets, NEW w \in Workloads, Delete(b, w) PROVE IInv'
  BY <1>4 DEF Delete, Record
<1>5. ASSUME NEW w \in Workloads, GiveBack(w) \/ Appear(w) \/ Vanish(w) PROVE IInv'
  BY <1>5 DEF GiveBack, Appear, Vanish
<1>6. CASE UNCHANGED vars
  BY <1>6 DEF vars
<1> QED
  BY <1>1, <1>2, <1>3, <1>4, <1>5, <1>6 DEF Next

\* What the operator may hold down under its contract is always on the record
\* of a GpuBudget, although resets are asked for, withdrawn and served and
\* owners delete their objects at any time.
THEOREM HeldIsRecorded == Spec => []Recorded
<1>1. IInv => Recorded
  BY DEF IInv
<1> QED
  BY <1>1, InitInv, NextInv, PTL DEF Spec

==============================================================================
