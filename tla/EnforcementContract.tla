------------------------ MODULE EnforcementContract ------------------------
(***************************************************************************)
(* What the operator promises the owners of a namespace, with none of the  *)
(* calls it takes: who is held down, which GpuBudget has it on record, and *)
(* which GpuBudgets have been asked to reset.  Taking down and recording   *)
(* are one step here; Reconciler needs a dozen calls for it.               *)
(***************************************************************************)
CONSTANTS
  Workloads,   \* the names of the objects
  Perishable,  \* those that are stopped for good: the Pods
  Budgets

VARIABLES
  there,   \* the workloads that exist
  held,    \* the workloads that carry the original of a take-down
  listed,  \* listed[b]: the workloads GpuBudget b has on record
  asked    \* the GpuBudgets whose reset is asked for and not served

vars == <<there, held, listed, asked>>

Init ==
  /\ there \subseteq Workloads
  /\ held = {}
  /\ listed = [b \in Budgets |-> {}]
  /\ asked = {}

Record(b, w) == listed' = [listed EXCEPT ![b] = @ \union {w}]

TakeDown(b, w) ==
  /\ w \in there \ Perishable
  /\ held' = held \union {w}
  /\ Record(b, w)
  /\ UNCHANGED <<there, asked>>

\* A Pod leaves nothing to give back, and goes when the kubelet is done with it.
Delete(b, w) ==
  /\ w \in there \intersect Perishable
  /\ Record(b, w)
  /\ UNCHANGED <<there, held, asked>>

GiveBack(w) ==
  /\ \E b \in asked : w \in listed[b]
  /\ held' = held \ {w}
  /\ UNCHANGED <<there, listed, asked>>

\* The owner creates an object, and deletes it.
Appear(w) == there' = there \union {w} /\ UNCHANGED <<held, listed, asked>>

Vanish(w) ==
  /\ there' = there \ {w}
  /\ held' = held \ {w}
  /\ UNCHANGED <<listed, asked>>

Ask(b) == asked' = asked \union {b} /\ UNCHANGED <<there, held, listed>>

Withdraw(b) == asked' = asked \ {b} /\ UNCHANGED <<there, held, listed>>

\* A reset is closed when nothing it lists is held any more.
Serve(b) ==
  /\ b \in asked
  /\ listed[b] \intersect held = {}
  /\ asked' = asked \ {b}
  /\ listed' = [listed EXCEPT ![b] = {}]
  /\ UNCHANGED <<there, held>>

Next ==
  \/ \E b \in Budgets : Ask(b) \/ Withdraw(b) \/ Serve(b)
  \/ \E b \in Budgets, w \in Workloads : TakeDown(b, w) \/ Delete(b, w)
  \/ \E w \in Workloads : GiveBack(w) \/ Appear(w) \/ Vanish(w)

Spec == Init /\ [][Next]_vars

\* What is held down exists, can be given back, and is on somebody's record.
Recorded ==
  \A w \in held : w \in there \ Perishable /\ \E b \in Budgets : w \in listed[b]

==============================================================================
