------------------------- MODULE MCEnforcementPass -------------------------
(* A small instance of EnforcementPass. *)
EXTENDS EnforcementPass, TLC

CONSTANTS isvc, rs1, rs2, pod

\* Two objects of one kind, which are alike, and two kinds after it in the loop.
FourObjects == isvc :> "InferenceService" @@ rs1 :> "ReplicaSet" @@
               rs2 :> "ReplicaSet" @@ pod :> "Pod"

Alike == Permutations({rs1, rs2})

OwnedOrNot == {[gpu |-> TRUE, owned |-> FALSE], [gpu |-> TRUE, owned |-> TRUE]}

==============================================================================
