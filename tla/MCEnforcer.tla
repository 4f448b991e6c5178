----------------------------- MODULE MCEnforcer -----------------------------
(* Small instances of Enforcer. *)
EXTENDS Enforcer

\* A kind that is updated and the kind that is deleted.
DeploymentAndPod == [dep |-> "Deployment", pod |-> "Pod"]

GpuOrNot == {[gpu |-> TRUE, owned |-> FALSE], [gpu |-> FALSE, owned |-> FALSE]}

==============================================================================
