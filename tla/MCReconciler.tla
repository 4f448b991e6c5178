---------------------------- MODULE MCReconciler ----------------------------
(* Small instances of Reconciler. *)
EXTENDS Reconciler

OneDeployment == [dep |-> "Deployment"]

TwoOfAKind == [dep |-> "Deployment", dep2 |-> "Deployment"]

DeploymentAndPod == [dep |-> "Deployment", pod |-> "Pod"]

GpuOnly == {[gpu |-> TRUE, owned |-> FALSE]}

==============================================================================
