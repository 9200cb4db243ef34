-------------------------- MODULE MC_RecoveryStore --------------------------
(* Instances of RecoveryStore for TLC, on one Deployment. *)
EXTENDS RecoveryStore, TLC

CONSTANTS e1, e2, e3, c1, c2

DeployOnly == {"d"}

DeployTypeOf == [d |-> "Deployment"]

DeployActions == {"scale_deployment", "rollback_deployment"}

ScaleOnly == {"scale_deployment"}

UpOnly == {2}

StoreSymmetry == Permutations(ExecIds) \cup Permutations(Callers)

=============================================================================
