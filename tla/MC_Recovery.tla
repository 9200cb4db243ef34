---------------------------- MODULE MC_Recovery ----------------------------
(* Instances of Recovery for TLC, on one Deployment. *)
EXTENDS Recovery

CONSTANTS e1, e2, e3

DeployOnly == {"d"}

DeployTypeOf == [d |-> "Deployment"]

ScaleOnly == {"scale_deployment"}

DeployActions == {"scale_deployment", "rollback_deployment"}

UpOnly == {2}

=============================================================================
