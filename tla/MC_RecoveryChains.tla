------------------------- MODULE MC_RecoveryChains -------------------------
(* Instances of RecoveryChains for TLC: a Deployment, and a node. *)
EXTENDS RecoveryChains

CONSTANTS e1, e2, e3, e4, e5, k1

DeployAndNode == {"d", "n"}

DeployAndNodeTypeOf == [d |-> "Deployment", n |-> "KubernetesNode"]

TwoTemplates == {"safe_rollback_deployment", "drain_node_safely"}

=============================================================================
