--------------------------- MODULE RecoveryActions ---------------------------
(***************************************************************************)
(* The decisions the recovery engine takes about one action, apart from    *)
(* the state of any execution: the action catalogue, the approval policy,  *)
(* what a handler does to the twin it is given, and how a verifier judges  *)
(* the result.                                                             *)
(*                                                                         *)
(* The twin of a target is the attribute map the handlers and verifiers    *)
(* read, reduced to the four facts their decisions depend on:              *)
(*   present - the resource is in the topology the command read;           *)
(*   conn    - replicas_desired, the name the k8s connector writes;        *)
(*   hand    - desired_replicas, the name the scale handlers write;        *)
(*   written - the actions whose handler wrote its attribute here, so that *)
(*             hand is meaningful only when scale_deployment is in it.     *)
(***************************************************************************)
EXTENDS Integers

CONSTANT
    Mode    \* which executor AppState holds: MockHandlerExecutor ("mock"),
            \* WasmHandlerExecutor without ("wasm") or with ("real") real_mode

ASSUME ModeAssumption == Mode \in {"mock", "wasm", "real"}

ActionDefs ==
    [ restart_pod         |-> [target |-> "Pod",            risk |-> "medium",
                               approval |-> TRUE,  rollback |-> "none"],
      scale_deployment    |-> [target |-> "Deployment",     risk |-> "low",
                               approval |-> FALSE, rollback |-> "scale_deployment"],
      rollback_deployment |-> [target |-> "Deployment",     risk |-> "high",
                               approval |-> TRUE,  rollback |-> "rollback_deployment"],
      refresh_secret      |-> [target |-> "Secret",         risk |-> "medium",
                               approval |-> TRUE,  rollback |-> "none"],
      drain_node          |-> [target |-> "KubernetesNode", risk |-> "high",
                               approval |-> TRUE,  rollback |-> "none"],
      kill_query          |-> [target |-> "MySQL",          risk |-> "medium",
                               approval |-> FALSE, rollback |-> "none"],
      restart_service     |-> [target |-> "Service",        risk |-> "low",
                               approval |-> FALSE, rollback |-> "none"],
      clear_cache         |-> [target |-> "Redis",          risk |-> "medium",
                               approval |-> TRUE,  rollback |-> "none"] ]

Actions == DOMAIN ActionDefs

TypeOfTarget(a) == ActionDefs[a].target

\* ApprovalPolicy::All goes with the real executor, LowRiskAutoRun otherwise.
NeedsApproval(a) ==
    \/ Mode = "real"
    \/ ActionDefs[a].risk # "low"
    \/ ActionDefs[a].approval

Reversible(a) == ActionDefs[a].rollback # "none"

RollbackAction(a) == ActionDefs[a].rollback

RollbackDelta(a, delta) == IF a = "scale_deployment" THEN -delta ELSE delta

K8sActions ==
    {"scale_deployment", "restart_pod", "rollback_deployment",
     "refresh_secret", "drain_node", "restart_service"}

\* kill_query and clear_cache stay with the mock executor in every mode.
ActsOnCluster(a) == Mode = "real" /\ a \in K8sActions

-----------------------------------------------------------------------------
(* Handlers *)

Twin == [present : BOOLEAN, conn : Int, hand : Int, written : SUBSET Actions]

\* The replica count a scale starts from. The mock handler knows only the name
\* handlers write and takes 3 when it is missing; the WASM executor prefers the
\* connector's name, which the k8s connector writes on every Deployment.
OldReplicas(tw) ==
    IF Mode = "mock"
    THEN IF "scale_deployment" \in tw.written THEN tw.hand ELSE 3
    ELSE tw.conn

NewReplicas(delta, tw) == OldReplicas(tw) + delta

MaxMockReplicas == 100

\* A handler turns the request down before touching anything. The checks on the
\* other parameters (grace_period, query_id, revision) are passed by the requests
\* enumerated here.
HandlerRefuses(a, delta, tw) ==
    \/ ~tw.present
    \/ /\ a = "scale_deployment"
       /\ \/ delta = 0
          \/ NewReplicas(delta, tw) < 0
          \/ Mode = "mock" /\ NewReplicas(delta, tw) > MaxMockReplicas

\* The attributes run_handler stores back into the twin. The WASM executor
\* overlays the handler's fields on the ones already there, so conn survives;
\* kill_query and clear_cache return no attributes.
TwinAfter(a, delta, tw) ==
    CASE a = "scale_deployment" ->
            [tw EXCEPT !.hand = NewReplicas(delta, tw), !.written = @ \cup {a}]
      [] a \in {"kill_query", "clear_cache"} -> tw
      [] OTHER -> [tw EXCEPT !.written = @ \cup {a}]

-----------------------------------------------------------------------------
(* Verifiers *)

VerifyStatuses ==
    {"not_run", "passed", "failed", "error", "skipped", "not_supported"}

\* Self-report: the verifier reads the twin the handler wrote. A restarted pod
\* passes only if its health is normal or unknown; the health is that of the
\* pod's metrics, which the twin here leaves out.
TwinVerdicts(a, expected, tw) ==
    IF a \in {"kill_query", "clear_cache"} THEN {"not_supported"}
    ELSE IF a \notin tw.written \/ (a = "scale_deployment" /\ tw.hand # expected)
         THEN {"failed"}
    ELSE IF a = "restart_pod" THEN {"passed", "failed"} ELSE {"passed"}

\* Actions whose target is read back from the cluster. The reader knows Services
\* by the prefix svc, and the k8s connector names them service.
ReadBack(a) == ActsOnCluster(a) /\ a # "restart_service"

\* Actions whose read-back decides. The check of a rollback_deployment wants
\* old_revision in the result, which the WASM executor does not pass on.
JudgedByCluster(a) == ReadBack(a) /\ a # "rollback_deployment"

\* The verdicts one verification can reach: what the read-back returns (replicas,
\* or the controller's progress for the others) is the cluster's business. A
\* read-back that fails is a failed check whatever it is of.
Verdicts(a, expected, tw, replicas, reachable) ==
    IF ~tw.present THEN {"error"}
    ELSE IF ReadBack(a) /\ ~reachable THEN {"failed"}
    ELSE IF ~JudgedByCluster(a) THEN TwinVerdicts(a, expected, tw)
    ELSE IF a = "scale_deployment"
         THEN {IF replicas = expected THEN "passed" ELSE "failed"}
         ELSE {"passed", "failed"}

=============================================================================
