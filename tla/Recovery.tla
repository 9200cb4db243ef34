------------------------------- MODULE Recovery -------------------------------
(***************************************************************************)
(* The execution lifecycle of the recovery engine (engine-recovery,        *)
(* execution.rs): the registry of executions, the approval gate, the run   *)
(* of a handler, its verification, and the manual and automatic rollbacks  *)
(* that run a reverse execution.                                           *)
(*                                                                         *)
(* The registry is behind an async mutex which a command holds through the *)
(* whole engine call, awaits included, so one call is in progress at a     *)
(* time: variable "call" says where it is. The stages are the points at    *)
(* which the call awaits something outside the registry:                   *)
(*   handler - the executor is to run the action of call.id;               *)
(*   verify  - the verifier of call.id is to give its verdict;             *)
(*   return  - call.id is finished; if it reverses an execution, do_rollback *)
(*             has still to settle the original.                           *)
(* run_handler nests one do_rollback inside the verification of another    *)
(* execution. Nothing of the outer run is left to do by then but to note   *)
(* the outcome in its result, so the inner run replaces it in "call" and   *)
(* call.orig remembers what it reverses.                                   *)
(*                                                                         *)
(* Around the engine: the cluster the real executor changes, which other   *)
(* people change too; the materialized topology the syncs leave behind;    *)
(* and the kubectl proxy both go through, up or down.                      *)
(***************************************************************************)
EXTENDS RecoveryActions, FiniteSets

CONSTANTS
    ExecIds,       \* the execution ids that can be minted (bound)
    None,          \* no execution
    Targets,       \* resource ids
    TypeOf,        \* the resource type of each of them
    UsedActions,   \* the actions operators ask for
    Deltas,        \* the replicas_delta they enter
    InitReplicas,  \* spec.replicas of every target at the start
    DriftReplicas, \* the values other writers set spec.replicas to
    Flaky          \* whether the proxy goes down and resources vanish

ASSUME IdsAssumption ==
    /\ None \notin ExecIds
    /\ IsFiniteSet(ExecIds)

ASSUME TargetsAssumption ==
    /\ Targets # {}
    /\ TypeOf \in [Targets -> STRING]

ASSUME InputsAssumption ==
    /\ UsedActions \subseteq Actions
    /\ Deltas \subseteq Int
    /\ InitReplicas \in Int
    /\ DriftReplicas \subseteq Int
    /\ Flaky \in BOOLEAN

VARIABLES
    exec,     \* ExecutionRegistry
    call,     \* the engine call that holds the registry, or NoCall
    twin,     \* the owned topology clone of that call
    cluster,  \* spec.replicas in the cluster
    mat,      \* the materialized topology
    proxyUp,  \* the K8s API answers
    ran       \* how many times the handler of an execution took effect (history)

vars == <<exec, call, twin, cluster, mat, proxyUp, ran>>
envVars == <<cluster, mat, proxyUp, ran>>

-----------------------------------------------------------------------------
(* State *)

Statuses ==
    {"absent", "awaiting_approval", "rejected", "executing", "succeeded",
     "failed", "rolled_back"}

\* status "absent" marks an id no execution has been given. approved is
\* approved_at being set, auto is the auto_rollback_origin mark in the result,
\* expected is new_replicas in the result of a scale.
Execution ==
    [action : Actions, target : Targets, delta : Int, status : Statuses,
     verify : VerifyStatuses, expected : Int, approved : BOOLEAN,
     auto : BOOLEAN, reverses : ExecIds \cup {None},
     rollbackBy : ExecIds \cup {None}]

Fresh(a, t, delta, status) ==
    [action |-> a, target |-> t, delta |-> delta, status |-> status,
     verify |-> "not_run", expected |-> 0, approved |-> FALSE,
     auto |-> FALSE, reverses |-> None, rollbackBy |-> None]

Call ==
    [stage : {"idle", "handler", "verify", "return"},
     id : ExecIds \cup {None},    \* the execution being run or verified
     top : ExecIds \cup {None},   \* the execution the command asked for
     auto : BOOLEAN,              \* the auto_rollback parameter
     verify : BOOLEAN,            \* the verify parameter
     orig : ExecIds \cup {None},  \* the execution call.id reverses
     marker : BOOLEAN]            \* auto_rollback_marker

NoCall ==
    [stage |-> "idle", id |-> None, top |-> None, auto |-> FALSE,
     verify |-> FALSE, orig |-> None, marker |-> FALSE]

Idle == call.stage = "idle"

\* The clone a command takes: the connector's view, no handler has written yet.
Snapshot == [t \in Targets |->
    [present |-> mat[t].present, conn |-> mat[t].replicas,
     hand |-> 0, written |-> {}]]

NoTwin == [t \in Targets |->
    [present |-> FALSE, conn |-> 0, hand |-> 0, written |-> {}]]

TypeOK ==
    /\ exec \in [ExecIds -> Execution]
    /\ call \in Call
    /\ twin \in [Targets -> Twin]
    /\ cluster \in [Targets -> Int]
    /\ mat \in [Targets -> [present : BOOLEAN, replicas : Int]]
    /\ proxyUp \in BOOLEAN
    /\ ran \in [ExecIds -> Nat]

\* A slot no execution has taken: only its status is ever read.
Unused ==
    Fresh(CHOOSE a \in Actions : TRUE, CHOOSE t \in Targets : TRUE, 0, "absent")

Init ==
    /\ exec = [e \in ExecIds |-> Unused]
    /\ call = NoCall
    /\ twin = NoTwin
    /\ cluster = [t \in Targets |-> InitReplicas]
    /\ mat = [t \in Targets |-> [present |-> TRUE, replicas |-> InitReplicas]]
    /\ proxyUp = TRUE
    /\ ran = [e \in ExecIds |-> 0]

-----------------------------------------------------------------------------
(* Operations: what a command starts once it has the registry. Each takes  *)
(* the topology the command read before it waited for the registry.        *)

\* execute_with_policy refuses a target that dry_run finds invalid.
ValidTarget(a, t, topo) == topo[t].present /\ TypeOf[t] = TypeOfTarget(a)

RunCall(e) ==
    [stage |-> "handler", id |-> e, top |-> e, auto |-> TRUE,
     verify |-> TRUE, orig |-> None, marker |-> FALSE]

ExecuteGated(e, a, t, delta, topo) ==
    /\ Idle
    /\ exec[e].status = "absent"
    /\ ValidTarget(a, t, topo)
    /\ NeedsApproval(a)
    /\ exec' = [exec EXCEPT ![e] = Fresh(a, t, delta, "awaiting_approval")]
    /\ UNCHANGED <<call, twin, envVars>>

\* Mutant: the gate is forgotten.
ExecuteNowUngated(e, a, t, delta, topo) ==
    /\ Idle
    /\ exec[e].status = "absent"
    /\ ValidTarget(a, t, topo)
    /\ exec' = [exec EXCEPT ![e] = Fresh(a, t, delta, "executing")]
    /\ call' = RunCall(e)
    /\ twin' = topo
    /\ UNCHANGED envVars

ExecuteNow(e, a, t, delta, topo) ==
    /\ Idle
    /\ exec[e].status = "absent"
    /\ ValidTarget(a, t, topo)
    /\ ~NeedsApproval(a)
    /\ exec' = [exec EXCEPT ![e] = Fresh(a, t, delta, "executing")]
    /\ call' = RunCall(e)
    /\ twin' = topo
    /\ UNCHANGED envVars

\* Mutant: an execution that failed can be confirmed, and so run, again.
ConfirmRetries(e, topo) ==
    /\ Idle
    /\ exec[e].status \in {"awaiting_approval", "failed"}
    /\ exec' = [exec EXCEPT ![e].approved = TRUE]
    /\ call' = RunCall(e)
    /\ twin' = topo
    /\ UNCHANGED envVars

\* Mutant: a second confirmation runs an execution that has succeeded again.
ConfirmAgain(e, topo) ==
    /\ Idle
    /\ exec[e].status \in {"awaiting_approval", "succeeded"}
    /\ exec' = [exec EXCEPT ![e].approved = TRUE]
    /\ call' = RunCall(e)
    /\ twin' = topo
    /\ UNCHANGED envVars

\* The status stays awaiting_approval until the handler has answered.
Confirm(e, topo) ==
    /\ Idle
    /\ exec[e].status = "awaiting_approval"
    /\ exec' = [exec EXCEPT ![e].approved = TRUE]
    /\ call' = RunCall(e)
    /\ twin' = topo
    /\ UNCHANGED envVars

\* Mutant: a status the enumeration of models.rs does not have.
CancelAsCancelled(e) ==
    /\ Idle
    /\ exec[e].status = "awaiting_approval"
    /\ exec' = [exec EXCEPT ![e].status = "cancelled"]
    /\ UNCHANGED <<call, twin, envVars>>

Cancel(e) ==
    /\ Idle
    /\ exec[e].status = "awaiting_approval"
    /\ exec' = [exec EXCEPT ![e].status = "rejected"]
    /\ UNCHANGED <<call, twin, envVars>>

\* do_rollback up to the run of the reverse handler. The code marks an automatic
\* reverse execution last, under the same lock; the model marks it at once.
Reversal(e, marker) ==
    [Fresh(RollbackAction(exec[e].action), exec[e].target,
           RollbackDelta(exec[e].action, exec[e].delta), "executing")
        EXCEPT !.reverses = e, !.auto = marker]

\* Mutant: a reverse execution that fails its verification is reversed as well.
ReverseCallRecursive(r, top, e, marker) ==
    [stage |-> "handler", id |-> r, top |-> top, auto |-> TRUE,
     verify |-> TRUE, orig |-> e, marker |-> marker]

ReverseCall(r, top, e, marker) ==
    [stage |-> "handler", id |-> r, top |-> top, auto |-> FALSE,
     verify |-> ~marker, orig |-> e, marker |-> marker]

\* Mutant: what has been rolled back can be rolled back.
RollbackTwice(e, r, topo) ==
    /\ Idle
    /\ exec[e].status \in {"succeeded", "rolled_back"}
    /\ Reversible(exec[e].action)
    /\ exec[r].status = "absent"
    /\ exec' = [exec EXCEPT ![r] = Reversal(e, FALSE)]
    /\ call' = ReverseCall(r, r, e, FALSE)
    /\ twin' = topo
    /\ UNCHANGED envVars

Rollback(e, r, topo) ==
    /\ Idle
    /\ exec[e].status = "succeeded"
    /\ exec[e].rollbackBy = None
    /\ Reversible(exec[e].action)
    /\ exec[r].status = "absent"
    /\ exec' = [exec EXCEPT ![r] = Reversal(e, FALSE)]
    /\ call' = ReverseCall(r, r, e, FALSE)
    /\ twin' = topo
    /\ UNCHANGED envVars

Reverify(e, topo) ==
    /\ Idle
    /\ exec[e].status \in {"succeeded", "rolled_back"}
    /\ call' = [NoCall EXCEPT !.stage = "verify", !.id = e, !.top = e]
    /\ twin' = topo
    /\ UNCHANGED <<exec, envVars>>

-----------------------------------------------------------------------------
(* run_handler: the executor answers *)

Running == exec[call.id]

RunningTwin == twin[Running.target]

Refused == HandlerRefuses(Running.action, Running.delta, RunningTwin)

\* What the action does to spec.replicas when it reaches the cluster.
ClusterAfter ==
    IF ActsOnCluster(Running.action) /\ Running.action = "scale_deployment"
    THEN [cluster EXCEPT
            ![Running.target] = NewReplicas(Running.delta, RunningTwin)]
    ELSE cluster

HandlerRefused ==
    /\ call.stage = "handler"
    /\ Refused
    /\ exec' = [exec EXCEPT ![call.id].status = "failed"]
    /\ call' = [call EXCEPT !.stage = "return"]
    /\ UNCHANGED <<twin, envVars>>

HandlerSucceeds ==
    /\ call.stage = "handler"
    /\ ~Refused
    /\ ActsOnCluster(Running.action) => proxyUp
    /\ exec' = [exec EXCEPT
            ![call.id].status = "succeeded",
            ![call.id].expected = IF Running.action = "scale_deployment"
                                  THEN NewReplicas(Running.delta, RunningTwin)
                                  ELSE 0]
    /\ call' = [call EXCEPT !.stage = IF call.verify THEN "verify" ELSE "return"]
    /\ twin' = [twin EXCEPT ![Running.target] =
                    TwinAfter(Running.action, Running.delta, @)]
    /\ cluster' = ClusterAfter
    /\ ran' = [ran EXCEPT ![call.id] = @ + 1]
    /\ UNCHANGED <<mat, proxyUp>>

\* The API answers with an error, or not within the client's 30 s: the request
\* may have taken effect all the same. The twin keeps its old attributes.
HandlerUpstreamError ==
    /\ call.stage = "handler"
    /\ ~Refused
    /\ ActsOnCluster(Running.action)
    /\ Flaky
    /\ exec' = [exec EXCEPT ![call.id].status = "failed"]
    /\ call' = [call EXCEPT !.stage = "return"]
    /\ \/ /\ proxyUp
          /\ cluster' = ClusterAfter
          /\ ran' = [ran EXCEPT ![call.id] = @ + 1]
       \/ UNCHANGED <<cluster, ran>>
    /\ UNCHANGED <<twin, mat, proxyUp>>

-----------------------------------------------------------------------------
(* verify_and_maybe_rollback: the verifier gives its verdict *)

PossibleVerdicts ==
    Verdicts(Running.action, Running.expected, RunningTwin,
             cluster[Running.target], proxyUp)

WantsAutoRollback(v) == v = "failed" /\ call.auto /\ Reversible(Running.action)

VerifySettles ==
    /\ call.stage = "verify"
    /\ \E v \in PossibleVerdicts :
        /\ ~WantsAutoRollback(v)
        /\ exec' = [exec EXCEPT ![call.id].verify = v]
    /\ call' = [call EXCEPT !.stage = "return"]
    /\ UNCHANGED <<twin, envVars>>

VerifyRollsBack(r) ==
    /\ call.stage = "verify"
    /\ exec[r].status = "absent"
    /\ \E v \in PossibleVerdicts :
        /\ WantsAutoRollback(v)
        /\ exec' = [exec EXCEPT ![call.id].verify = v,
                                ![r] = Reversal(call.id, TRUE)]
    /\ call' = ReverseCall(r, call.top, call.id, TRUE)
    /\ UNCHANGED <<twin, envVars>>

\* Mutant: the original is marked whatever became of the reverse execution.
SettledAlways ==
    IF call.orig # None
    THEN [exec EXCEPT ![call.orig].status = "rolled_back",
                      ![call.orig].rollbackBy = call.id]
    ELSE exec

\* Mutant: the link is written, the status is forgotten.
SettledLinkOnly ==
    IF call.orig # None /\ exec[call.id].status = "succeeded"
    THEN [exec EXCEPT ![call.orig].rollbackBy = call.id]
    ELSE exec

\* The end of do_rollback: only a reverse execution that succeeded marks the
\* original rolled back.
Settled ==
    IF call.orig # None /\ exec[call.id].status = "succeeded"
    THEN [exec EXCEPT ![call.orig].status = "rolled_back",
                      ![call.orig].rollbackBy = call.id]
    ELSE exec

Return ==
    /\ call.stage = "return"
    /\ exec' = Settled
    /\ call' = NoCall
    /\ twin' = NoTwin
    /\ UNCHANGED envVars

-----------------------------------------------------------------------------
(* Environment *)

\* A full sync replaces the materialized topology by what the cluster shows.
Sync ==
    /\ mat' = [t \in Targets |-> [present |-> TRUE, replicas |-> cluster[t]]]
    /\ UNCHANGED <<exec, call, twin, cluster, proxyUp, ran>>

\* A sync finds that a resource is gone.
Vanish(t) ==
    /\ Flaky
    /\ mat' = [mat EXCEPT ![t].present = FALSE]
    /\ UNCHANGED <<exec, call, twin, cluster, proxyUp, ran>>

\* Somebody else scales the Deployment.
Drift(t, n) ==
    /\ TypeOf[t] = "Deployment"
    /\ cluster' = [cluster EXCEPT ![t] = n]
    /\ UNCHANGED <<exec, call, twin, mat, proxyUp, ran>>

\* Only the real executor goes through the proxy.
ProxyFlips ==
    /\ Flaky
    /\ Mode = "real"
    /\ proxyUp' = ~proxyUp
    /\ UNCHANGED <<exec, call, twin, cluster, mat, ran>>

-----------------------------------------------------------------------------

DeltasOf(a) == IF a = "scale_deployment" THEN Deltas ELSE {0}

\* Bound: ids are finite here, so an operation starts only while the ids it may
\* mint, its own and that of an automatic rollback, are there.
Spare(n) == Cardinality({e \in ExecIds : exec[e].status = "absent"}) >= n

Execute(e, a, t, delta, topo) ==
    \/ ExecuteGated(e, a, t, delta, topo)
    \/ Spare(2) /\ ExecuteNow(e, a, t, delta, topo)

Operation ==
    \/ \E e \in ExecIds, a \in UsedActions, t \in Targets :
        \E delta \in DeltasOf(a) : Execute(e, a, t, delta, Snapshot)
    \/ \E e \in ExecIds :
        \/ Spare(1) /\ Confirm(e, Snapshot)
        \/ Cancel(e)
        \/ Reverify(e, Snapshot)
    \/ \E e, r \in ExecIds : Rollback(e, r, Snapshot)

EngineStep ==
    \/ HandlerRefused
    \/ HandlerSucceeds
    \/ HandlerUpstreamError
    \/ VerifySettles
    \/ \E r \in ExecIds : VerifyRollsBack(r)
    \/ Return

Environment ==
    \/ Sync
    \/ \E t \in Targets : Vanish(t)
    \/ \E t \in Targets, n \in DriftReplicas : Drift(t, n)
    \/ ProxyFlips

Next == Operation \/ EngineStep \/ Environment

Spec == Init /\ [][Next]_vars

\* The engine's own steps are fair: every await in them ends, the handler's
\* requests by the client's timeout, the read-back after its last attempt.
FairSpec == Spec /\ WF_vars(EngineStep)

-----------------------------------------------------------------------------
(* Properties *)

Done(e) == exec[e].status \in {"succeeded", "rolled_back"}

\* An execution is rolled back exactly when it names the execution that rolled
\* it back, and that one succeeded and names it in return (do_rollback writes
\* the two ends of the link in different places).
RollbackLinks ==
    \A e \in ExecIds :
        /\ exec[e].status = "rolled_back" <=> exec[e].rollbackBy # None
        /\ exec[e].rollbackBy # None =>
              /\ exec[exec[e].rollbackBy].reverses = e
              /\ Done(exec[e].rollbackBy)

\* No execution is undone twice: of the executions that reverse it, manual and
\* automatic, at most one succeeded, however often a failed one was retried.
ReversedOnce ==
    \A r, s \in ExecIds :
        /\ exec[r].reverses # None
        /\ exec[r].reverses = exec[s].reverses
        /\ Done(r) /\ Done(s)
        => r = s

\* The approval gate: what needs a confirmation has no effect before it. Only
\* reverse executions skip it, and an execution they reverse went through it.
ApprovalGate ==
    \A e \in ExecIds :
        ran[e] > 0 /\ exec[e].reverses = None /\ NeedsApproval(exec[e].action)
        => exec[e].approved

\* The status tells what happened to the cluster: an execution that succeeded
\* ran its handler once, not twice and not never; one that is waiting, rejected
\* or still executing did not. Only "failed" leaves it open, since a request
\* that timed out may have been carried out.
StatusTellsEffect ==
    \A e \in ExecIds :
        /\ Done(e) => ran[e] = 1
        /\ exec[e].status = "failed" => ran[e] <= 1
        /\ ~Done(e) /\ exec[e].status # "failed" => ran[e] = 0

\* A reverse execution is never rolled back automatically, so a verifier that
\* keeps failing cannot drive rollbacks of rollbacks.
AutoRollbackStops ==
    \A r \in ExecIds :
        exec[r].auto => /\ exec[r].reverses # None
                        /\ exec[exec[r].reverses].reverses = None

\* An automatic rollback that was started ends: the original is rolled back, or
\* a failed reverse execution says that it could not be.
AutoRollbackResolves ==
    \A e \in ExecIds :
        call.marker /\ call.orig = e ~>
            /\ Idle
            /\ \/ exec[e].status = "rolled_back"
               \/ \E r \in ExecIds : /\ exec[r].reverses = e
                                     /\ exec[r].auto
                                     /\ exec[r].status = "failed"

\* The engine keeps the promises of RecoveryLifecycle. An execution is running
\* while its handler is being called, whether the registry says "executing" or,
\* after a confirmation, still "awaiting_approval".
Phase(e) ==
    IF call.stage = "handler" /\ call.id = e THEN "running"
    ELSE CASE exec[e].status = "absent" -> "none"
           [] exec[e].status = "awaiting_approval" -> "waiting"
           [] exec[e].status = "executing" -> "running"
           [] exec[e].status = "succeeded" -> "done"
           [] exec[e].status = "rolled_back" -> "undone"
           [] OTHER -> exec[e].status

Kind(e) ==
    IF exec[e].status = "absent" THEN "none"
    ELSE IF exec[e].reverses # None THEN "reverse"
    ELSE IF NeedsApproval(exec[e].action) THEN "gated" ELSE "open"

Lifecycle == INSTANCE RecoveryLifecycle WITH
    Ids    <- ExecIds,
    phase  <- [e \in ExecIds |-> Phase(e)],
    kind   <- [e \in ExecIds |-> Kind(e)],
    undoes <- [e \in ExecIds |-> exec[e].reverses]

ImplementsLifecycle == Lifecycle!Spec

\* What handler_executor.rs promises of a scale that is rolled back in the call
\* that made it: the reverse handler starts from the replicas the original left
\* and comes back to those it found.
AutoRollbackRestores ==
    \A e \in ExecIds :
        LET r == exec[e].rollbackBy IN
        /\ exec[e].status = "rolled_back"
        /\ exec[e].action = "scale_deployment"
        /\ exec[r].auto
        => exec[r].expected = exec[e].expected - exec[e].delta

=============================================================================
