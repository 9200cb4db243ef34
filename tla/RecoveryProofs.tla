---------------------------- MODULE RecoveryProofs ----------------------------
(* Theorems about Recovery, for every set of executions and of targets; and that *)
(* the engine implements RecoveryLifecycle: every step of it is a step of the    *)
(* lifecycle or none at all.                                                     *)
EXTENDS Recovery, TLAPS

-----------------------------------------------------------------------------
(* What the decisions of RecoveryActions return *)

\* A rollback runs an action of the catalogue, with the integer the delta of the
\* original gives it.
LEMMA RollbackActionType ==
    ASSUME NEW a \in Actions, Reversible(a)
    PROVE  RollbackAction(a) \in Actions
<1>1. Actions = {"restart_pod", "scale_deployment", "rollback_deployment",
                 "refresh_secret", "drain_node", "kill_query",
                 "restart_service", "clear_cache"}
  BY DEF Actions, ActionDefs
<1> QED  BY <1>1 DEF Reversible, RollbackAction, ActionDefs

LEMMA RollbackDeltaType ==
    ASSUME NEW a, NEW d \in Int PROVE RollbackDelta(a, d) \in Int
BY DEF RollbackDelta

LEMMA NewReplicasType ==
    ASSUME NEW d \in Int, NEW tw \in Twin PROVE NewReplicas(d, tw) \in Int
BY DEF NewReplicas, OldReplicas, Twin

LEMMA TwinAfterType ==
    ASSUME NEW a \in Actions, NEW d \in Int, NEW tw \in Twin
    PROVE  TwinAfter(a, d, tw) \in Twin
<1>1. NewReplicas(d, tw) \in Int  BY NewReplicasType
<1>2. tw.written \cup {a} \in SUBSET Actions  BY DEF Twin
<1> QED  BY <1>1, <1>2 DEF TwinAfter, Twin

LEMMA VerdictsType ==
    ASSUME NEW a, NEW x, NEW tw, NEW n, NEW up, NEW v \in Verdicts(a, x, tw, n, up)
    PROVE  v \in VerifyStatuses
BY DEF Verdicts, TwinVerdicts, VerifyStatuses

-----------------------------------------------------------------------------
(* Type correctness *)

LEMMA FreshType ==
    ASSUME NEW a \in Actions, NEW t \in Targets, NEW d \in Int, NEW s \in Statuses
    PROVE  Fresh(a, t, d, s) \in Execution
BY DEF Fresh, Execution, VerifyStatuses

LEMMA UpdateType ==
    ASSUME NEW f \in [ExecIds -> Execution], NEW e \in ExecIds
    PROVE  /\ \A s \in Statuses : [f EXCEPT ![e].status = s] \in [ExecIds -> Execution]
           /\ \A n \in Int : [f EXCEPT ![e].expected = n] \in [ExecIds -> Execution]
           /\ \A r \in ExecIds \cup {None} :
                [f EXCEPT ![e].rollbackBy = r] \in [ExecIds -> Execution]
BY DEF Execution

LEMMA UnusedType == Unused \in Execution
<1>1. (CHOOSE a \in Actions : TRUE) \in Actions
  BY DEF Actions, ActionDefs
<1>2. (CHOOSE t \in Targets : TRUE) \in Targets  BY TargetsAssumption
<1>3. "absent" \in Statuses  BY DEF Statuses
<1> QED  BY <1>1, <1>2, <1>3, FreshType DEF Unused

LEMMA SnapshotType == TypeOK => Snapshot \in [Targets -> Twin]
BY DEF TypeOK, Snapshot, Twin

LEMMA NoTwinType == NoTwin \in [Targets -> Twin]
BY DEF NoTwin, Twin

LEMMA ReversalType ==
    ASSUME TypeOK, NEW e \in ExecIds, NEW b \in BOOLEAN, Reversible(exec[e].action)
    PROVE  Reversal(e, b) \in Execution
<1>1. exec[e] \in Execution  BY DEF TypeOK
<1>2. /\ exec[e].action \in Actions
      /\ exec[e].target \in Targets
      /\ exec[e].delta \in Int
  BY <1>1 DEF Execution
<1>3. RollbackAction(exec[e].action) \in Actions  BY <1>2, RollbackActionType
<1>4. RollbackDelta(exec[e].action, exec[e].delta) \in Int
  BY <1>2, RollbackDeltaType
<1>5. "executing" \in Statuses  BY DEF Statuses
<1>6. Fresh(RollbackAction(exec[e].action), exec[e].target,
            RollbackDelta(exec[e].action, exec[e].delta), "executing") \in Execution
  BY <1>2, <1>3, <1>4, <1>5, FreshType
<1> QED  BY <1>6 DEF Reversal, Execution

\* The answers of the executor and of the verifier concern an execution.
CallHasId == ~Idle => call.id \in ExecIds

TypeInv == TypeOK /\ CallHasId

LEMMA RunningTypes ==
    ASSUME TypeInv, ~Idle
    PROVE  /\ call.id \in ExecIds
           /\ Running.action \in Actions
           /\ Running.target \in Targets
           /\ Running.delta \in Int
           /\ RunningTwin \in Twin
           /\ NewReplicas(Running.delta, RunningTwin) \in Int
           /\ ClusterAfter \in [Targets -> Int]
<1>1. call.id \in ExecIds  BY DEF TypeInv, CallHasId
<1>2. exec[call.id] \in Execution  BY <1>1 DEF TypeInv, TypeOK
<1>3. /\ Running.action \in Actions
      /\ Running.target \in Targets
      /\ Running.delta \in Int
  BY <1>2 DEF Execution, Running
<1>4. RunningTwin \in Twin  BY <1>3 DEF RunningTwin, TypeInv, TypeOK
<1>5. NewReplicas(Running.delta, RunningTwin) \in Int  BY <1>3, <1>4, NewReplicasType
<1>6. ClusterAfter \in [Targets -> Int]
  BY <1>5 DEF ClusterAfter, TypeInv, TypeOK
<1> QED  BY <1>1, <1>3, <1>4, <1>5, <1>6

\* A command starts from the topology it read, whenever that was.
LEMMA CommandType ==
    ASSUME TypeInv, NEW topo \in [Targets -> Twin],
           \E e \in ExecIds :
              \/ \E a \in UsedActions, t \in Targets :
                    \E d \in DeltasOf(a) :
                        ExecuteGated(e, a, t, d, topo) \/ ExecuteNow(e, a, t, d, topo)
              \/ Confirm(e, topo) \/ Cancel(e) \/ Reverify(e, topo)
              \/ \E r \in ExecIds : Rollback(e, r, topo)
    PROVE  TypeInv'
<1> USE DEF TypeInv
<1>1. ASSUME NEW e \in ExecIds, NEW a \in UsedActions, NEW t \in Targets,
             NEW d \in DeltasOf(a), ExecuteGated(e, a, t, d, topo)
      PROVE  TypeInv'
  <2>1. a \in Actions /\ d \in Int  BY InputsAssumption DEF DeltasOf
  <2>2. Fresh(a, t, d, "awaiting_approval") \in Execution
    BY <2>1, FreshType DEF Statuses
  <2>3. exec' \in [ExecIds -> Execution]
    BY <1>1, <2>2 DEF TypeOK, ExecuteGated
  <2> QED  BY <1>1, <2>3 DEF ExecuteGated, TypeOK, CallHasId, Idle, envVars
<1>2. ASSUME NEW e \in ExecIds, NEW a \in UsedActions, NEW t \in Targets,
             NEW d \in DeltasOf(a), ExecuteNow(e, a, t, d, topo)
      PROVE  TypeInv'
  <2>1. a \in Actions /\ d \in Int  BY InputsAssumption DEF DeltasOf
  <2>2. Fresh(a, t, d, "executing") \in Execution
    BY <2>1, FreshType DEF Statuses
  <2>3. exec' \in [ExecIds -> Execution]
    BY <1>2, <2>2 DEF TypeOK, ExecuteNow
  <2>4. call' \in Call /\ call'.id \in ExecIds
    BY <1>2 DEF ExecuteNow, RunCall, Call
  <2> QED  BY <1>2, <2>3, <2>4 DEF ExecuteNow, TypeOK, CallHasId, envVars
<1>3. ASSUME NEW e \in ExecIds, Confirm(e, topo) PROVE TypeInv'
  <2>1. exec' \in [ExecIds -> Execution]
    BY ZenonT(40), <1>3 DEF TypeOK, Confirm, Execution
  <2>2. call' \in Call /\ call'.id \in ExecIds
    BY <1>3 DEF Confirm, RunCall, Call
  <2> QED  BY <1>3, <2>1, <2>2 DEF Confirm, TypeOK, CallHasId, envVars
<1>4. ASSUME NEW e \in ExecIds, Cancel(e) PROVE TypeInv'
  <2>1. exec' \in [ExecIds -> Execution]
    BY <1>4, UpdateType DEF TypeOK, Cancel, Statuses
  <2> QED  BY <1>4, <2>1 DEF Cancel, TypeOK, CallHasId, Idle, envVars
<1>5. ASSUME NEW e \in ExecIds, Reverify(e, topo) PROVE TypeInv'
  <2>1. call' \in Call /\ call'.id \in ExecIds
    BY <1>5 DEF Reverify, NoCall, Call
  <2> QED  BY <1>5, <2>1 DEF Reverify, TypeOK, CallHasId, envVars
<1>6. ASSUME NEW e \in ExecIds, NEW r \in ExecIds, Rollback(e, r, topo)
      PROVE  TypeInv'
  <2>1. Reversal(e, FALSE) \in Execution  BY <1>6, ReversalType DEF Rollback
  <2>2. exec' \in [ExecIds -> Execution]  BY <1>6, <2>1 DEF TypeOK, Rollback
  <2>3. call' \in Call /\ call'.id \in ExecIds
    BY <1>6 DEF Rollback, ReverseCall, Call
  <2> QED  BY <1>6, <2>2, <2>3 DEF Rollback, TypeOK, CallHasId, envVars
<1> QED  BY <1>1, <1>2, <1>3, <1>4, <1>5, <1>6

LEMMA OperationType == TypeInv /\ Operation => TypeInv'
<1> SUFFICES ASSUME TypeInv, Operation PROVE TypeInv'  OBVIOUS
<1>1. Snapshot \in [Targets -> Twin]  BY SnapshotType DEF TypeInv
<1> QED  BY <1>1, CommandType DEF Operation, Execute

LEMMA SettledType ==
    ASSUME TypeInv, ~Idle PROVE Settled \in [ExecIds -> Execution]
<1>1. CASE Settled = exec  BY <1>1 DEF TypeInv, TypeOK
<1>2. CASE /\ call.orig # None
           /\ Settled = [[exec EXCEPT ![call.orig].status = "rolled_back"]
                          EXCEPT ![call.orig].rollbackBy = call.id]
  <2>1. call.orig \in ExecIds  BY <1>2 DEF TypeInv, TypeOK, Call
  <2>2. [exec EXCEPT ![call.orig].status = "rolled_back"] \in [ExecIds -> Execution]
    BY <2>1, UpdateType DEF TypeInv, TypeOK, Statuses
  <2>3. call.id \in ExecIds  BY DEF TypeInv, CallHasId
  <2> QED  BY <1>2, <2>1, <2>2, <2>3, UpdateType
<1> QED  BY <1>1, <1>2 DEF Settled

LEMMA EngineStepType == TypeInv /\ EngineStep => TypeInv'
<1> SUFFICES ASSUME TypeInv, EngineStep PROVE TypeInv'  OBVIOUS
<1>0. ~Idle
  BY DEF EngineStep, HandlerRefused, HandlerSucceeds, HandlerUpstreamError,
         VerifySettles, VerifyRollsBack, Return, Idle
<1>r. /\ call.id \in ExecIds
      /\ Running.action \in Actions
      /\ Running.target \in Targets
      /\ Running.delta \in Int
      /\ RunningTwin \in Twin
      /\ NewReplicas(Running.delta, RunningTwin) \in Int
      /\ ClusterAfter \in [Targets -> Int]
  BY <1>0, RunningTypes
<1> USE DEF TypeInv
<1>1. CASE HandlerRefused
  <2>1. exec' \in [ExecIds -> Execution]
    BY <1>1, <1>r, UpdateType DEF TypeOK, HandlerRefused, Statuses
  <2>2. call' \in Call /\ call'.id \in ExecIds
    BY <1>1, <1>r DEF TypeOK, HandlerRefused, Call
  <2> QED  BY <1>1, <2>1, <2>2 DEF HandlerRefused, TypeOK, CallHasId, envVars
<1>2. CASE HandlerSucceeds
  <2>1. exec' \in [ExecIds -> Execution]
    <3>1. [exec EXCEPT ![call.id].status = "succeeded"] \in [ExecIds -> Execution]
      BY <1>r, UpdateType DEF TypeOK, Statuses
    <3>2. exec' = [[exec EXCEPT ![call.id].status = "succeeded"] EXCEPT
                    ![call.id].expected =
                        IF Running.action = "scale_deployment"
                        THEN NewReplicas(Running.delta, RunningTwin) ELSE 0]
      BY <1>2 DEF HandlerSucceeds
    <3> QED  BY <3>1, <3>2, <1>r, UpdateType
  <2>2. call' \in Call /\ call'.id \in ExecIds
    BY <1>2, <1>r DEF TypeOK, HandlerSucceeds, Call
  <2>3. TwinAfter(Running.action, Running.delta, RunningTwin) \in Twin
    BY <1>r, TwinAfterType
  <2>4. twin' \in [Targets -> Twin]
    BY <1>2, <1>r, <2>3 DEF TypeOK, HandlerSucceeds, RunningTwin
  <2>5. ran' \in [ExecIds -> Nat]  BY <1>2, <1>r DEF TypeOK, HandlerSucceeds
  <2> QED  BY <1>2, <1>r, <2>1, <2>2, <2>4, <2>5 DEF HandlerSucceeds, TypeOK, CallHasId
<1>3. CASE HandlerUpstreamError
  <2>1. exec' \in [ExecIds -> Execution]
    BY SMTT(30), <1>3, <1>r DEF TypeOK, HandlerUpstreamError, Execution, Statuses
  <2>2. call' \in Call /\ call'.id \in ExecIds
    BY <1>3, <1>r DEF TypeOK, HandlerUpstreamError, Call
  <2>3. ran' \in [ExecIds -> Nat]  BY <1>3, <1>r DEF TypeOK, HandlerUpstreamError
  <2>4. cluster' \in [Targets -> Int]  BY <1>3, <1>r DEF TypeOK, HandlerUpstreamError
  <2> QED  BY <1>3, <2>1, <2>2, <2>3, <2>4 DEF HandlerUpstreamError, TypeOK, CallHasId
<1>4. CASE VerifySettles
  <2>1. PICK v \in PossibleVerdicts : exec' = [exec EXCEPT ![call.id].verify = v]
    BY <1>4 DEF VerifySettles
  <2>2. v \in VerifyStatuses  BY <2>1, VerdictsType DEF PossibleVerdicts
  <2>3. exec' \in [ExecIds -> Execution]  BY SMTT(30), <2>1, <2>2, <1>r DEF TypeOK, Execution
  <2>4. call' \in Call /\ call'.id \in ExecIds
    BY <1>4, <1>r DEF TypeOK, VerifySettles, Call
  <2> QED  BY <1>4, <2>3, <2>4 DEF VerifySettles, TypeOK, CallHasId, envVars
<1>5. ASSUME NEW r \in ExecIds, VerifyRollsBack(r) PROVE TypeInv'
  <2>1. PICK v \in PossibleVerdicts :
            /\ WantsAutoRollback(v)
            /\ exec' = [exec EXCEPT ![call.id].verify = v,
                                    ![r] = Reversal(call.id, TRUE)]
    BY <1>5 DEF VerifyRollsBack
  <2>2. v \in VerifyStatuses  BY <2>1, VerdictsType DEF PossibleVerdicts
  <2>3. Reversal(call.id, TRUE) \in Execution
    BY <2>1, <1>r, ReversalType DEF WantsAutoRollback, Running
  <2>4. [exec EXCEPT ![call.id].verify = v] \in [ExecIds -> Execution]
    BY SMTT(30), <2>2, <1>r DEF TypeOK, Execution
  <2>5. exec' \in [ExecIds -> Execution]  BY <2>1, <2>3, <2>4
  <2>6. call' \in Call /\ call'.id \in ExecIds
    BY <1>5, <1>r DEF TypeOK, VerifyRollsBack, ReverseCall, Call
  <2> QED  BY <1>5, <2>5, <2>6 DEF VerifyRollsBack, TypeOK, CallHasId, envVars
<1>6. CASE Return
  <2>1. Settled \in [ExecIds -> Execution]  BY <1>0, SettledType DEF TypeInv
  <2>2. call' \in Call /\ call'.stage = "idle"
    BY <1>6 DEF Return, NoCall, Call
  <2>3. twin' \in [Targets -> Twin]  BY <1>6, NoTwinType DEF Return
  <2> QED  BY <1>6, <2>1, <2>2, <2>3 DEF Return, TypeOK, CallHasId, Idle, envVars
<1> QED  BY <1>1, <1>2, <1>3, <1>4, <1>5, <1>6 DEF EngineStep

LEMMA EnvironmentType == TypeInv /\ Environment => TypeInv'
<1> SUFFICES ASSUME TypeInv, Environment PROVE TypeInv'  OBVIOUS
<1> USE DEF TypeInv, TypeOK, CallHasId, Idle
<1>1. CASE Sync  BY <1>1 DEF Sync
<1>2. ASSUME NEW t \in Targets, Vanish(t) PROVE TypeInv'  BY <1>2 DEF Vanish
<1>3. ASSUME NEW t \in Targets, NEW n \in DriftReplicas, Drift(t, n) PROVE TypeInv'
  BY <1>3, InputsAssumption DEF Drift
<1>4. CASE ProxyFlips  BY <1>4 DEF ProxyFlips
<1> QED  BY <1>1, <1>2, <1>3, <1>4 DEF Environment

LEMMA TypeInit == Init => TypeInv
<1> SUFFICES ASSUME Init PROVE TypeInv  OBVIOUS
<1>1. exec \in [ExecIds -> Execution]  BY UnusedType DEF Init
<1>2. call \in Call /\ Idle  BY DEF Init, NoCall, Call, Idle
<1>3. twin \in [Targets -> Twin]  BY NoTwinType DEF Init
<1> QED  BY <1>1, <1>2, <1>3, InputsAssumption DEF Init, TypeInv, TypeOK, CallHasId

LEMMA TypeStep == TypeInv /\ [Next]_vars => TypeInv'
<1> SUFFICES ASSUME TypeInv, [Next]_vars PROVE TypeInv'  OBVIOUS
<1>1. CASE UNCHANGED vars
  BY <1>1 DEF vars, TypeInv, TypeOK, CallHasId, Idle
<1> QED  BY <1>1, OperationType, EngineStepType, EnvironmentType DEF Next

-----------------------------------------------------------------------------
(* The inductive invariant. The properties of Recovery speak of the registry *)
(* between calls; what makes them hold is what a call in progress knows of   *)
(* the executions it works on, which the next conjuncts say.                 *)

NeverRan == {"absent", "awaiting_approval", "rejected"}

\* The execution a call reverses waits, succeeded and unlinked, for do_rollback
\* to settle it; and what may set off an automatic rollback reverses nothing.
CallKnows ==
    /\ Idle => call.orig = None /\ ~call.auto
    /\ call.orig # None =>
          /\ exec[call.id].reverses = call.orig
          /\ exec[call.orig].status = "succeeded"
          /\ exec[call.orig].rollbackBy = None
    /\ call.auto => exec[call.id].reverses = None

\* The status of the execution a call runs or verifies, stage by stage.
StageFits ==
    /\ call.stage = "handler" =>
          /\ exec[call.id].status \in {"executing", "awaiting_approval"}
          /\ exec[call.id].reverses = call.orig
    /\ call.stage = "verify" =>
          /\ Done(call.id)
          /\ call.auto \/ call.orig # None => exec[call.id].status = "succeeded"
    /\ call.stage = "return" /\ call.orig # None =>
          exec[call.id].status \in {"succeeded", "failed"}

OnlyTheCallExecutes ==
    \A e \in ExecIds :
        exec[e].status = "executing" => call.stage = "handler" /\ call.id = e

\* A reverse execution that succeeded is either linked from its original or the
\* one the call is about to link.
ReversalsAccounted ==
    \A r \in ExecIds :
        exec[r].reverses # None =>
            /\ exec[r].status \notin NeverRan
            /\ Done(exec[r].reverses)
            /\ Done(r) => \/ exec[exec[r].reverses].rollbackBy = r
                          \/ call.id = r /\ call.orig = exec[r].reverses

\* What holds whoever drives the engine, a command or a chain.
Control ==
    /\ CallKnows
    /\ StageFits
    /\ OnlyTheCallExecutes
    /\ ReversalsAccounted
    /\ RollbackLinks
    /\ StatusTellsEffect
    /\ AutoRollbackStops

EngineInv ==
    /\ TypeInv
    /\ CallKnows
    /\ StageFits
    /\ OnlyTheCallExecutes
    /\ ReversalsAccounted
    /\ RollbackLinks
    /\ StatusTellsEffect
    /\ AutoRollbackStops

\* The gate, which a chain does without: its steps are started unapproved.
CallApproved ==
    /\ call.stage = "handler"
    /\ call.orig = None
    /\ NeedsApproval(exec[call.id].action)
    => exec[call.id].approved

GatePassed ==
    \A e \in ExecIds :
        /\ exec[e].reverses = None
        /\ NeedsApproval(exec[e].action)
        /\ exec[e].status \notin NeverRan
        => exec[e].approved

IInv == EngineInv /\ CallApproved /\ GatePassed

\* The facts about the types the steps below use.
LEMMA Typed ==
    ASSUME TypeInv
    PROVE  /\ \A e \in ExecIds :
                /\ exec[e] \in Execution
                /\ exec[e].status \in Statuses
                /\ exec[e].reverses \in ExecIds \cup {None}
                /\ exec[e].rollbackBy \in ExecIds \cup {None}
                /\ ran[e] \in Nat
           /\ call.stage \in {"idle", "handler", "verify", "return"}
           /\ ~Idle => call.id \in ExecIds
           /\ call.orig \in ExecIds \cup {None}
           /\ None \notin ExecIds
BY IdsAssumption DEF TypeInv, TypeOK, CallHasId, Execution, Call

\* What the answer of an executor or of a verifier changes, whatever the answer:
\* the execution of the call, of which it leaves what it is and its links alone.
LEMMA EngineFrame ==
    ASSUME TypeInv, NEW e \in ExecIds, e = call.id,
           \/ HandlerRefused \/ HandlerSucceeds \/ HandlerUpstreamError
           \/ VerifySettles
    PROVE  /\ call'.stage \in {"verify", "return"}
           /\ call' = [call EXCEPT !.stage = call'.stage]
           /\ exec'[e].action = exec[e].action
           /\ exec'[e].reverses = exec[e].reverses
           /\ exec'[e].auto = exec[e].auto
           /\ exec'[e].rollbackBy = exec[e].rollbackBy
           /\ \A x \in ExecIds : x # e => exec'[x] = exec[x] /\ ran'[x] = ran[x]
           /\ \/ /\ call.stage = "handler"
                 /\ exec'[e].status \in {"succeeded", "failed"}
                 /\ call'.stage = "verify" => exec'[e].status = "succeeded"
                 /\ ran'[e] \in {ran[e], ran[e] + 1}
                 /\ exec'[e].status = "succeeded" => ran'[e] = ran[e] + 1
              \/ /\ call.stage = "verify" /\ call'.stage = "return"
                 /\ exec'[e].status = exec[e].status
                 /\ ran' = ran
<1>1. /\ call'.stage \in {"verify", "return"}
      /\ call' = [call EXCEPT !.stage = call'.stage]
  <2>1. \A s : [call EXCEPT !.stage = s].stage = s  BY DEF TypeInv, TypeOK, Call
  <2>2. PICK s \in {"verify", "return"} : call' = [call EXCEPT !.stage = s]
    BY DEF HandlerRefused, HandlerSucceeds, HandlerUpstreamError, VerifySettles
  <2> QED  BY <2>1, <2>2
<1>2. /\ exec'[e].action = exec[e].action
      /\ exec'[e].reverses = exec[e].reverses
      /\ exec'[e].auto = exec[e].auto
      /\ exec'[e].rollbackBy = exec[e].rollbackBy
      /\ \A x \in ExecIds : x # e => exec'[x] = exec[x] /\ ran'[x] = ran[x]
  <2>1. CASE HandlerRefused
    BY <2>1, Typed DEF HandlerRefused, envVars, TypeInv, TypeOK, Execution
  <2>2. CASE HandlerSucceeds
    <3>1. PICK n : exec' = [exec EXCEPT ![e].status = "succeeded", ![e].expected = n]
      BY <2>2 DEF HandlerSucceeds
    <3>2. exec'[e] = [exec[e] EXCEPT !.status = "succeeded", !.expected = n]
      BY <3>1 DEF TypeInv, TypeOK
    <3>3. \A x \in ExecIds : x # e => exec'[x] = exec[x]
      BY <3>1 DEF TypeInv, TypeOK
    <3>4. \A x \in ExecIds : x # e => ran'[x] = ran[x]
      BY <2>2 DEF HandlerSucceeds, TypeInv, TypeOK
    <3> QED  BY <3>2, <3>3, <3>4, Typed DEF Execution
  <2>3. CASE HandlerUpstreamError
    BY <2>3, Typed DEF HandlerUpstreamError, TypeInv, TypeOK, Execution
  <2>4. CASE VerifySettles
    BY <2>4, Typed DEF VerifySettles, envVars, TypeInv, TypeOK, Execution
  <2> QED  BY <2>1, <2>2, <2>3, <2>4
<1>3. \/ /\ call.stage = "handler"
         /\ exec'[e].status \in {"succeeded", "failed"}
         /\ call'.stage = "verify" => exec'[e].status = "succeeded"
         /\ ran'[e] \in {ran[e], ran[e] + 1}
         /\ exec'[e].status = "succeeded" => ran'[e] = ran[e] + 1
      \/ /\ call.stage = "verify" /\ call'.stage = "return"
         /\ exec'[e].status = exec[e].status
         /\ ran' = ran
  <2>1. CASE HandlerRefused
    BY <2>1, <1>1, Typed DEF HandlerRefused, envVars, TypeInv, TypeOK, Execution, Call
  <2>2. CASE HandlerSucceeds
    <3>1. PICK n : exec' = [exec EXCEPT ![e].status = "succeeded", ![e].expected = n]
      BY <2>2 DEF HandlerSucceeds
    <3>2. exec'[e] = [exec[e] EXCEPT !.status = "succeeded", !.expected = n]
      BY <3>1 DEF TypeInv, TypeOK
    <3>3. exec'[e].status = "succeeded"  BY <3>2, Typed DEF Execution
    <3>4. ran'[e] = ran[e] + 1
      BY <2>2 DEF HandlerSucceeds, TypeInv, TypeOK
    <3> QED  BY <2>2, <3>3, <3>4 DEF HandlerSucceeds
  <2>3. CASE HandlerUpstreamError
    BY <2>3, <1>1, Typed
    DEF HandlerUpstreamError, TypeInv, TypeOK, Execution, Call
  <2>4. CASE VerifySettles
    BY <2>4, Typed DEF VerifySettles, envVars, TypeInv, TypeOK, Execution, Call
  <2> QED  BY <2>1, <2>2, <2>3, <2>4
<1> QED  BY <1>1, <1>2, <1>3

\* A new execution e that reverses nothing, awaiting its confirmation or run.
LEMMA NewExecution ==
    ASSUME EngineInv, Idle, NEW e \in ExecIds, exec[e].status = "absent",
           NEW a \in Actions, NEW t \in Targets, NEW d \in Int,
           NEW s \in {"awaiting_approval", "executing"},
           exec' = [exec EXCEPT ![e] = Fresh(a, t, d, s)],
           ran' = ran,
           \/ s = "awaiting_approval" /\ call' = call
           \/ /\ s = "executing"
              /\ call'.stage = "handler" /\ call'.id = e /\ call'.orig = None
    PROVE  Control'
<1> USE DEF EngineInv
<1>1. \A x \in ExecIds : x # e => exec'[x] = exec[x]  BY DEF TypeInv, TypeOK
<1>2. exec'[e] = Fresh(a, t, d, s)  BY DEF TypeInv, TypeOK
<1>3. /\ exec'[e].status = s
      /\ exec'[e].action = a
      /\ exec'[e].reverses = None
      /\ exec'[e].rollbackBy = None
      /\ exec'[e].auto = FALSE
  BY <1>2 DEF Fresh
<1>4. \A x \in ExecIds : exec[x].reverses # e /\ exec[x].rollbackBy # e
  BY Typed DEF ReversalsAccounted, RollbackLinks, Done, NeverRan
<1>5. exec[e].reverses = None /\ exec[e].rollbackBy = None
  BY DEF ReversalsAccounted, RollbackLinks, NeverRan
<1>6. /\ call'.orig = None
      /\ \/ call'.stage = "idle" /\ ~call'.auto
         \/ call'.stage = "handler" /\ call'.id = e /\ s = "executing"
      /\ s = "executing" => call'.stage = "handler" /\ call'.id = e
  BY DEF CallKnows, Idle
<1>7. CallKnows'  BY <1>3, <1>6 DEF CallKnows, Idle
<1>8. StageFits'  BY <1>3, <1>6 DEF StageFits
<1>9. OnlyTheCallExecutes'  BY <1>1, <1>3, <1>6 DEF OnlyTheCallExecutes, Idle
<1>10. ReversalsAccounted'
  BY <1>1, <1>3, <1>4, <1>5, Typed DEF ReversalsAccounted, CallKnows, Done, NeverRan
<1>11. RollbackLinks'  BY <1>1, <1>3, <1>4, <1>5, Typed DEF RollbackLinks, Done
<1>12. StatusTellsEffect'  BY <1>1, <1>3 DEF StatusTellsEffect, Done
<1>13. AutoRollbackStops'  BY <1>1, <1>3, <1>4, Typed DEF AutoRollbackStops
<1> QED  BY <1>7, <1>8, <1>9, <1>10, <1>11, <1>12, <1>13 DEF Control

LEMMA ConfirmStep ==
    ASSUME EngineInv, NEW e \in ExecIds, Confirm(e, Snapshot) PROVE Control'
<1> USE DEF EngineInv
<1>1. /\ Idle
      /\ exec[e].status = "awaiting_approval"
      /\ call' = RunCall(e)
      /\ ran' = ran
      /\ exec' = [exec EXCEPT ![e].approved = TRUE]
  BY DEF Confirm, envVars
<1>2. \A x \in ExecIds : x # e => exec'[x] = exec[x]
  BY <1>1 DEF TypeInv, TypeOK
<1>3. /\ exec'[e].approved
      /\ exec'[e].status = exec[e].status
      /\ exec'[e].reverses = exec[e].reverses
      /\ exec'[e].rollbackBy = exec[e].rollbackBy
      /\ exec'[e].auto = exec[e].auto
  BY <1>1, Typed DEF TypeInv, TypeOK, Execution
<1>4. exec[e].reverses = None  BY <1>1 DEF ReversalsAccounted, NeverRan
<1>5. /\ call'.stage = "handler"
      /\ call'.id = e
      /\ call'.orig = None
  BY <1>1 DEF RunCall
<1>6. call.orig = None  BY <1>1 DEF CallKnows
<1>7. CallKnows'  BY <1>3, <1>4, <1>5 DEF CallKnows, Idle
<1>8. StageFits'  BY <1>1, <1>3, <1>4, <1>5 DEF StageFits
<1>9. OnlyTheCallExecutes'
  BY <1>1, <1>2, <1>3, <1>5 DEF OnlyTheCallExecutes, Idle
<1>10. ReversalsAccounted'
  BY <1>1, <1>2, <1>3, <1>5, <1>6, Typed DEF ReversalsAccounted, Done, NeverRan
<1>11. RollbackLinks'  BY <1>2, <1>3, Typed DEF RollbackLinks, Done
<1>12. StatusTellsEffect'  BY <1>1, <1>2, <1>3 DEF StatusTellsEffect, Done
<1>13. AutoRollbackStops'  BY <1>2, <1>3, Typed DEF AutoRollbackStops
<1> QED  BY <1>7, <1>8, <1>9, <1>10, <1>11, <1>12, <1>13 DEF Control

LEMMA CancelStep ==
    ASSUME EngineInv, NEW e \in ExecIds, Cancel(e) PROVE Control'
<1> USE DEF EngineInv
<1>1. /\ Idle
      /\ exec[e].status = "awaiting_approval"
      /\ call' = call
      /\ ran' = ran
      /\ exec' = [exec EXCEPT ![e].status = "rejected"]
  BY DEF Cancel, envVars
<1>2. \A x \in ExecIds : x # e => exec'[x] = exec[x]
  BY <1>1 DEF TypeInv, TypeOK
<1>3. /\ exec'[e].status = "rejected"
      /\ exec'[e].reverses = exec[e].reverses
      /\ exec'[e].rollbackBy = exec[e].rollbackBy
      /\ exec'[e].auto = exec[e].auto
  BY <1>1, Typed DEF TypeInv, TypeOK, Execution
<1>4. exec[e].reverses = None /\ exec[e].rollbackBy = None
  BY <1>1 DEF ReversalsAccounted, RollbackLinks, NeverRan
<1>5. \A x \in ExecIds : exec[x].reverses # e /\ exec[x].rollbackBy # e
  BY <1>1, Typed DEF ReversalsAccounted, RollbackLinks, Done, NeverRan
<1>6. call.stage = "idle" /\ call.orig = None /\ ~call.auto
  BY <1>1 DEF CallKnows, Idle
<1>7. CallKnows'  BY <1>1, <1>6 DEF CallKnows, Idle
<1>8. StageFits'  BY <1>1, <1>6 DEF StageFits
<1>9. OnlyTheCallExecutes'  BY <1>1, <1>2, <1>3 DEF OnlyTheCallExecutes
<1>10. ReversalsAccounted'
  BY <1>1, <1>2, <1>3, <1>4, <1>5, Typed DEF ReversalsAccounted, Done, NeverRan
<1>11. RollbackLinks'  BY <1>2, <1>3, <1>4, <1>5, Typed DEF RollbackLinks, Done
<1>12. StatusTellsEffect'  BY <1>1, <1>2, <1>3 DEF StatusTellsEffect, Done
<1>13. AutoRollbackStops'  BY <1>2, <1>3, Typed DEF AutoRollbackStops
<1> QED  BY <1>7, <1>8, <1>9, <1>10, <1>11, <1>12, <1>13 DEF Control

LEMMA ReverifyStep ==
    ASSUME EngineInv, NEW e \in ExecIds, Reverify(e, Snapshot) PROVE Control'
<1> USE DEF EngineInv
<1>1. /\ Idle
      /\ Done(e)
      /\ exec' = exec
      /\ ran' = ran
      /\ call'.stage = "verify"
      /\ call'.id = e
      /\ call'.orig = None
      /\ call'.auto = FALSE
  BY DEF Reverify, envVars, NoCall, Done
<1>2. call.orig = None  BY <1>1 DEF CallKnows
<1>3. CallKnows'  BY <1>1 DEF CallKnows, Idle
<1>4. StageFits'  BY <1>1 DEF StageFits, Done
<1>5. OnlyTheCallExecutes'  BY <1>1 DEF OnlyTheCallExecutes, Idle
<1>6. ReversalsAccounted'  BY <1>1, <1>2, Typed DEF ReversalsAccounted, Done
<1>7. /\ RollbackLinks'
      /\ StatusTellsEffect'
      /\ AutoRollbackStops'
  BY <1>1 DEF RollbackLinks, StatusTellsEffect, AutoRollbackStops, Done
<1> QED  BY <1>3, <1>4, <1>5, <1>6, <1>7 DEF Control

\* do_rollback begins, for an operator or for a failed verification.
LEMMA ReversalStarts ==
    ASSUME EngineInv,
           call.stage \in {"idle", "verify"}, call.orig = None,
           NEW e \in ExecIds, exec[e].status = "succeeded", exec[e].rollbackBy = None,
           NEW r \in ExecIds, exec[r].status = "absent",
           NEW m \in BOOLEAN, m => exec[e].reverses = None, NEW top,
           \A x \in ExecIds : x # e /\ x # r => exec'[x] = exec[x],
           exec'[e].status = exec[e].status,
           exec'[e].reverses = exec[e].reverses,
           exec'[e].rollbackBy = exec[e].rollbackBy,
           exec'[e].auto = exec[e].auto,
           exec'[r] = Reversal(e, m),
           call' = ReverseCall(r, top, e, m),
           ran' = ran
    PROVE  Control'
<1> USE DEF EngineInv
<1>1. e # r  OBVIOUS
<1>2. /\ exec'[r].status = "executing"
      /\ exec'[r].reverses = e
      /\ exec'[r].rollbackBy = None
      /\ exec'[r].auto = m
  BY DEF Reversal, Fresh
<1>3. /\ call'.stage = "handler"
      /\ call'.id = r
      /\ call'.orig = e
      /\ call'.auto = FALSE
  BY DEF ReverseCall
<1>4. e # None  BY Typed
<1>5. \A x \in ExecIds : exec[x].reverses # r /\ exec[x].rollbackBy # r
  BY Typed DEF ReversalsAccounted, RollbackLinks, Done, NeverRan
<1>6. exec[r].reverses = None /\ exec[r].rollbackBy = None
  BY DEF ReversalsAccounted, RollbackLinks, NeverRan
<1>7. CallKnows'  BY <1>2, <1>3 DEF CallKnows, Idle
<1>8. StageFits'  BY <1>2, <1>3, <1>4 DEF StageFits
<1>9. OnlyTheCallExecutes'  BY <1>1, <1>2, <1>3 DEF OnlyTheCallExecutes
<1>10. ReversalsAccounted'
  <2> SUFFICES ASSUME NEW x \in ExecIds, exec'[x].reverses # None
               PROVE  /\ exec'[x].status \notin NeverRan
                      /\ Done(exec[x].reverses)' \/ x = r
                      /\ x = r => Done(e)'
                      /\ Done(x)' => \/ exec'[exec'[x].reverses].rollbackBy = x
                                     \/ call'.id = x /\ call'.orig = exec'[x].reverses
    BY <1>1, <1>2 DEF ReversalsAccounted
  <2>1. CASE x = r  BY <2>1, <1>1, <1>2, <1>3 DEF Done, NeverRan
  <2>2. CASE x # r
    <3>1. exec'[x].reverses = exec[x].reverses /\ exec'[x].status = exec[x].status
      BY <2>2
    <3>2. exec[x].reverses \in ExecIds /\ exec[x].reverses # r
      BY <3>1, <1>5, Typed
    <3> QED  BY <2>2, <3>1, <3>2 DEF ReversalsAccounted, Done, NeverRan
  <2> QED  BY <2>1, <2>2
<1>11. RollbackLinks'  BY <1>1, <1>2, <1>5, <1>6, Typed DEF RollbackLinks, Done
<1>12. StatusTellsEffect'  BY <1>1, <1>2 DEF StatusTellsEffect, Done
<1>13. AutoRollbackStops'  BY <1>1, <1>2, <1>4, <1>5, Typed DEF AutoRollbackStops
<1> QED  BY <1>7, <1>8, <1>9, <1>10, <1>11, <1>12, <1>13 DEF Control

\* do_rollback begins while no call is in progress.
LEMMA ReversalStep ==
    ASSUME EngineInv, Idle,
           NEW e \in ExecIds, exec[e].status = "succeeded",
           NEW r \in ExecIds, exec[r].status = "absent",
           NEW m \in BOOLEAN, m => exec[e].reverses = None,
           exec' = [exec EXCEPT ![r] = Reversal(e, m)],
           call' = ReverseCall(r, r, e, m),
           ran' = ran
    PROVE  Control'
<1>1. /\ exec'[r] = Reversal(e, m)
      /\ \A x \in ExecIds : x # r => exec'[x] = exec[x]
  BY DEF EngineInv, TypeInv, TypeOK
<1>2. e # r  OBVIOUS
<1>3. call.stage = "idle" /\ call.orig = None  BY DEF EngineInv, CallKnows, Idle
<1>4. exec'[e] = exec[e]  BY <1>1, <1>2
<1>5. exec[e].rollbackBy = None  BY DEF EngineInv, RollbackLinks
<1> QED  BY <1>1, <1>3, <1>4, <1>5, ReversalStarts

LEMMA RollbackStep ==
    ASSUME EngineInv, NEW e \in ExecIds, NEW r \in ExecIds, Rollback(e, r, Snapshot)
    PROVE  Control'
BY ReversalStep DEF Rollback, envVars

LEMMA VerifyRollsBackStep ==
    ASSUME EngineInv, NEW r \in ExecIds, VerifyRollsBack(r) PROVE Control'
<1> USE DEF EngineInv
<1> DEFINE e == call.id
<1>1. PICK v \in PossibleVerdicts :
        /\ WantsAutoRollback(v)
        /\ exec' = [exec EXCEPT ![e].verify = v, ![r] = Reversal(e, TRUE)]
  BY DEF VerifyRollsBack
<1>2. /\ call.stage = "verify"
      /\ call' = ReverseCall(r, call.top, e, TRUE)
      /\ ran' = ran
      /\ exec[r].status = "absent"
      /\ call.auto
  BY <1>1 DEF VerifyRollsBack, envVars, WantsAutoRollback
<1>3. e \in ExecIds  BY <1>2, Typed DEF Idle
<1>4. exec[e].status = "succeeded" /\ exec[e].reverses = None
  BY <1>2 DEF StageFits, CallKnows
<1>5. call.orig = None  BY <1>2, <1>4 DEF CallKnows
<1>6. exec[e].rollbackBy = None  BY <1>3, <1>4 DEF RollbackLinks
<1>7. e # r  BY <1>2, <1>4
<1>8. /\ exec'[r] = Reversal(e, TRUE)
      /\ \A x \in ExecIds : x # r /\ x # e => exec'[x] = exec[x]
      /\ exec'[e] = [exec[e] EXCEPT !.verify = v]
  BY <1>1, <1>3, <1>7 DEF TypeInv, TypeOK
<1>9. /\ exec'[e].status = exec[e].status
      /\ exec'[e].reverses = exec[e].reverses
      /\ exec'[e].rollbackBy = exec[e].rollbackBy
      /\ exec'[e].auto = exec[e].auto
  BY <1>3, <1>8, Typed DEF Execution
<1> HIDE DEF e
<1> QED  BY ZenonT(40), <1>2, <1>3, <1>4, <1>5, <1>6, <1>8, <1>9, ReversalStarts

\* run_handler has its answer: s is the status it leaves, stage where it goes on.
LEMMA HandlerAnswers ==
    ASSUME EngineInv, call.stage = "handler", NEW e, e = call.id,
           NEW s \in {"succeeded", "failed"},
           NEW stage \in {"verify", "return"}, stage = "verify" => s = "succeeded",
           \A x \in ExecIds : x # e => exec'[x] = exec[x] /\ ran'[x] = ran[x],
           exec'[e].status = s,
           exec'[e].reverses = exec[e].reverses,
           exec'[e].rollbackBy = exec[e].rollbackBy,
           exec'[e].auto = exec[e].auto,
           ran'[e] \in {0, 1}, s = "succeeded" => ran'[e] = 1,
           call' = [call EXCEPT !.stage = stage]
    PROVE  Control'
<1> USE DEF EngineInv
<1>1. /\ call'.stage = stage
      /\ call'.id = e
      /\ call'.orig = call.orig
      /\ call'.auto = call.auto
  BY DEF TypeInv, TypeOK, Call
<1>2. e \in ExecIds  BY Typed DEF Idle
<1>3. /\ exec[e].status \in {"executing", "awaiting_approval"}
      /\ exec[e].reverses = call.orig
  BY DEF StageFits
<1>4. exec[e].rollbackBy = None  BY <1>2, <1>3 DEF RollbackLinks
<1>5. \A x \in ExecIds : exec[x].reverses # e /\ exec[x].rollbackBy # e
  BY <1>2, <1>3, Typed DEF ReversalsAccounted, RollbackLinks, Done
<1>6. CallKnows'
  <2>1. call.orig # None => call.orig # e /\ call.orig \in ExecIds
    BY <1>3, Typed DEF CallKnows
  <2> QED  BY <1>1, <1>2, <1>3, <2>1 DEF CallKnows, Idle
<1>7. StageFits'  BY <1>1 DEF StageFits, Done
<1>8. OnlyTheCallExecutes'  BY <1>1, <1>2 DEF OnlyTheCallExecutes
<1>9. ReversalsAccounted'
  <2> SUFFICES ASSUME NEW x \in ExecIds, exec'[x].reverses # None
               PROVE  /\ exec'[x].status \notin NeverRan
                      /\ Done(exec[x].reverses)'
                      /\ exec'[x].reverses = exec[x].reverses
                      /\ Done(x)' => \/ exec'[exec'[x].reverses].rollbackBy = x
                                     \/ call'.id = x /\ call'.orig = exec'[x].reverses
    BY DEF ReversalsAccounted
  <2>1. exec'[x].reverses = exec[x].reverses  OBVIOUS
  <2>2. exec[x].reverses \in ExecIds /\ exec[x].reverses # e
    BY <2>1, <1>5, Typed
  <2>3. Done(exec[x].reverses)'
    BY <2>1, <2>2 DEF ReversalsAccounted, Done
  <2>4. CASE x = e  BY <2>4, <2>1, <2>3, <1>1, <1>3 DEF NeverRan
  <2>5. CASE x # e
    BY <2>1, <2>2, <2>3, <2>5, <1>1 DEF ReversalsAccounted, Done, NeverRan
  <2> QED  BY <2>4, <2>5
<1>10. RollbackLinks'  BY <1>3, <1>4, <1>5, Typed DEF RollbackLinks, Done
<1>11. StatusTellsEffect'  BY DEF StatusTellsEffect, Done
<1>12. AutoRollbackStops'  BY Typed, <1>5 DEF AutoRollbackStops
<1> QED  BY <1>6, <1>7, <1>8, <1>9, <1>10, <1>11, <1>12 DEF Control

LEMMA HandlerStep ==
    ASSUME EngineInv, HandlerRefused \/ HandlerSucceeds \/ HandlerUpstreamError
    PROVE  Control'
<1> USE DEF EngineInv
<1> DEFINE e == call.id
<1>1. call.stage = "handler"
  BY DEF HandlerRefused, HandlerSucceeds, HandlerUpstreamError
<1>2. e \in ExecIds  BY <1>1, Typed DEF Idle
<1>3. ran[e] = 0  BY <1>1, <1>2 DEF StageFits, StatusTellsEffect, Done
<1>4. CASE HandlerRefused
  <2>1. /\ exec' = [exec EXCEPT ![e].status = "failed"]
        /\ call' = [call EXCEPT !.stage = "return"]
        /\ ran' = ran
    BY <1>4 DEF HandlerRefused, envVars
  <2>2. \A x \in ExecIds : x # e => exec'[x] = exec[x] /\ ran'[x] = ran[x]
    BY <2>1 DEF TypeInv, TypeOK
  <2>3. exec'[e] = [exec[e] EXCEPT !.status = "failed"]
    BY <2>1, <1>2 DEF TypeInv, TypeOK
  <2>4. /\ exec'[e].status = "failed"
        /\ exec'[e].reverses = exec[e].reverses
        /\ exec'[e].rollbackBy = exec[e].rollbackBy
        /\ exec'[e].auto = exec[e].auto
    BY <2>3, <1>2, Typed DEF Execution
  <2>5. ran'[e] \in {0, 1}  BY <2>1, <1>3
  <2> HIDE DEF e
  <2> QED  BY <1>1, <2>1, <2>2, <2>4, <2>5, HandlerAnswers DEF e
<1>5. CASE HandlerSucceeds
  <2> DEFINE n == IF Running.action = "scale_deployment"
                  THEN NewReplicas(Running.delta, RunningTwin) ELSE 0
             stage == IF call.verify THEN "verify" ELSE "return"
  <2>1. /\ exec' = [exec EXCEPT ![e].status = "succeeded", ![e].expected = n]
        /\ call' = [call EXCEPT !.stage = stage]
        /\ ran' = [ran EXCEPT ![e] = @ + 1]
    BY <1>5 DEF HandlerSucceeds
  <2>2. \A x \in ExecIds : x # e => exec'[x] = exec[x] /\ ran'[x] = ran[x]
    BY <2>1 DEF TypeInv, TypeOK
  <2> HIDE DEF n
  <2>3. exec'[e] = [exec[e] EXCEPT !.status = "succeeded", !.expected = n]
    BY <2>1, <1>2 DEF TypeInv, TypeOK
  <2>4. /\ exec'[e].status = "succeeded"
        /\ exec'[e].reverses = exec[e].reverses
        /\ exec'[e].rollbackBy = exec[e].rollbackBy
        /\ exec'[e].auto = exec[e].auto
    BY <2>3, <1>2, Typed DEF Execution
  <2>5. ran'[e] = 1  BY <2>1, <1>2, <1>3 DEF TypeInv, TypeOK
  <2>6. stage \in {"verify", "return"}  OBVIOUS
  <2> HIDE DEF e, stage
  <2> QED  BY <1>1, <2>1, <2>2, <2>4, <2>5, <2>6, HandlerAnswers DEF e
<1>6. CASE HandlerUpstreamError
  <2>1. /\ exec' = [exec EXCEPT ![e].status = "failed"]
        /\ call' = [call EXCEPT !.stage = "return"]
        /\ ran' = [ran EXCEPT ![e] = @ + 1] \/ ran' = ran
    BY <1>6 DEF HandlerUpstreamError
  <2>2. \A x \in ExecIds : x # e => exec'[x] = exec[x] /\ ran'[x] = ran[x]
    BY <2>1 DEF TypeInv, TypeOK
  <2>3. exec'[e] = [exec[e] EXCEPT !.status = "failed"]
    BY <2>1, <1>2 DEF TypeInv, TypeOK
  <2>4. /\ exec'[e].status = "failed"
        /\ exec'[e].reverses = exec[e].reverses
        /\ exec'[e].rollbackBy = exec[e].rollbackBy
        /\ exec'[e].auto = exec[e].auto
    BY <2>3, <1>2, Typed DEF Execution
  <2>5. ran'[e] \in {0, 1}  BY <2>1, <1>2, <1>3 DEF TypeInv, TypeOK
  <2> HIDE DEF e
  <2> QED  BY <1>1, <2>1, <2>2, <2>4, <2>5, HandlerAnswers DEF e
<1> QED  BY <1>4, <1>5, <1>6

LEMMA VerifySettlesStep ==
    ASSUME EngineInv, VerifySettles PROVE Control'
<1> USE DEF EngineInv
<1> DEFINE e == call.id
<1>1. PICK v \in PossibleVerdicts : exec' = [exec EXCEPT ![e].verify = v]
  BY DEF VerifySettles
<1>2. call.stage = "verify" /\ ran' = ran
      /\ call' = [call EXCEPT !.stage = "return"]
  BY DEF VerifySettles, envVars
<1>3. e \in ExecIds  BY <1>2, Typed DEF Idle
<1>4. exec'[e] = [exec[e] EXCEPT !.verify = v]
      /\ \A x \in ExecIds : x # e => exec'[x] = exec[x]
  BY <1>1, <1>3 DEF TypeInv, TypeOK
<1>5. /\ call'.stage = "return"
      /\ call'.id = call.id
      /\ call'.orig = call.orig
      /\ call'.auto = call.auto
  BY <1>2 DEF TypeInv, TypeOK, Call
<1>6. \A x \in ExecIds :
        /\ exec'[x].status = exec[x].status
        /\ exec'[x].reverses = exec[x].reverses
        /\ exec'[x].rollbackBy = exec[x].rollbackBy
        /\ exec'[x].auto = exec[x].auto
  BY <1>3, <1>4, Typed DEF Execution
<1>7. CallKnows'  BY <1>2, <1>3, <1>5, <1>6, Typed DEF CallKnows, Idle
<1>8. StageFits'  BY <1>2, <1>3, <1>5, <1>6 DEF StageFits
<1>9. OnlyTheCallExecutes'  BY <1>2, <1>6 DEF OnlyTheCallExecutes
<1>10. ReversalsAccounted'
  BY <1>5, <1>6, Typed DEF ReversalsAccounted, Done, NeverRan
<1>11. RollbackLinks'  BY <1>6, Typed DEF RollbackLinks, Done
<1>12. StatusTellsEffect'  BY <1>2, <1>6 DEF StatusTellsEffect, Done
<1>13. AutoRollbackStops'  BY <1>6, Typed DEF AutoRollbackStops
<1> QED  BY <1>7, <1>8, <1>9, <1>10, <1>11, <1>12, <1>13 DEF Control

LEMMA ReturnStep ==
    ASSUME EngineInv, call.stage = "return", call' = NoCall, exec' = Settled, ran' = ran
    PROVE  Control'
<1> USE DEF EngineInv
<1>1. /\ call.stage = "return"
      /\ call'.stage = "idle"
      /\ call'.id = None
      /\ call'.orig = None
      /\ call'.auto = FALSE
      /\ exec' = Settled
      /\ ran' = ran
  BY DEF NoCall
<1>2. call.id \in ExecIds /\ call.id # None  BY <1>1, Typed DEF Idle
<1>3. OnlyTheCallExecutes => \A x \in ExecIds : exec[x].status # "executing"
  BY <1>1 DEF OnlyTheCallExecutes
<1>4. CallKnows' /\ StageFits'  BY <1>1 DEF CallKnows, StageFits, Idle
<1>5. CASE call.orig # None /\ exec[call.id].status = "succeeded"
  <2> DEFINE o == call.orig
             r == call.id
  <2>1. /\ o \in ExecIds /\ o # None
        /\ exec[r].reverses = o
        /\ exec[o].status = "succeeded"
        /\ exec[o].rollbackBy = None
        /\ exec[r].status = "succeeded"
    BY <1>5, Typed DEF CallKnows
  <2>2. exec' = [exec EXCEPT ![o].status = "rolled_back", ![o].rollbackBy = r]
    BY <1>1, <1>5 DEF Settled
  <2> HIDE DEF o, r
  <2>3. /\ \A x \in ExecIds : x # o => exec'[x] = exec[x]
        /\ exec'[o] = [exec[o] EXCEPT !.status = "rolled_back", !.rollbackBy = r]
    BY <2>1, <2>2 DEF TypeInv, TypeOK
  <2>4. /\ exec'[o].status = "rolled_back"
        /\ exec'[o].rollbackBy = r
        /\ exec'[o].reverses = exec[o].reverses
        /\ exec'[o].auto = exec[o].auto
    BY <2>1, <2>3, Typed DEF Execution
  <2>5. r \in ExecIds /\ r # None /\ r = call.id /\ o = call.orig  BY <1>2 DEF o, r
  <2>6. OnlyTheCallExecutes'  BY <1>1, <1>3, <2>1, <2>3, <2>4 DEF OnlyTheCallExecutes
  <2>7. \A x \in ExecIds : Done(x)' <=> Done(x)
    BY <2>1, <2>3, <2>4 DEF Done
  <2>8. RollbackLinks'
    <3> SUFFICES ASSUME NEW x \in ExecIds
                 PROVE  /\ exec'[x].status = "rolled_back" <=> exec'[x].rollbackBy # None
                        /\ exec'[x].rollbackBy # None =>
                              /\ exec'[exec'[x].rollbackBy].reverses = x
                              /\ Done(exec[x].rollbackBy)'
      BY DEF RollbackLinks, Done
    <3>1. \A y \in ExecIds : exec'[y].reverses = exec[y].reverses  BY <2>3, <2>4
    <3>2. CASE x = o
      BY <3>1, <3>2, <2>1, <2>4, <2>5, <2>7 DEF Done
    <3>3. CASE x # o
      <4>1. exec'[x] = exec[x]  BY <3>3, <2>3
      <4>2. exec[x].rollbackBy \in ExecIds \cup {None}  BY Typed
      <4> QED  BY <4>1, <4>2, <3>1, <2>7 DEF RollbackLinks, Done
    <3> QED  BY <3>2, <3>3
  <2>9. ReversalsAccounted'
    <3> SUFFICES ASSUME NEW x \in ExecIds, exec'[x].reverses # None
                 PROVE  /\ exec'[x].status \notin NeverRan
                        /\ Done(exec[x].reverses)'
                        /\ Done(x)' => exec'[exec'[x].reverses].rollbackBy = x
      BY DEF ReversalsAccounted, Done
    <3>1. exec'[x].reverses = exec[x].reverses  BY <2>3, <2>4
    <3>2. exec[x].reverses \in ExecIds  BY <3>1, Typed
    <3>3. Done(exec[x].reverses)'
      BY <3>1, <3>2, <2>7 DEF ReversalsAccounted, Done
    <3>4. exec'[x].status \notin NeverRan
      BY <3>1, <2>3, <2>4 DEF ReversalsAccounted, NeverRan
    <3>5. ASSUME Done(x) PROVE exec'[exec[x].reverses].rollbackBy = x
      <4>1. \/ exec[exec[x].reverses].rollbackBy = x
            \/ r = x /\ o = exec[x].reverses
        BY <3>1, <3>5, <2>5 DEF ReversalsAccounted
      <4>2. exec[x].reverses # o => exec'[exec[x].reverses] = exec[exec[x].reverses]
        BY <3>2, <2>3
      <4>3. x # None  BY Typed
      <4> QED  BY <4>1, <4>2, <4>3, <2>1, <2>4
    <3> QED  BY <3>1, <3>3, <3>4, <3>5, <2>7
  <2>g. \A x \in ExecIds :
          /\ exec'[x].reverses = exec[x].reverses
          /\ exec'[x].auto = exec[x].auto
          /\ \/ exec'[x].status = exec[x].status
             \/ exec[x].status = "succeeded" /\ exec'[x].status = "rolled_back"
    <3> TAKE x \in ExecIds
    <3>1. CASE x = o  BY <3>1, <2>1, <2>4
    <3>2. CASE x # o
      <4>1. exec'[x] = exec[x]  BY <3>2, <2>3
      <4> QED  BY <4>1
    <3> QED  BY <3>1, <3>2
  <2>10. StatusTellsEffect'  BY <1>1, <2>g DEF StatusTellsEffect, Done
  <2>11. AutoRollbackStops'  BY <2>g, Typed DEF AutoRollbackStops
  <2> QED  BY <1>4, <2>6, <2>8, <2>9, <2>10, <2>11 DEF Control
<1>6. CASE ~(call.orig # None /\ exec[call.id].status = "succeeded")
  <2>1. exec' = exec  BY <1>1, <1>6 DEF Settled
  <2>2. OnlyTheCallExecutes'  BY <1>1, <1>3, <2>1 DEF OnlyTheCallExecutes
  <2>3. call.orig # None => ~Done(call.id)
    BY <1>1, <1>6 DEF StageFits, Done
  <2>4. ReversalsAccounted'
    <3> SUFFICES ASSUME NEW x \in ExecIds, exec[x].reverses # None
                 PROVE  /\ exec[x].status \notin NeverRan
                        /\ Done(exec[x].reverses)
                        /\ Done(x) => exec[exec[x].reverses].rollbackBy = x
      BY <2>1 DEF ReversalsAccounted, Done
    <3> QED  BY <2>3 DEF ReversalsAccounted
  <2>5. /\ RollbackLinks'
        /\ StatusTellsEffect'
        /\ AutoRollbackStops'
    BY <1>1, <2>1 DEF RollbackLinks, StatusTellsEffect, AutoRollbackStops, Done
  <2> QED  BY <1>4, <2>2, <2>4, <2>5 DEF Control
<1> QED  BY <1>5, <1>6

\* Syncs, other writers and the proxy touch neither the registry nor the call.
LEMMA QuietStep ==
    ASSUME EngineInv, UNCHANGED <<exec, call, ran>> PROVE Control'
BY DEF EngineInv, Control, CallKnows, StageFits, OnlyTheCallExecutes, Idle,
       ReversalsAccounted, RollbackLinks, StatusTellsEffect,
       AutoRollbackStops, Done

\* Whatever drives the engine, one of its own steps keeps registry and call in step.
LEMMA EngineStepControl == EngineInv /\ EngineStep => Control'
<1> SUFFICES ASSUME EngineInv, EngineStep PROVE Control'  OBVIOUS
<1>1. CASE Return
  BY <1>1, ReturnStep DEF Return, envVars
<1> QED
  BY <1>1, HandlerStep, VerifySettlesStep, VerifyRollsBackStep DEF EngineStep

LEMMA OperationControl == EngineInv /\ Operation => Control'
<1> SUFFICES ASSUME EngineInv, Operation PROVE Control'  OBVIOUS
<1>1. ASSUME NEW e \in ExecIds, NEW a \in UsedActions, NEW t \in Targets,
             NEW d \in DeltasOf(a),
             \/ ExecuteGated(e, a, t, d, Snapshot)
             \/ ExecuteNow(e, a, t, d, Snapshot)
      PROVE  Control'
  <2>1. a \in Actions /\ d \in Int  BY InputsAssumption DEF DeltasOf
  <2>2. CASE ExecuteGated(e, a, t, d, Snapshot)
    <3>1. /\ Idle
          /\ exec[e].status = "absent"
          /\ exec' = [exec EXCEPT ![e] = Fresh(a, t, d, "awaiting_approval")]
          /\ ran' = ran
          /\ call' = call
      BY <2>2 DEF ExecuteGated, envVars
    <3> QED  BY <2>1, <3>1, NewExecution
  <2>3. CASE ExecuteNow(e, a, t, d, Snapshot)
    <3>1. /\ Idle
          /\ exec[e].status = "absent"
          /\ exec' = [exec EXCEPT ![e] = Fresh(a, t, d, "executing")]
          /\ ran' = ran
          /\ call'.stage = "handler" /\ call'.id = e /\ call'.orig = None
      BY <2>3 DEF ExecuteNow, envVars, RunCall
    <3> QED  BY <2>1, <3>1, NewExecution
  <2> QED  BY <1>1, <2>2, <2>3
<1> QED
  BY <1>1, ConfirmStep, CancelStep, ReverifyStep, RollbackStep DEF Operation, Execute

\* The gate of execute_with_policy and confirm_execution: approval comes before the
\* handler, and only a reverse execution reaches it without.
LEMMA GateStep == EngineInv /\ CallApproved /\ GatePassed /\ [Next]_vars
                    => CallApproved' /\ GatePassed'
<1> SUFFICES ASSUME EngineInv, CallApproved, GatePassed, [Next]_vars
             PROVE  CallApproved' /\ GatePassed'
  OBVIOUS
<1> USE DEF EngineInv
<1>1. CASE Environment \/ UNCHANGED vars
  <2>1. UNCHANGED <<exec, call>>
    BY <1>1 DEF Environment, Sync, Vanish, Drift, ProxyFlips, vars
  <2> QED  BY <2>1 DEF CallApproved, GatePassed, NeverRan
<1>2. ASSUME NEW e \in ExecIds, NEW a \in UsedActions, NEW t \in Targets,
             NEW d \in DeltasOf(a), Execute(e, a, t, d, Snapshot)
      PROVE  CallApproved' /\ GatePassed'
  <2>1. CASE ExecuteGated(e, a, t, d, Snapshot)
    <3>1. exec'[e].status = "awaiting_approval"
      BY <2>1 DEF ExecuteGated, Fresh, TypeInv, TypeOK
    <3>2. \A x \in ExecIds : x # e => exec'[x] = exec[x]
      BY <2>1 DEF ExecuteGated, TypeInv, TypeOK
    <3>3. call'.stage = "idle"  BY <2>1 DEF ExecuteGated, Idle
    <3> QED  BY <3>1, <3>2, <3>3 DEF CallApproved, GatePassed, NeverRan
  <2>2. CASE ExecuteNow(e, a, t, d, Snapshot)
    <3>1. exec'[e].action = a /\ ~NeedsApproval(a)
      BY <2>2 DEF ExecuteNow, Fresh, TypeInv, TypeOK
    <3>2. \A x \in ExecIds : x # e => exec'[x] = exec[x]
      BY <2>2 DEF ExecuteNow, TypeInv, TypeOK
    <3>3. call'.id = e  BY <2>2 DEF ExecuteNow, RunCall
    <3> QED  BY <3>1, <3>2, <3>3 DEF CallApproved, GatePassed, NeverRan
  <2> QED  BY <1>2, <2>1, <2>2 DEF Execute
<1>3. ASSUME NEW e \in ExecIds, Confirm(e, Snapshot)
      PROVE  CallApproved' /\ GatePassed'
  <2>1. exec'[e].approved /\ call'.id = e
    BY <1>3, Typed DEF Confirm, RunCall, TypeInv, TypeOK, Execution
  <2>2. \A x \in ExecIds : x # e => exec'[x] = exec[x]
    BY <1>3 DEF Confirm, TypeInv, TypeOK
  <2> QED  BY <2>1, <2>2 DEF CallApproved, GatePassed, NeverRan
<1>4. ASSUME NEW e \in ExecIds, Cancel(e)
      PROVE  CallApproved' /\ GatePassed'
  <2>1. exec'[e].status = "rejected"
    BY <1>4, Typed DEF Cancel, TypeInv, TypeOK, Execution
  <2>2. \A x \in ExecIds : x # e => exec'[x] = exec[x]
    BY <1>4 DEF Cancel, TypeInv, TypeOK
  <2>3. call'.stage = "idle"  BY <1>4 DEF Cancel, Idle
  <2> QED  BY <2>1, <2>2, <2>3 DEF CallApproved, GatePassed, NeverRan
<1>5. ASSUME NEW e \in ExecIds, Reverify(e, Snapshot)
      PROVE  CallApproved' /\ GatePassed'
  BY <1>5 DEF Reverify, NoCall, envVars, CallApproved, GatePassed, NeverRan
<1>6. ASSUME NEW e \in ExecIds, NEW r \in ExecIds, Rollback(e, r, Snapshot)
      PROVE  CallApproved' /\ GatePassed'
  <2>1. exec'[r].reverses = e /\ call'.orig = e /\ e # None
    BY <1>6, Typed DEF Rollback, Reversal, Fresh, ReverseCall, TypeInv, TypeOK
  <2>2. \A x \in ExecIds : x # r => exec'[x] = exec[x]
    BY <1>6 DEF Rollback, TypeInv, TypeOK
  <2> QED  BY <2>1, <2>2 DEF CallApproved, GatePassed, NeverRan
<1>7. CASE HandlerRefused \/ HandlerSucceeds \/ HandlerUpstreamError
  <2>1. call.stage = "handler" /\ call'.stage # "handler"
    BY <1>7 DEF HandlerRefused, HandlerSucceeds, HandlerUpstreamError, TypeInv, TypeOK, Call
  <2>2. call.id \in ExecIds  BY <2>1, Typed DEF Idle
  <2>3. /\ exec'[call.id].action = exec[call.id].action
        /\ exec'[call.id].approved = exec[call.id].approved
        /\ exec'[call.id].reverses = exec[call.id].reverses
    BY <1>7, <2>2, Typed
    DEF HandlerRefused, HandlerSucceeds, HandlerUpstreamError, TypeInv, TypeOK, Execution
  <2>4. \A x \in ExecIds : x # call.id => exec'[x] = exec[x]
    BY <1>7 DEF HandlerRefused, HandlerSucceeds, HandlerUpstreamError, TypeInv, TypeOK
  <2>5. exec[call.id].reverses = None /\ NeedsApproval(exec[call.id].action)
          => exec[call.id].approved
    BY <2>1 DEF CallApproved, StageFits
  <2> QED  BY <2>1, <2>3, <2>4, <2>5 DEF CallApproved, GatePassed, NeverRan
<1>8. CASE VerifySettles
  <2>1. call.stage = "verify" /\ call'.stage # "handler"
    BY <1>8 DEF VerifySettles, TypeInv, TypeOK, Call
  <2>2. call.id \in ExecIds  BY <2>1, Typed DEF Idle
  <2>3. \A x \in ExecIds :
          /\ exec'[x].status = exec[x].status
          /\ exec'[x].action = exec[x].action
          /\ exec'[x].approved = exec[x].approved
          /\ exec'[x].reverses = exec[x].reverses
    BY <1>8, <2>2, Typed DEF VerifySettles, TypeInv, TypeOK, Execution
  <2> QED  BY <2>1, <2>3 DEF CallApproved, GatePassed, NeverRan
<1>9. ASSUME NEW r \in ExecIds, VerifyRollsBack(r)
      PROVE  CallApproved' /\ GatePassed'
  <2>1. call.stage = "verify"  BY <1>9 DEF VerifyRollsBack
  <2>2. call.id \in ExecIds /\ call.id # None  BY <2>1, Typed DEF Idle
  <2>3. PICK v : exec' = [exec EXCEPT ![call.id].verify = v, ![r] = Reversal(call.id, TRUE)]
    BY <1>9 DEF VerifyRollsBack
  <2>4. exec'[r].reverses = call.id
    BY <2>2, <2>3 DEF Reversal, Fresh, TypeInv, TypeOK
  <2>5. \A x \in ExecIds : x # r =>
          /\ exec'[x].status = exec[x].status
          /\ exec'[x].action = exec[x].action
          /\ exec'[x].approved = exec[x].approved
          /\ exec'[x].reverses = exec[x].reverses
    BY <2>2, <2>3, Typed DEF TypeInv, TypeOK, Execution
  <2>6. call'.orig = call.id  BY <1>9 DEF VerifyRollsBack, ReverseCall
  <2> QED  BY <2>2, <2>4, <2>5, <2>6 DEF CallApproved, GatePassed, NeverRan
<1>10. CASE Return
  <2>1. call'.stage = "idle"  BY <1>10 DEF Return, NoCall
  <2>2. \A x \in ExecIds :
          /\ exec'[x].action = exec[x].action
          /\ exec'[x].approved = exec[x].approved
          /\ exec'[x].reverses = exec[x].reverses
          /\ \/ exec'[x].status = exec[x].status
             \/ exec[x].status = "succeeded"
    BY <1>10, Typed DEF Return, Settled, CallKnows, TypeInv, TypeOK, Execution
  <2> QED  BY <2>1, <2>2 DEF CallApproved, GatePassed, NeverRan
<1> QED
  BY <1>1, <1>2, <1>3, <1>4, <1>5, <1>6, <1>7, <1>8, <1>9, <1>10
  DEF Next, Operation, EngineStep

LEMMA StartInv == Init => IInv
<1> SUFFICES ASSUME Init PROVE IInv  OBVIOUS
<1>1. TypeInv  BY TypeInit
<1>2. \A e \in ExecIds :
        /\ exec[e].status = "absent"
        /\ exec[e].reverses = None
        /\ exec[e].rollbackBy = None
        /\ exec[e].auto = FALSE
        /\ ran[e] = 0
  BY DEF Init, Unused, Fresh
<1>3. call.stage = "idle" /\ call.orig = None /\ call.auto = FALSE
  BY DEF Init, NoCall
<1> QED
  BY <1>1, <1>2, <1>3
  DEF IInv, EngineInv, CallKnows, StageFits, OnlyTheCallExecutes, ReversalsAccounted,
      CallApproved, GatePassed, RollbackLinks, StatusTellsEffect, AutoRollbackStops,
      Idle, Done, NeverRan

\* The registry and the call in progress agree at every step of the engine
\* (execute_with_policy, confirm, cancel, rollback, reverify, run_handler,
\* verify_and_maybe_rollback and do_rollback): the strengthening the properties
\* below follow from.
THEOREM IInvariance == Spec => []IInv
<1>1. Init => IInv  BY StartInv
<1>2. IInv /\ [Next]_vars => IInv'
  <2> SUFFICES ASSUME IInv, [Next]_vars PROVE IInv'  OBVIOUS
  <2>1. TypeInv'  BY TypeStep DEF IInv, EngineInv
  <2>2. Control'
    <3>1. CASE Environment \/ UNCHANGED vars
      <4>1. UNCHANGED <<exec, call, ran>>
        BY <3>1 DEF Environment, Sync, Vanish, Drift, ProxyFlips, vars
      <4> QED  BY <4>1, QuietStep DEF IInv
    <3> QED  BY <3>1, OperationControl, EngineStepControl DEF Next, IInv
  <2>3. CallApproved' /\ GatePassed'  BY GateStep DEF IInv
  <2> QED  BY <2>1, <2>2, <2>3 DEF IInv, EngineInv, Control
<1> QED  BY <1>1, <1>2, PTL DEF Spec

\* Of two reverse executions of one original the second finds it linked already.
LEMMA OneReversalSucceeds == EngineInv => ReversedOnce
<1> SUFFICES ASSUME EngineInv,
                    NEW r \in ExecIds, NEW s \in ExecIds,
                    exec[r].reverses # None,
                    exec[r].reverses = exec[s].reverses,
                    Done(r), Done(s)
             PROVE  r = s
  BY DEF ReversedOnce
<1> DEFINE o == exec[r].reverses
<1>1. /\ exec[o].rollbackBy = r \/ (call.id = r /\ call.orig = o)
      /\ exec[o].rollbackBy = s \/ (call.id = s /\ call.orig = o)
  BY DEF EngineInv, ReversalsAccounted
<1>2. call.orig = o => exec[o].rollbackBy = None
  BY DEF EngineInv, CallKnows
<1>3. r # None /\ s # None  BY Typed DEF EngineInv
<1> QED  BY <1>1, <1>2, <1>3

-----------------------------------------------------------------------------
(* The properties *)

\* Every variable keeps its type, whatever the executions, targets and inputs:
\* a status is one of RecoveryStatus, a verdict one of VerifyStatus, and the ids
\* the registry and the call in progress name are ids of executions.
THEOREM TypeCorrect == Spec => []TypeOK
<1>1. IInv => TypeOK  BY DEF IInv, EngineInv, TypeInv
<1> QED  BY <1>1, IInvariance, PTL

\* The two ends of a rollback's link agree: rolled_back exactly when another
\* execution is named, which succeeded and names this one (do_rollback).
THEOREM LinksAgree == Spec => []RollbackLinks
<1>1. IInv => RollbackLinks  BY DEF IInv, EngineInv
<1> QED  BY <1>1, IInvariance, PTL

\* No execution is undone twice, however many rollbacks are asked for, fail and
\* are asked for again, with automatic rollbacks between them.
THEOREM NothingReversedTwice == Spec => []ReversedOnce
<1>1. IInv => ReversedOnce  BY OneReversalSucceeds DEF IInv
<1> QED  BY <1>1, IInvariance, PTL

\* What needs a confirmation has no effect before it: the gate of
\* execute_with_policy, confirm_execution and the policy of real mode.
THEOREM NothingRunsUnapproved == Spec => []ApprovalGate
<1>1. IInv => ApprovalGate
  <2> SUFFICES ASSUME IInv, NEW e \in ExecIds,
                      ran[e] > 0, exec[e].reverses = None,
                      NeedsApproval(exec[e].action)
               PROVE  exec[e].approved
    BY DEF ApprovalGate
  <2>1. ran[e] # 0  BY Typed DEF IInv, EngineInv
  <2>2. exec[e].status \notin NeverRan
    BY <2>1 DEF IInv, EngineInv, StatusTellsEffect, Done, NeverRan
  <2> QED  BY <2>2 DEF IInv, EngineInv, GatePassed
<1> QED  BY <1>1, IInvariance, PTL

\* The registry does not misreport the cluster: succeeded means the handler took
\* effect once, waiting or rejected that it did not.
THEOREM StatusIsTruthful == Spec => []StatusTellsEffect
<1>1. IInv => StatusTellsEffect  BY DEF IInv, EngineInv
<1> QED  BY <1>1, IInvariance, PTL

\* An automatic rollback never reverses a reverse execution, so rollbacks cannot
\* drive each other on (auto_rollback_marker).
THEOREM AutomaticRollbacksStop == Spec => []AutoRollbackStops
<1>1. IInv => AutoRollbackStops  BY DEF IInv, EngineInv
<1> QED  BY <1>1, IInvariance, PTL

-----------------------------------------------------------------------------
(* The lifecycle *)

Phases == [e \in ExecIds |-> Phase(e)]
Kinds == [e \in ExecIds |-> Kind(e)]
Undoes == [e \in ExecIds |-> exec[e].reverses]

\* What the lifecycle sees of one execution.
Seen(e) == <<Phase(e), Kind(e), exec[e].reverses>>

\* The lifecycle does not see a step that changes what it sees of no execution.
LEMMA Unseen ==
    ASSUME \A e \in ExecIds : Seen(e)' = Seen(e)
    PROVE  UNCHANGED Lifecycle!vars
<1>1. \A e \in ExecIds : /\ Phase(e)' = Phase(e)
                         /\ Kind(e)' = Kind(e)
                         /\ exec'[e].reverses = exec[e].reverses
  BY DEF Seen
<1> QED  BY <1>1 DEF Lifecycle!vars

LEMMA SeenOfOne ==
    ASSUME NEW e \in ExecIds, \A x \in ExecIds : x # e => Seen(x)' = Seen(x)
    PROVE  /\ Phases' = [Phases EXCEPT ![e] = Phase(e)']
           /\ Kinds' = [Kinds EXCEPT ![e] = Kind(e)']
           /\ Undoes' = [Undoes EXCEPT ![e] = exec'[e].reverses]
           /\ Kind(e)' = Kind(e) => Kinds' = Kinds
           /\ exec'[e].reverses = exec[e].reverses => Undoes' = Undoes
BY DEF Seen, Phases, Kinds, Undoes

\* What is seen of an execution the step leaves as it is, unless its handler is
\* the one that is called before or after the step.
LEMMA SeenSame ==
    ASSUME NEW x \in ExecIds,
           exec'[x].status = exec[x].status,
           exec'[x].action = exec[x].action,
           exec'[x].reverses = exec[x].reverses,
           (call'.stage = "handler" /\ call'.id = x) <=> (call.stage = "handler" /\ call.id = x)
    PROVE  Seen(x)' = Seen(x)
BY DEF Seen, Phase, Kind

\* One execution at a time: with no handler being called, none is running.
LEMMA NoneRuns ==
    ASSUME EngineInv, call.stage # "handler", NEW e \in ExecIds
    PROVE  Phase(e) # "running" /\ Phases[e] # "running"
<1>1. exec[e].status # "executing"  BY DEF EngineInv, OnlyTheCallExecutes
<1>2. exec[e].status \in Statuses  BY Typed DEF EngineInv
<1> QED  BY <1>1, <1>2 DEF Phase, Phases, Statuses

\* do_rollback, asked for or automatic, sets out to undo what nothing has undone: the
\* earlier attempts have all failed.
LEMMA UndoStartsRefines ==
    ASSUME EngineInv, call.stage # "handler", call.orig = None,
           NEW o \in ExecIds, exec[o].status = "succeeded", exec[o].rollbackBy = None,
           NEW r \in ExecIds, exec[r].status = "absent",
           \A x \in ExecIds : x # r =>
                /\ exec'[x].status = exec[x].status
                /\ exec'[x].action = exec[x].action
                /\ exec'[x].reverses = exec[x].reverses,
           NEW m, exec'[r] = Reversal(o, m),
           call'.stage = "handler", call'.id = r
    PROVE  Lifecycle!StartUndo(r, o)
<1> USE DEF EngineInv
<1>1. exec'[r].status = "executing" /\ exec'[r].reverses = o  BY DEF Reversal, Fresh
<1>2. o # None  BY Typed
<1>3. Phase(r)' = "running" /\ Kind(r)' = "reverse"  BY <1>1, <1>2 DEF Phase, Kind
<1>4. \A x \in ExecIds : x # r => Seen(x)' = Seen(x)  BY SeenSame
<1>5. Phases[o] = "done" /\ Phases[r] = "none"  BY DEF Phases, Phase
<1>6. \A e \in ExecIds : Phases[e] # "running"  BY NoneRuns
<1>7. ASSUME NEW q \in ExecIds, exec[q].reverses = o PROVE Phases[q] = "failed"
  <2>1. /\ exec[q].status \notin NeverRan
        /\ ~Done(q)
    BY <1>2, <1>7, Typed DEF ReversalsAccounted
  <2>2. exec[q].status # "executing"  BY DEF OnlyTheCallExecutes
  <2>3. exec[q].status = "failed"
    BY <2>1, <2>2, Typed DEF Done, NeverRan, Statuses
  <2> QED  BY <2>3 DEF Phases, Phase
<1>8. /\ Phases' = [Phases EXCEPT ![r] = "running"]
      /\ Kinds' = [Kinds EXCEPT ![r] = "reverse"]
      /\ Undoes' = [Undoes EXCEPT ![r] = o]
  BY <1>1, <1>3, <1>4, SeenOfOne
<1>9. \A q \in ExecIds : Undoes[q] = o => Phases[q] = "failed"  BY <1>7 DEF Undoes
<1> QED
  BY <1>5, <1>6, <1>8, <1>9
  DEF Lifecycle!StartUndo, Lifecycle!NothingRuns, Phases, Kinds, Undoes

LEMMA OperationRefines ==
    ASSUME EngineInv, Operation
    PROVE  [Lifecycle!Next]_(Lifecycle!vars)
<1> USE DEF EngineInv
<1>0. Idle
  BY DEF Operation, Execute, ExecuteGated, ExecuteNow, Confirm, Cancel, Reverify, Rollback
<1>a. call.stage # "handler" /\ call.orig = None  BY <1>0 DEF Idle, CallKnows
<1>b. \A e \in ExecIds : Phases[e] # "running"  BY <1>a, NoneRuns
<1>1. ASSUME NEW e \in ExecIds, NEW a \in UsedActions, NEW t \in Targets,
             NEW d \in DeltasOf(a), ExecuteGated(e, a, t, d, Snapshot)
      PROVE  Lifecycle!Submit(e)
  <2>1. exec'[e] = Fresh(a, t, d, "awaiting_approval")
        /\ \A x \in ExecIds : x # e => exec'[x] = exec[x]
    BY <1>1 DEF ExecuteGated, TypeInv, TypeOK
  <2>2. exec'[e].status = "awaiting_approval" /\ exec'[e].reverses = None
        /\ exec'[e].action = a
    BY <2>1 DEF Fresh
  <2>3. call' = call  BY <1>1 DEF ExecuteGated
  <2>4. \A x \in ExecIds : x # e => Seen(x)' = Seen(x)  BY <2>1, <2>3, SeenSame
  <2>5. Phase(e)' = "waiting" /\ Kind(e)' = "gated"
    BY <1>1, <1>a, <2>2, <2>3 DEF Phase, Kind, ExecuteGated
  <2>6. exec[e].status = "absent" /\ exec[e].reverses = None
    BY <1>1 DEF ExecuteGated, ReversalsAccounted, NeverRan
  <2>7. Phases[e] = "none"  BY <2>6, <1>a DEF Phases, Phase
  <2> QED
    BY <1>b, <2>2, <2>4, <2>5, <2>6, <2>7, SeenOfOne
    DEF Lifecycle!Submit, Lifecycle!NothingRuns, Phases, Kinds, Undoes
<1>2. ASSUME NEW e \in ExecIds, NEW a \in UsedActions, NEW t \in Targets,
             NEW d \in DeltasOf(a), ExecuteNow(e, a, t, d, Snapshot)
      PROVE  Lifecycle!StartOpen(e)
  <2>1. exec'[e] = Fresh(a, t, d, "executing")
        /\ \A x \in ExecIds : x # e => exec'[x] = exec[x]
    BY <1>2 DEF ExecuteNow, TypeInv, TypeOK
  <2>2. exec'[e].status = "executing" /\ exec'[e].reverses = None
        /\ exec'[e].action = a
    BY <2>1 DEF Fresh
  <2>3. call'.stage = "handler" /\ call'.id = e  BY <1>2 DEF ExecuteNow, RunCall
  <2>4. \A x \in ExecIds : x # e => Seen(x)' = Seen(x)  BY <2>1, <2>3, <1>a, SeenSame
  <2>5. Phase(e)' = "running" /\ Kind(e)' = "open"
    BY <1>2, <2>2, <2>3 DEF Phase, Kind, ExecuteNow
  <2>6. exec[e].status = "absent" /\ exec[e].reverses = None
    BY <1>2 DEF ExecuteNow, ReversalsAccounted, NeverRan
  <2>7. Phases[e] = "none"  BY <2>6, <1>a DEF Phases, Phase
  <2> QED
    BY <1>b, <2>2, <2>4, <2>5, <2>6, <2>7, SeenOfOne
    DEF Lifecycle!StartOpen, Lifecycle!NothingRuns, Phases, Kinds, Undoes
<1>3. ASSUME NEW e \in ExecIds, Confirm(e, Snapshot)
      PROVE  Lifecycle!Approve(e)
  <2>1. /\ exec'[e].status = "awaiting_approval"
        /\ exec'[e].action = exec[e].action
        /\ exec'[e].reverses = exec[e].reverses
        /\ \A x \in ExecIds : x # e => exec'[x] = exec[x]
    BY <1>3, Typed DEF Confirm, TypeInv, TypeOK, Execution
  <2>2. call'.stage = "handler" /\ call'.id = e  BY <1>3 DEF Confirm, RunCall
  <2>3. \A x \in ExecIds : x # e => Seen(x)' = Seen(x)  BY <2>1, <2>2, <1>a, SeenSame
  <2>4. Phase(e)' = "running"  BY <2>2 DEF Phase
  <2>5. exec[e].status = "awaiting_approval"  BY <1>3 DEF Confirm
  <2>6. Kind(e)' = Kind(e)  BY <2>1, <2>5 DEF Kind
  <2>7. Phases[e] = "waiting"  BY <2>5, <1>a DEF Phases, Phase
  <2> QED
    BY <1>b, <2>1, <2>3, <2>4, <2>6, <2>7, SeenOfOne
    DEF Lifecycle!Approve, Lifecycle!NothingRuns, Phases, Kinds, Undoes
<1>4. ASSUME NEW e \in ExecIds, Cancel(e)
      PROVE  Lifecycle!Reject(e)
  <2>1. /\ exec'[e].status = "rejected"
        /\ exec'[e].action = exec[e].action
        /\ exec'[e].reverses = exec[e].reverses
        /\ \A x \in ExecIds : x # e => exec'[x] = exec[x]
    BY <1>4, Typed DEF Cancel, TypeInv, TypeOK, Execution
  <2>2. call' = call  BY <1>4 DEF Cancel
  <2>3. \A x \in ExecIds : x # e => Seen(x)' = Seen(x)  BY <2>1, <2>2, SeenSame
  <2>4. Phase(e)' = "rejected"  BY <2>1, <2>2, <1>a DEF Phase
  <2>5. exec[e].status = "awaiting_approval"  BY <1>4 DEF Cancel
  <2>6. Kind(e)' = Kind(e)  BY <2>1, <2>5 DEF Kind
  <2>7. Phases[e] = "waiting"  BY <2>5, <1>a DEF Phases, Phase
  <2> QED
    BY <2>1, <2>3, <2>4, <2>6, <2>7, SeenOfOne
    DEF Lifecycle!Reject, Phases, Kinds, Undoes
<1>5. ASSUME NEW e \in ExecIds, Reverify(e, Snapshot)
      PROVE  UNCHANGED Lifecycle!vars
  <2>1. exec' = exec /\ call'.stage = "verify"  BY <1>5 DEF Reverify, NoCall
  <2> QED  BY <2>1, <1>a, SeenSame, Unseen
<1>6. ASSUME NEW e \in ExecIds, NEW r \in ExecIds, Rollback(e, r, Snapshot)
      PROVE  Lifecycle!StartUndo(r, e)
  <2>1. exec'[r] = Reversal(e, FALSE)
        /\ \A x \in ExecIds : x # r => exec'[x] = exec[x]
    BY <1>6 DEF Rollback, TypeInv, TypeOK
  <2>2. call'.stage = "handler" /\ call'.id = r  BY <1>6 DEF Rollback, ReverseCall
  <2>3. exec[e].status = "succeeded" /\ exec[e].rollbackBy = None
        /\ exec[r].status = "absent"
    BY <1>6 DEF Rollback
  <2> QED  BY <1>a, <2>1, <2>2, <2>3, UndoStartsRefines
<1> QED
  BY <1>1, <1>2, <1>3, <1>4, <1>5, <1>6 DEF Operation, Execute, Lifecycle!Next

LEMMA EngineStepRefines ==
    ASSUME EngineInv, EngineStep
    PROVE  [Lifecycle!Next]_(Lifecycle!vars)
<1> USE DEF EngineInv
<1>1. CASE HandlerRefused \/ HandlerSucceeds \/ HandlerUpstreamError
  <2>1. call.stage = "handler" /\ call'.stage # "handler"
    BY <1>1 DEF HandlerRefused, HandlerSucceeds, HandlerUpstreamError, TypeInv, TypeOK, Call
  <2>2. PICK e \in ExecIds : e = call.id  BY <2>1, Typed DEF Idle
  <2>3. /\ exec'[e].status \in {"succeeded", "failed"}
        /\ exec'[e].action = exec[e].action
        /\ exec'[e].reverses = exec[e].reverses
        /\ \A x \in ExecIds : x # e => exec'[x] = exec[x]
    BY <1>1, <2>2, Typed
    DEF HandlerRefused, HandlerSucceeds, HandlerUpstreamError, TypeInv, TypeOK, Execution
  <2>4. \A x \in ExecIds : x # e => Seen(x)' = Seen(x)  BY <2>1, <2>2, <2>3, SeenSame
  <2>5. Phase(e)' \in {"done", "failed"}  BY <2>1, <2>3 DEF Phase
  <2>6. exec[e].status # "absent"  BY <2>1, <2>2 DEF StageFits
  <2>7. Kind(e)' = Kind(e)  BY <2>3, <2>6 DEF Kind
  <2>8. Phases[e] = "running"  BY <2>1, <2>2 DEF Phases, Phase
  <2>9. Lifecycle!Finish(e)
    BY <2>2, <2>3, <2>4, <2>5, <2>7, <2>8, SeenOfOne
    DEF Lifecycle!Finish, Phases, Kinds, Undoes
  <2> QED  BY <2>2, <2>9 DEF Lifecycle!Next
<1>2. CASE VerifySettles
  <2>1. call.stage = "verify" /\ call'.stage # "handler"
    BY <1>2 DEF VerifySettles, TypeInv, TypeOK, Call
  <2>2. call.id \in ExecIds  BY <2>1, Typed DEF Idle
  <2>3. \A x \in ExecIds :
          /\ exec'[x].status = exec[x].status
          /\ exec'[x].action = exec[x].action
          /\ exec'[x].reverses = exec[x].reverses
    BY <1>2, <2>2, Typed DEF VerifySettles, TypeInv, TypeOK, Execution
  <2> QED  BY <2>1, <2>3, SeenSame, Unseen
<1>3. ASSUME NEW r \in ExecIds, VerifyRollsBack(r)
      PROVE  [Lifecycle!Next]_(Lifecycle!vars)
  <2>1. /\ call.stage = "verify"
        /\ exec[r].status = "absent"
        /\ call.auto
    BY <1>3 DEF VerifyRollsBack, WantsAutoRollback
  <2>2. PICK o \in ExecIds : o = call.id  BY <2>1, Typed DEF Idle
  <2>3. exec[o].status = "succeeded" /\ exec[o].reverses = None
    BY <2>1, <2>2 DEF StageFits, CallKnows
  <2>4. call.orig = None /\ exec[o].rollbackBy = None
    BY <2>1, <2>2, <2>3 DEF CallKnows, RollbackLinks
  <2>5. PICK v : exec' = [exec EXCEPT ![o].verify = v, ![r] = Reversal(o, TRUE)]
    BY <1>3, <2>2 DEF VerifyRollsBack
  <2>6. exec'[r] = Reversal(o, TRUE)  BY <2>5 DEF TypeInv, TypeOK
  <2>7. \A x \in ExecIds : x # r =>
          /\ exec'[x].status = exec[x].status
          /\ exec'[x].action = exec[x].action
          /\ exec'[x].reverses = exec[x].reverses
    BY <2>2, <2>5, Typed DEF TypeInv, TypeOK, Execution
  <2>8. call'.stage = "handler" /\ call'.id = r
    BY <1>3 DEF VerifyRollsBack, ReverseCall
  <2>9. Lifecycle!StartUndo(r, o)
    BY <2>1, <2>2, <2>3, <2>4, <2>6, <2>7, <2>8, UndoStartsRefines
  <2> QED  BY <2>2, <2>9 DEF Lifecycle!Next
<1>4. CASE Return
  <2>1. call.stage = "return" /\ call'.stage = "idle" /\ exec' = Settled
    BY <1>4 DEF Return, NoCall
  <2>2. CASE call.orig # None /\ exec[call.id].status = "succeeded"
    <3>1. PICK o \in ExecIds, r \in ExecIds : o = call.orig /\ r = call.id
      BY <2>1, <2>2, Typed DEF Idle
    <3>2. exec[o].status = "succeeded" /\ exec[r].reverses = o
      BY <2>2, <3>1 DEF CallKnows
    <3>3. /\ exec'[o].status = "rolled_back"
          /\ exec'[o].action = exec[o].action
          /\ exec'[o].reverses = exec[o].reverses
          /\ \A x \in ExecIds : x # o => exec'[x] = exec[x]
      BY <2>1, <2>2, <3>1, Typed DEF Settled, TypeInv, TypeOK, Execution
    <3>4. \A x \in ExecIds : x # o => Seen(x)' = Seen(x)  BY <2>1, <3>3, SeenSame
    <3>5. Phase(o)' = "undone"  BY <2>1, <3>3 DEF Phase
    <3>6. Kind(o)' = Kind(o)  BY <3>2, <3>3 DEF Kind
    <3>7. Phases[o] = "done" /\ Phases[r] = "done" /\ Undoes[r] = o
      BY <2>1, <2>2, <3>1, <3>2 DEF Phases, Phase, Undoes
    <3>8. /\ Phases' = [Phases EXCEPT ![o] = "undone"]
          /\ Kinds' = Kinds
          /\ Undoes' = Undoes
      BY <3>1, <3>3, <3>4, <3>5, <3>6, SeenOfOne
    <3>9. Lifecycle!Undone(o)
      BY <3>1, <3>7, <3>8 DEF Lifecycle!Undone, Phases, Kinds, Undoes
    <3> QED  BY <3>1, <3>9 DEF Lifecycle!Next
  <2>3. CASE ~(call.orig # None /\ exec[call.id].status = "succeeded")
    <3>1. exec' = exec  BY <2>1, <2>3 DEF Settled
    <3> QED  BY <2>1, <3>1, SeenSame, Unseen
  <2> QED  BY <2>2, <2>3
<1> QED  BY <1>1, <1>2, <1>3, <1>4 DEF EngineStep

\* The engine keeps the lifecycle models.rs draws, at every step and whatever the
\* executions, targets and inputs: what is gated waits, one execution runs at a
\* time, and what succeeded is undone once (execute_with_policy, confirm, cancel,
\* run_handler, do_rollback).
THEOREM EngineImplementsLifecycle == Spec => ImplementsLifecycle
<1>1. Init => Lifecycle!Init
  <2> SUFFICES ASSUME Init PROVE Lifecycle!Init  OBVIOUS
  <2>1. \A e \in ExecIds : exec[e].status = "absent" /\ exec[e].reverses = None
    BY DEF Init, Unused, Fresh
  <2>2. call.stage = "idle"  BY DEF Init, NoCall
  <2>3. \A e \in ExecIds : Phase(e) = "none" /\ Kind(e) = "none"
    BY <2>1, <2>2 DEF Phase, Kind
  <2> QED  BY <2>1, <2>3 DEF Lifecycle!Init
<1>2. IInv /\ [Next]_vars => [Lifecycle!Next]_(Lifecycle!vars)
  <2> SUFFICES ASSUME IInv, [Next]_vars PROVE [Lifecycle!Next]_(Lifecycle!vars)
    OBVIOUS
  <2>1. CASE Environment \/ UNCHANGED vars
    <3>1. UNCHANGED <<exec, call>>
      BY <2>1 DEF Environment, Sync, Vanish, Drift, ProxyFlips, vars
    <3> QED  BY <3>1, SeenSame, Unseen
  <2> QED  BY <2>1, OperationRefines, EngineStepRefines DEF Next, IInv
<1> QED  BY <1>1, <1>2, IInvariance, PTL DEF Spec, ImplementsLifecycle, Lifecycle!Spec
=============================================================================
