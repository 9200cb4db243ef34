---------------------------- MODULE RecoveryChains ----------------------------
(***************************************************************************)
(* Recovery chains (engine-recovery, chains.rs): a template's steps run    *)
(* one after another against one target, each as an execution of its own,  *)
(* and on_failure decides what a failed step does to the rest.             *)
(*                                                                         *)
(* A chain command locks the chain registry and then the execution         *)
(* registry, and keeps both until the last step is over. run is what       *)
(* run_chain_steps and handle_step_failure keep in local variables; it     *)
(* says, too, that both registries are taken. cancel_chain and abort_chain *)
(* need only the first of them. All steps of a chain work on one clone of  *)
(* the topology, so twin outlives each of them.                            *)
(***************************************************************************)
EXTENDS Recovery, SequencesExt

CONSTANTS
    ChainIds,       \* the chain ids that can be minted (bound)
    UsedTemplates,  \* the templates operators ask for
    MaxByHand       \* bound on the rollbacks operators start beside the chains

VARIABLES
    chain,  \* ChainRegistry
    run     \* the chain that is being run, or NoRun

chainVars == <<chain, run>>
allChainVars == <<vars, chainVars>>

Step(action, delta, verify) ==
    [action |-> action, delta |-> delta, verify |-> verify]

\* A template's own on_failure is left out: the operator may override it with
\* any strategy.
Templates ==
    [ safe_rollback_deployment |->
        << Step("scale_deployment", 2, TRUE),
           Step("rollback_deployment", 0, TRUE),
           Step("scale_deployment", -2, FALSE) >>,
      graceful_refresh_secret |-> << Step("refresh_secret", 0, TRUE) >>,
      drain_node_safely |-> << Step("drain_node", 0, TRUE) >> ]

ASSUME ChainsAssumption ==
    /\ None \notin ChainIds
    /\ UsedTemplates \subseteq DOMAIN Templates
    /\ MaxByHand \in Nat

OnFailure == {"stop", "rollback_all", "continue"}

\* id is the chain that is run, failed is had_failure, and rollback_all has still
\* to look at its first undo steps.
NoRun == [id |-> None, failed |-> FALSE, undoing |-> FALSE, undo |-> 0]

ChainIdle == run.id = None

\* steps is step_executions; current_step_index is its length.
UnusedChain ==
    [template |-> CHOOSE k \in DOMAIN Templates : TRUE,
     target |-> CHOOSE t \in Targets : TRUE, onFailure |-> "stop",
     status |-> "absent", approved |-> FALSE, steps |-> <<>>]

ChainInit ==
    /\ Init
    /\ chain = [c \in ChainIds |-> UnusedChain]
    /\ run = NoRun

-----------------------------------------------------------------------------
(* Operations *)

TemplateSteps(c) == Templates[chain[c].template]

\* Bound: enough ids for every step and for the reversal of all but the last.
IdsFor(c) == Spare(2 * Len(TemplateSteps(c)) - 1)

\* The type of the target is checked only when the target is in the topology.
ChainTarget(k, t) ==
    Snapshot[t].present => TypeOf[t] = TypeOfTarget(Templates[k][1].action)

NewChain(k, t, f, status) ==
    [template |-> k, target |-> t, onFailure |-> f, status |-> status,
     approved |-> FALSE, steps |-> <<>>]

\* Mutant: the chain-level gate is forgotten.
ExecuteChainUngated(c, k, t, f) ==
    /\ ChainIdle /\ Idle
    /\ chain[c].status = "absent"
    /\ ChainTarget(k, t)
    /\ Spare(2 * Len(Templates[k]) - 1)
    /\ chain' = [chain EXCEPT ![c] = NewChain(k, t, f, "executing")]
    /\ run' = [NoRun EXCEPT !.id = c]
    /\ twin' = Snapshot
    /\ UNCHANGED <<exec, call, envVars>>

\* Every template has a step that is not of low risk, so the whole chain waits
\* for approval in every mode and the branch that runs it at once is dead.
ExecuteChain(c, k, t, f) ==
    /\ ChainIdle /\ Idle
    /\ chain[c].status = "absent"
    /\ ChainTarget(k, t)
    /\ chain' = [chain EXCEPT ![c] = NewChain(k, t, f, "awaiting_approval")]
    /\ UNCHANGED <<vars, run>>

ConfirmChain(c) ==
    /\ ChainIdle /\ Idle
    /\ chain[c].status = "awaiting_approval"
    /\ IdsFor(c)
    /\ chain' = [chain EXCEPT ![c].status = "executing", ![c].approved = TRUE]
    /\ run' = [NoRun EXCEPT !.id = c]
    /\ twin' = Snapshot
    /\ UNCHANGED <<exec, call, envVars>>

CancelChain(c) ==
    /\ ChainIdle
    /\ chain[c].status = "awaiting_approval"
    /\ chain' = [chain EXCEPT ![c].status = "failed"]
    /\ UNCHANGED <<vars, run>>

\* The status check admits an executing chain, the lock does not.
AbortChain(c) ==
    /\ ChainIdle
    /\ chain[c].status \in {"awaiting_approval", "executing"}
    /\ chain' = [chain EXCEPT ![c].status = "aborted"]
    /\ UNCHANGED <<vars, run>>

-----------------------------------------------------------------------------
(* run_chain_steps *)

Current == chain[run.id]

\* Ids are interchangeable: any that is free will do. The guards Spare(1) below
\* only say that there is one; IdsFor has seen to that.
FreshId == CHOOSE e \in ExecIds : exec[e].status = "absent"

CurrentStep == TemplateSteps(run.id)[Len(Current.steps) + 1]

MoreSteps == Len(Current.steps) < Len(TemplateSteps(run.id))

StepCall(e, step) ==
    [stage |-> "handler", id |-> e, top |-> e, auto |-> FALSE,
     verify |-> step.verify, orig |-> None, marker |-> FALSE]

StepStarts ==
    /\ ~ChainIdle /\ Idle
    /\ ~run.undoing
    /\ MoreSteps
    /\ Spare(1)
    /\ exec' = [exec EXCEPT ![FreshId] =
            Fresh(CurrentStep.action, Current.target, CurrentStep.delta, "executing")]
    /\ call' = StepCall(FreshId, CurrentStep)
    /\ UNCHANGED <<twin, envVars, chainVars>>

\* Mutant: the verdict of the step is not looked at.
StepOkUnverified(e, step) == exec[e].status = "succeeded"

StepOk(e, step) ==
    /\ exec[e].status = "succeeded"
    /\ step.verify =>
          exec[e].verify \in {"passed", "skipped", "not_supported", "not_run"}

StepIsOver == ~ChainIdle /\ ~run.undoing /\ call.stage = "return"

StepSucceeded == StepOk(call.id, CurrentStep)

StepsWithThis == Append(Current.steps, call.id)

StepPasses ==
    /\ StepIsOver
    /\ StepSucceeded
    /\ chain' = [chain EXCEPT ![run.id].steps = StepsWithThis]
    /\ call' = NoCall
    /\ UNCHANGED <<exec, twin, envVars, run>>

StepFailsContinue ==
    /\ StepIsOver
    /\ ~StepSucceeded
    /\ Current.onFailure = "continue"
    /\ chain' = [chain EXCEPT ![run.id].steps = StepsWithThis]
    /\ run' = [run EXCEPT !.failed = TRUE]
    /\ call' = NoCall
    /\ UNCHANGED <<exec, twin, envVars>>

\* Mutant: the chain stops and its status is left at executing.
StepFailsSilently ==
    /\ StepIsOver
    /\ ~StepSucceeded
    /\ Current.onFailure = "stop"
    /\ chain' = [chain EXCEPT ![run.id].steps = StepsWithThis]
    /\ run' = NoRun
    /\ call' = NoCall
    /\ twin' = NoTwin
    /\ UNCHANGED <<exec, envVars>>

StepFailsStop ==
    /\ StepIsOver
    /\ ~StepSucceeded
    /\ Current.onFailure = "stop"
    /\ chain' = [chain EXCEPT ![run.id].steps = StepsWithThis,
                              ![run.id].status = "partial"]
    /\ run' = NoRun
    /\ call' = NoCall
    /\ twin' = NoTwin
    /\ UNCHANGED <<exec, envVars>>

StepFailsRollbackAll ==
    /\ StepIsOver
    /\ ~StepSucceeded
    /\ Current.onFailure = "rollback_all"
    /\ chain' = [chain EXCEPT ![run.id].steps = StepsWithThis]
    /\ run' = [run EXCEPT !.undoing = TRUE, !.undo = Len(Current.steps)]
    /\ call' = NoCall
    /\ UNCHANGED <<exec, twin, envVars>>

\* Mutant: had_failure is not looked at.
ChainFinishesWell ==
    /\ ~ChainIdle /\ Idle
    /\ ~run.undoing
    /\ ~MoreSteps
    /\ chain' = [chain EXCEPT ![run.id].status = "succeeded"]
    /\ run' = NoRun
    /\ twin' = NoTwin
    /\ UNCHANGED <<exec, call, envVars>>

ChainFinishes ==
    /\ ~ChainIdle /\ Idle
    /\ ~run.undoing
    /\ ~MoreSteps
    /\ chain' = [chain EXCEPT
            ![run.id].status = IF run.failed THEN "partial" ELSE "succeeded"]
    /\ run' = NoRun
    /\ twin' = NoTwin
    /\ UNCHANGED <<exec, call, envVars>>

-----------------------------------------------------------------------------
(* handle_step_failure under rollback_all *)

CanUndo(i) ==
    LET e == Current.steps[i] IN
    exec[e].status = "succeeded" /\ Reversible(exec[e].action)

\* Mutant: the earlier steps are undone in the order they were done.
OldestToUndo(i) == CanUndo(i) /\ \A j \in 1 .. (i - 1) : ~CanUndo(j)

\* The steps before the failed one are looked at newest first, and those that did
\* not succeed or cannot be reversed are passed over.
NextToUndo(i) == CanUndo(i) /\ \A j \in (i + 1) .. run.undo : ~CanUndo(j)

UndoStarts ==
    /\ run.undoing /\ Idle
    /\ Spare(1)
    /\ \E i \in 1 .. run.undo :
        /\ NextToUndo(i)
        /\ exec' = [exec EXCEPT ![FreshId] = Reversal(Current.steps[i], TRUE)]
        /\ call' = ReverseCall(FreshId, FreshId, Current.steps[i], TRUE)
        /\ run' = [run EXCEPT !.undo = i - 1]
    /\ UNCHANGED <<twin, envVars, chain>>

\* Mutant: the first reverse execution that fails ends the rollback.
UndoGivesUp ==
    /\ run.undoing
    /\ call.stage = "return"
    /\ exec' = Settled
    /\ call' = NoCall
    /\ run' = [run EXCEPT !.undo = IF exec[call.id].status = "succeeded" THEN @ ELSE 0]
    /\ UNCHANGED <<twin, envVars, chain>>

\* Mutant: the step that was reversed is not marked.
UndoUnsettled ==
    /\ run.undoing
    /\ call.stage = "return"
    /\ call' = NoCall
    /\ UNCHANGED <<exec, twin, envVars, chainVars>>

\* The outcome of do_rollback is dropped: a step that could not be reversed
\* does not keep the earlier ones from being reversed.
UndoReturns ==
    /\ run.undoing
    /\ call.stage = "return"
    /\ exec' = Settled
    /\ call' = NoCall
    /\ UNCHANGED <<twin, envVars, chainVars>>

UndoFinishes ==
    /\ run.undoing /\ Idle
    /\ \A i \in 1 .. run.undo : ~CanUndo(i)
    /\ chain' = [chain EXCEPT ![run.id].status = "rolled_back"]
    /\ run' = NoRun
    /\ twin' = NoTwin
    /\ UNCHANGED <<exec, call, envVars>>

-----------------------------------------------------------------------------

ChainOperation ==
    \E c \in ChainIds :
        \/ \E k \in UsedTemplates, t \in Targets, f \in OnFailure :
                ExecuteChain(c, k, t, f)
        \/ ConfirmChain(c) \/ CancelChain(c) \/ AbortChain(c)

ChainStep ==
    \/ StepStarts
    \/ StepPasses \/ StepFailsContinue \/ StepFailsStop \/ StepFailsRollbackAll
    \/ ChainFinishes
    \/ UndoStarts \/ UndoReturns \/ UndoFinishes

\* The engine under a chain: a call that returns does so to the chain.
EngineUnderChain ==
    /\ EngineStep
    /\ call.stage = "return" => ChainIdle
    /\ UNCHANGED chainVars

\* Of the commands on single executions only rollback is here: it takes steps
\* out of "succeeded". The others concern executions no chain touches, or, like
\* reverify, a verdict no chain reads again.
RollbackByHand ==
    /\ ChainIdle
    /\ Spare(1)
    /\ Cardinality({r \in ExecIds : exec[r].reverses # None /\ ~exec[r].auto})
            < MaxByHand
    /\ \E e \in ExecIds : Rollback(e, FreshId, Snapshot)
    /\ UNCHANGED chainVars

ChainNext ==
    \/ ChainOperation
    \/ ChainStep
    \/ EngineUnderChain
    \/ RollbackByHand
    \/ Environment /\ UNCHANGED chainVars

ChainSpec == ChainInit /\ [][ChainNext]_allChainVars

\* As in Recovery: what the engine awaits ends, and nothing else holds a chain.
ChainFairSpec == ChainSpec /\ WF_allChainVars(ChainStep \/ EngineUnderChain)

-----------------------------------------------------------------------------
(* Properties *)

\* The chain-level gate stands in for the gate of each step: steps are started
\* without one, so no step may take effect unless its chain was approved.
ChainGate ==
    /\ \A c \in ChainIds : chain[c].steps # <<>> => chain[c].approved
    /\ ~ChainIdle => Current.approved
    /\ \A e \in ExecIds :
        /\ ran[e] > 0
        /\ exec[e].reverses = None
        /\ NeedsApproval(exec[e].action)
        => \/ exec[e].approved
           \/ \E c \in ChainIds : e \in Range(chain[c].steps)
           \/ ~ChainIdle /\ call.top = e

\* The handler of the next step is not reached past a failed one: unless the
\* chain was told to continue, each step before it ran and, where the template
\* asks for it, was not found wanting by its verifier.
StepsAwaitVerdict ==
    [][\A c \in ChainIds :
        /\ run.id = c /\ call = NoCall
        /\ call'.stage = "handler" /\ call'.orig = None
        /\ chain[c].onFailure # "continue"
        => \A i \in DOMAIN chain[c].steps :
            LET e == chain[c].steps[i] IN
            /\ exec[e].status = "succeeded"
            /\ TemplateSteps(c)[i].verify =>
                    exec[e].verify \notin {"failed", "error"}]_allChainVars

ChainFinal == {"succeeded", "partial", "rolled_back", "failed", "aborted"}

\* A chain's verdict is true and stands: one reported as succeeded did all its
\* steps and none of them had failed on the way, even under "continue"; and what is
\* over stays as it is, whatever arrives late, be it a second confirmation, a
\* cancellation, an abort or a step.
VerdictIsTrue ==
    [][\A c \in ChainIds :
        /\ chain[c].status \in ChainFinal => chain'[c] = chain[c]
        /\ chain[c].status # "succeeded" /\ chain'[c].status = "succeeded" =>
            /\ Len(chain[c].steps) = Len(TemplateSteps(c))
            /\ \A i \in DOMAIN chain[c].steps :
                LET e == chain[c].steps[i] IN
                /\ ran[e] = 1
                /\ TemplateSteps(c)[i].verify =>
                        exec[e].verify \notin {"failed", "error"}]_allChainVars

\* rollback_all leaves no earlier step as it was without saying so: each was
\* rolled back, or a reverse execution of it says that it failed.
UndoneOrReported ==
    \A c \in ChainIds : chain[c].status = "rolled_back" =>
        \A e \in Range(Front(chain[c].steps)) :
            \/ exec[e].status = "rolled_back"
            \/ \E r \in ExecIds : /\ exec[r].reverses = e
                                  /\ exec[r].auto
                                  /\ exec[r].status = "failed"

\* Steps are undone newest first: when the reversal of a step begins, those
\* after it, up to the failed one, have been reversed or could not be.
UndoNewestFirst ==
    [][\A c \in ChainIds :
        run.id = c /\ call = NoCall /\ call'.orig # None
        => \A i, j \in DOMAIN Front(chain[c].steps) :
            /\ chain[c].steps[i] = call'.orig
            /\ j > i
            => \E r \in ExecIds :
                    /\ exec[r].reverses = chain[c].steps[j]
                    /\ exec[r].status \in {"succeeded", "failed"}]_allChainVars

\* A chain that has been set off comes to an end, by its steps, its reversals or an abort,
\* whatever fails on the way.
ChainEnds ==
    \A c \in ChainIds :
        chain[c].status = "executing" ~>
            chain[c].status \in {"succeeded", "partial", "rolled_back", "aborted"}

=============================================================================
