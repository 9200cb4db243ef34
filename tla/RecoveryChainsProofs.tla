------------------------- MODULE RecoveryChainsProofs -------------------------
(***************************************************************************)
(* Theorems about RecoveryChains: what a chain may do to the executions it *)
(* starts, and what its verdict is worth, for every set of chains, of      *)
(* targets and of executions.                                              *)
(***************************************************************************)
EXTENDS RecoveryChains, RecoveryProofs, SequenceTheorems,
        FiniteSetTheorems

-----------------------------------------------------------------------------
(* The inductive invariant. EngineInv of RecoveryProofs holds under a chain  *)
(* too; the rest says what a chain knows of the executions of its steps.     *)

ChainStatuses == {"absent", "awaiting_approval", "executing"} \cup ChainFinal

Chain ==
    [template : DOMAIN Templates, target : Targets, onFailure : OnFailure,
     status : ChainStatuses, approved : BOOLEAN, steps : Seq(ExecIds)]

Run ==
    [id : ChainIds \cup {None}, failed : BOOLEAN, undoing : BOOLEAN, undo : Nat]

ChainTypeOK == chain \in [ChainIds -> Chain] /\ run \in Run

\* Nothing a chain or its operator starts asks for an automatic rollback, and
\* while no chain runs nothing is left of the one that ran last.
RunFits ==
    /\ call.auto = FALSE
    /\ ChainIdle => run = NoRun
    /\ ~ChainIdle => /\ Current.status = "executing"
                     /\ Current.approved
                     /\ run.failed => Current.onFailure = "continue"

StepsFit ==
    \A c \in ChainIds :
        /\ chain[c].status \in {"absent", "awaiting_approval"} =>
                chain[c].steps = <<>>
        /\ chain[c].steps # <<>> => chain[c].approved
        /\ Len(chain[c].steps) <= Len(TemplateSteps(c))

\* The steps of a chain are over, are executions of their own, and ran the action
\* the template asks for.
StepsRan ==
    \A c \in ChainIds :
        \A i \in 1 .. Len(chain[c].steps) :
            LET e == chain[c].steps[i] IN
            /\ exec[e].status \in {"succeeded", "failed", "rolled_back"}
            /\ exec[e].reverses = None
            /\ exec[e].action = TemplateSteps(c)[i].action
            /\ \A j \in 1 .. Len(chain[c].steps) : chain[c].steps[j] = e => j = i

\* A call between two steps of a chain runs the step that comes next.
StepInCall ==
    ~ChainIdle /\ ~run.undoing /\ ~Idle =>
        /\ MoreSteps
        /\ call.orig = None
        /\ call.top = call.id
        /\ exec[call.id].reverses = None
        /\ exec[call.id].action = CurrentStep.action
        /\ call.stage # "handler" => exec[call.id].status \in {"succeeded", "failed"}
        /\ \A i \in 1 .. Len(Current.steps) : Current.steps[i] # call.id

SoFarSoGood ==
    ~ChainIdle /\ ~run.undoing /\ ~run.failed =>
        \A i \in 1 .. Len(Current.steps) :
            StepOk(Current.steps[i], TemplateSteps(run.id)[i])

\* Whatever is no reverse execution is a step of a chain.
Owned ==
    \A e \in ExecIds :
        exec[e].status # "absent" /\ exec[e].reverses = None =>
            \/ \E c \in ChainIds : \E i \in 1 .. Len(chain[c].steps) :
                    chain[c].steps[i] = e
            \/ ~ChainIdle /\ ~Idle /\ call.id = e /\ call.top = e

\* An automatic reverse execution of e is over, and it or e says how it ended.
Undone(e) ==
    \E r \in ExecIds :
        /\ exec[r].reverses = e
        /\ exec[r].auto
        /\ \/ exec[r].status = "failed"
           \/ exec[r].status = "succeeded" /\ exec[e].status = "rolled_back"

\* While rollback_all goes back over the steps, those above run.undo are undone,
\* the lowest of them perhaps by the call in progress, and those below are not.
UndoFits ==
    run.undoing =>
        /\ run.undo < Len(Current.steps)
        /\ \A i \in 1 .. run.undo : exec[Current.steps[i]].status = "succeeded"
        /\ \A i \in (run.undo + 1) .. (Len(Current.steps) - 1) :
                \/ Undone(Current.steps[i])
                \/ ~Idle /\ i = run.undo + 1
        /\ ~Idle =>
                /\ run.undo + 1 < Len(Current.steps)
                /\ call.orig = Current.steps[run.undo + 1]
                /\ exec[call.id].auto

ChainPart ==
    /\ ChainTypeOK
    /\ RunFits
    /\ StepsFit
    /\ StepsRan
    /\ StepInCall
    /\ SoFarSoGood
    /\ Owned
    /\ UndoFits
    /\ UndoneOrReported

ChainInv == EngineInv /\ ChainPart

-----------------------------------------------------------------------------
(* The templates, the steps of a chain, and the ids that are left *)

\* Of the template table in chains.rs the proofs use that it is a table of actions,
\* and that every step that another one follows can be reversed.
LEMMA TemplateTable ==
    ASSUME NEW k \in DOMAIN Templates
    PROVE  /\ Templates[k] \in Seq([action : Actions, delta : Int, verify : BOOLEAN])
           /\ Len(Templates[k]) > 0
           /\ \A i \in 1 .. (Len(Templates[k]) - 1) : Reversible(Templates[k][i].action)
<1> DEFINE S == [action : Actions, delta : Int, verify : BOOLEAN]
<1>1. k \in {"safe_rollback_deployment", "graceful_refresh_secret", "drain_node_safely"}
  BY DEF Templates
<1>2. /\ Step("scale_deployment", 2, TRUE) \in S
      /\ Step("rollback_deployment", 0, TRUE) \in S
      /\ Step("scale_deployment", -2, FALSE) \in S
      /\ Step("refresh_secret", 0, TRUE) \in S
      /\ Step("drain_node", 0, TRUE) \in S
  BY DEF Step, Actions, ActionDefs
<1>3. /\ Reversible(Step("scale_deployment", 2, TRUE).action)
      /\ Reversible(Step("rollback_deployment", 0, TRUE).action)
  BY DEF Step, Reversible, ActionDefs
<1>4. \A x, y, z \in S : <<x, y, z>> \in Seq(S) /\ <<x>> \in Seq(S)  OBVIOUS
<1> HIDE DEF S
<1>5. CASE k = "safe_rollback_deployment"
  <2> DEFINE a == Step("scale_deployment", 2, TRUE)
             b == Step("rollback_deployment", 0, TRUE)
             c == Step("scale_deployment", -2, FALSE)
  <2>1. Templates[k] = <<a, b, c>>  BY <1>5 DEF Templates
  <2>2. /\ a \in S /\ b \in S /\ c \in S
        /\ Reversible(a.action) /\ Reversible(b.action)
    BY <1>2, <1>3
  <2> HIDE DEF a, b, c
  <2>3. Templates[k] \in Seq(S)  BY <2>1, <2>2, <1>4
  <2>4. Len(Templates[k]) = 3 /\ Templates[k][1] = a /\ Templates[k][2] = b  BY <2>1
  <2>5. \A i \in 1 .. 2 : i = 1 \/ i = 2  OBVIOUS
  <2> QED  BY <2>2, <2>3, <2>4, <2>5 DEF S
<1>6. CASE k = "graceful_refresh_secret"
  <2> DEFINE a == Step("refresh_secret", 0, TRUE)
  <2>1. Templates[k] = <<a>>  BY <1>6 DEF Templates
  <2>2. a \in S  BY <1>2
  <2> HIDE DEF a
  <2>3. Templates[k] \in Seq(S) /\ Len(Templates[k]) = 1  BY <2>1, <2>2, <1>4
  <2> QED  BY <2>3 DEF S
<1>7. CASE k = "drain_node_safely"
  <2> DEFINE a == Step("drain_node", 0, TRUE)
  <2>1. Templates[k] = <<a>>  BY <1>7 DEF Templates
  <2>2. a \in S  BY <1>2
  <2> HIDE DEF a
  <2>3. Templates[k] \in Seq(S) /\ Len(Templates[k]) = 1  BY <2>1, <2>2, <1>4
  <2> QED  BY <2>3 DEF S
<1> QED  BY <1>1, <1>5, <1>6, <1>7

LEMMA AppendedSteps ==
    ASSUME NEW s \in Seq(ExecIds), NEW e \in ExecIds
    PROVE  /\ Append(s, e) \in Seq(ExecIds)
           /\ Append(s, e) # <<>>
           /\ Len(Append(s, e)) = Len(s) + 1
           /\ \A i \in 1 .. Len(s) : Append(s, e)[i] = s[i]
           /\ Append(s, e)[Len(s) + 1] = e
           /\ \A i \in 1 .. (Len(s) + 1) : i \in 1 .. Len(s) \/ i = Len(s) + 1
OBVIOUS

LEMMA FrontOfSteps ==
    ASSUME NEW s \in Seq(ExecIds)
    PROVE  /\ DOMAIN Front(s) = 1 .. (Len(s) - 1)
           /\ \A x : x \in Range(Front(s)) <=> \E i \in 1 .. (Len(s) - 1) : s[i] = x
<1>1. /\ Front(s) = [i \in 1 .. (Len(s) - 1) |-> s[i]]
  BY DEF Front
<1> QED  BY <1>1 DEF Range

\* The id a step or its reversal is given is one no execution has.
LEMMA FreshIdIsFree ==
    ASSUME Spare(1) PROVE FreshId \in ExecIds /\ exec[FreshId].status = "absent"
<1> DEFINE F == {e \in ExecIds : exec[e].status = "absent"}
<1>1. F # {}
  <2>1. Cardinality({}) = 0  BY FS_EmptySet
  <2>2. Cardinality(F) >= 1  BY DEF Spare
  <2> HIDE DEF F
  <2> QED  BY <2>1, <2>2
<1>2. \E e \in ExecIds : exec[e].status = "absent"  BY <1>1
<1> QED  BY <1>2 DEF FreshId

LEMMA ChainTyped ==
    ASSUME ChainTypeOK
    PROVE  /\ \A c \in ChainIds :
                /\ chain[c] \in Chain
                /\ chain[c].template \in DOMAIN Templates
                /\ chain[c].steps \in Seq(ExecIds)
                /\ Len(chain[c].steps) \in Nat
                /\ \A i \in 1 .. Len(chain[c].steps) : chain[c].steps[i] \in ExecIds
                /\ TemplateSteps(c) \in Seq([action : Actions, delta : Int, verify : BOOLEAN])
                /\ Len(TemplateSteps(c)) \in Nat
                /\ Len(TemplateSteps(c)) > 0
           /\ ~ChainIdle => run.id \in ChainIds
           /\ run.undo \in Nat
<1>1. ASSUME NEW c \in ChainIds
      PROVE  /\ chain[c] \in Chain
             /\ chain[c].template \in DOMAIN Templates
             /\ chain[c].steps \in Seq(ExecIds)
  BY <1>1 DEF ChainTypeOK, Chain
<1>2. ASSUME NEW s \in Seq(ExecIds)
      PROVE  Len(s) \in Nat /\ \A i \in 1 .. Len(s) : s[i] \in ExecIds
  OBVIOUS
<1>3. ASSUME NEW c \in ChainIds
      PROVE  /\ TemplateSteps(c) \in Seq([action : Actions, delta : Int, verify : BOOLEAN])
             /\ Len(TemplateSteps(c)) \in Nat
             /\ Len(TemplateSteps(c)) > 0
  <2>1. \A S : \A s \in Seq(S) : Len(s) \in Nat  OBVIOUS
  <2> QED  BY <1>1, <2>1, TemplateTable DEF TemplateSteps
<1>4. run.id \in ChainIds \cup {None} /\ run.undo \in Nat  BY DEF ChainTypeOK, Run
<1> QED  BY <1>1, <1>2, <1>3, <1>4 DEF ChainIdle

-----------------------------------------------------------------------------
(* What every step leaves alone *)

Over == {"succeeded", "failed", "rolled_back"}

\* An execution stays what it is, one that is over stays over, and a failure and a
\* rollback are final.
Keeps ==
    \A e \in ExecIds : exec[e].status # "absent" =>
        /\ exec'[e].status # "absent"
        /\ exec'[e].action = exec[e].action
        /\ exec'[e].reverses = exec[e].reverses
        /\ exec'[e].auto = exec[e].auto
        /\ exec[e].status \in Over => exec'[e].status \in Over
        /\ exec[e].status \in {"failed", "rolled_back"} => exec'[e].status = exec[e].status

\* A new execution takes an id that none has.
LEMMA NewIdKeeps ==
    ASSUME TypeInv, NEW r \in ExecIds, exec[r].status = "absent",
           NEW new, exec' = [exec EXCEPT ![r] = new]
    PROVE  Keeps /\ exec'[r] = new /\ \A e \in ExecIds : e # r => exec'[e] = exec[e]
BY DEF Keeps, TypeInv, TypeOK

LEMMA NothingKeeps == exec' = exec => Keeps
BY DEF Keeps

\* The end of do_rollback marks an original that had succeeded.
LEMMA SettledKeeps ==
    ASSUME EngineInv, exec' = Settled, call.stage = "return"
    PROVE  /\ Keeps
           /\ \A e \in ExecIds : e # call.orig => exec'[e] = exec[e]
           /\ call.orig # None /\ exec[call.id].status = "succeeded" =>
                exec'[call.orig].status = "rolled_back"
<1> USE DEF EngineInv
<1>1. CASE call.orig # None /\ exec[call.id].status = "succeeded"
  <2>1. call.orig \in ExecIds /\ exec[call.orig].status = "succeeded"
    BY <1>1, Typed DEF CallKnows
  <2>2. PICK o \in ExecIds : o = call.orig  BY <2>1
  <2>3. exec' = [exec EXCEPT ![o].status = "rolled_back", ![o].rollbackBy = call.id]
    BY <1>1, <2>2 DEF Settled
  <2>4. /\ exec'[o] = [exec[o] EXCEPT !.status = "rolled_back", !.rollbackBy = call.id]
        /\ \A e \in ExecIds : e # o => exec'[e] = exec[e]
    BY <2>3 DEF TypeInv, TypeOK
  <2>5. /\ exec'[o].status = "rolled_back"
        /\ exec'[o].action = exec[o].action
        /\ exec'[o].reverses = exec[o].reverses
        /\ exec'[o].auto = exec[o].auto
    BY <2>4, Typed DEF Execution
  <2> QED  BY <2>1, <2>2, <2>4, <2>5 DEF Keeps, Over
<1>2. CASE ~(call.orig # None /\ exec[call.id].status = "succeeded")
  BY <1>2, NothingKeeps DEF Settled
<1> QED  BY <1>1, <1>2

\* So does an answer of the executor or of the verifier: the execution it concerns
\* was running, or had succeeded and stays so.
LEMMA AnswerKeeps ==
    ASSUME EngineInv,
           \/ HandlerRefused \/ HandlerSucceeds \/ HandlerUpstreamError
           \/ VerifySettles
    PROVE  Keeps
<1> USE DEF EngineInv
<1>1. call.id \in ExecIds
  BY Typed DEF HandlerRefused, HandlerSucceeds, HandlerUpstreamError, VerifySettles, Idle
<1>2. PICK e \in ExecIds : e = call.id  BY <1>1
<1>3. /\ exec'[e].action = exec[e].action
      /\ exec'[e].reverses = exec[e].reverses
      /\ exec'[e].auto = exec[e].auto
      /\ \A x \in ExecIds : x # e => exec'[x] = exec[x]
      /\ \/ call.stage = "handler" /\ exec'[e].status \in {"succeeded", "failed"}
         \/ exec'[e].status = exec[e].status
  BY <1>2, EngineFrame
<1>4. call.stage = "handler" => exec[e].status \in {"executing", "awaiting_approval"}
  BY <1>2 DEF StageFits
<1> QED  BY <1>3, <1>4 DEF Keeps, Over

\* What keeps the executions keeps what the invariant says of a chain's steps.
LEMMA StepsKept ==
    ASSUME ChainTypeOK, StepsRan, Keeps, NEW c \in ChainIds,
           chain'[c].steps = chain[c].steps,
           chain[c].steps = <<>> \/ chain'[c].template = chain[c].template
    PROVE  \A i \in 1 .. Len(chain'[c].steps) :
                LET e == chain'[c].steps[i] IN
                /\ exec'[e].status \in Over
                /\ exec'[e].reverses = None
                /\ exec'[e].action = TemplateSteps(c)'[i].action
                /\ \A j \in 1 .. Len(chain'[c].steps) : chain'[c].steps[j] = e => j = i
<1> SUFFICES ASSUME NEW i \in 1 .. Len(chain[c].steps)
             PROVE  LET e == chain[c].steps[i] IN
                    /\ exec'[e].status \in Over
                    /\ exec'[e].reverses = None
                    /\ exec'[e].action = TemplateSteps(c)'[i].action
                    /\ \A j \in 1 .. Len(chain[c].steps) : chain[c].steps[j] = e => j = i
  OBVIOUS
<1>1. chain'[c].template = chain[c].template
  <2>1. Len(<<>>) = 0  OBVIOUS
  <2> QED  BY <2>1
<1>2. TemplateSteps(c)' = TemplateSteps(c)  BY <1>1 DEF TemplateSteps
<1>3. PICK e \in ExecIds : e = chain[c].steps[i]  BY ChainTyped
<1>4. /\ exec[e].status \in Over
      /\ exec[e].reverses = None
      /\ exec[e].action = TemplateSteps(c)[i].action
      /\ \A j \in 1 .. Len(chain[c].steps) : chain[c].steps[j] = e => j = i
  BY <1>3 DEF StepsRan, Over
<1>5. /\ exec'[e].status \in Over
      /\ exec'[e].action = exec[e].action
      /\ exec'[e].reverses = exec[e].reverses
  BY <1>4 DEF Keeps, Over
<1> QED  BY <1>2, <1>3, <1>4, <1>5

LEMMA ReportsKept ==
    ASSUME ChainTypeOK, StepsRan, UndoneOrReported, Keeps, NEW c \in ChainIds,
           chain[c].status = "rolled_back", chain'[c].steps = chain[c].steps
    PROVE  \A e \in Range(Front(chain'[c].steps)) :
                \/ exec'[e].status = "rolled_back"
                \/ \E r \in ExecIds : /\ exec'[r].reverses = e
                                      /\ exec'[r].auto
                                      /\ exec'[r].status = "failed"
<1> SUFFICES ASSUME NEW e \in Range(Front(chain[c].steps))
             PROVE  \/ exec'[e].status = "rolled_back"
                    \/ \E r \in ExecIds : /\ exec'[r].reverses = e
                                          /\ exec'[r].auto
                                          /\ exec'[r].status = "failed"
  OBVIOUS
<1>0. e \in ExecIds  BY ChainTyped, FrontOfSteps
<1>1. CASE exec[e].status = "rolled_back"
  BY <1>0, <1>1 DEF Keeps
<1>2. CASE \E r \in ExecIds : /\ exec[r].reverses = e
                              /\ exec[r].auto
                              /\ exec[r].status = "failed"
  BY <1>2 DEF Keeps
<1> QED  BY <1>1, <1>2 DEF UndoneOrReported

-----------------------------------------------------------------------------
(* The engine under a chain: EngineInv is kept *)

\* The call ends or is left alone, and so is what the executors work on.
LEMMA EngineRests ==
    ASSUME EngineInv, UNCHANGED <<exec, envVars>>, twin' \in [Targets -> Twin],
           \/ call' = call
           \/ call' = NoCall /\ call.stage = "return" /\ call.orig = None
    PROVE  EngineInv'
<1>1. TypeInv'
  <2>1. NoCall \in Call /\ NoCall.stage = "idle"  BY DEF NoCall, Call
  <2>2. call' \in Call /\ CallHasId'
    BY <2>1 DEF EngineInv, TypeInv, TypeOK, CallHasId, Idle
  <2> QED  BY <2>2 DEF EngineInv, TypeInv, TypeOK, envVars
<1>2. CASE call' = call
  BY <1>1, <1>2, QuietStep DEF EngineInv, Control, envVars
<1>3. CASE call' = NoCall /\ call.stage = "return" /\ call.orig = None
  <2>1. exec' = Settled  BY <1>3 DEF Settled
  <2> QED  BY <1>1, <1>3, <2>1, ReturnStep DEF EngineInv, Control, envVars
<1> QED  BY <1>2, <1>3

LEMMA StepStartsEngine ==
    ASSUME ChainInv, StepStarts
    PROVE  /\ EngineInv'
           /\ Keeps
           /\ FreshId \in ExecIds
           /\ exec[FreshId].status = "absent"
           /\ \A e \in ExecIds : e # FreshId => exec'[e] = exec[e]
           /\ exec'[FreshId].status = "executing"
           /\ exec'[FreshId].reverses = None
           /\ exec'[FreshId].action = CurrentStep.action
<1> USE DEF ChainInv, ChainPart, EngineInv
<1>1. FreshId \in ExecIds /\ exec[FreshId].status = "absent"
  BY FreshIdIsFree DEF StepStarts
<1>2. PICK r \in ExecIds : r = FreshId  BY <1>1
<1>3. PICK c \in ChainIds : c = run.id  BY ChainTyped DEF StepStarts
<1>4. PICK i \in 1 .. Len(TemplateSteps(c)) : CurrentStep = TemplateSteps(c)[i]
  BY <1>3, ChainTyped DEF StepStarts, MoreSteps, Current, CurrentStep
<1>5. CurrentStep \in [action : Actions, delta : Int, verify : BOOLEAN]
  <2>1. \A S : \A s \in Seq(S) : \A j \in 1 .. Len(s) : s[j] \in S  OBVIOUS
  <2> QED  BY <1>3, <1>4, <2>1, ChainTyped
<1>6. PICK a \in Actions, d \in Int, t \in Targets :
        a = CurrentStep.action /\ d = CurrentStep.delta /\ t = Current.target
  BY <1>3, <1>5, ChainTyped DEF Current, Chain
<1>7. /\ exec' = [exec EXCEPT ![r] = Fresh(a, t, d, "executing")]
      /\ call' = StepCall(r, CurrentStep)
      /\ UNCHANGED <<twin, envVars>>
      /\ Idle
  BY <1>2, <1>6 DEF StepStarts
<1>8. /\ Keeps
      /\ exec'[r] = Fresh(a, t, d, "executing")
      /\ \A e \in ExecIds : e # r => exec'[e] = exec[e]
  BY <1>1, <1>2, <1>7, NewIdKeeps
<1>9. TypeInv'
  <2>1. Fresh(a, t, d, "executing") \in Execution  BY FreshType DEF Statuses
  <2>2. exec' \in [ExecIds -> Execution]  BY <1>7, <2>1 DEF TypeInv, TypeOK
  <2>3. call' \in Call /\ call'.id \in ExecIds
    BY <1>5, <1>7 DEF StepCall, Call
  <2> QED  BY <1>7, <2>2, <2>3 DEF TypeInv, TypeOK, CallHasId, envVars
<1>10. call'.stage = "handler" /\ call'.id = r /\ call'.orig = None
  BY <1>7 DEF StepCall
<1>11. Control'
  BY <1>1, <1>2, <1>7, <1>10, NewExecution DEF envVars
<1> QED  BY <1>1, <1>2, <1>6, <1>8, <1>9, <1>11 DEF Control, Fresh

LEMMA StepOverEngine ==
    ASSUME ChainInv,
           StepPasses \/ StepFailsContinue \/ StepFailsStop \/ StepFailsRollbackAll
    PROVE  EngineInv'
<1> USE DEF ChainInv, ChainPart, EngineInv
<1>1. /\ StepIsOver
      /\ call' = NoCall
      /\ UNCHANGED <<exec, envVars>>
      /\ twin' = twin \/ twin' = NoTwin
  BY DEF StepPasses, StepFailsContinue, StepFailsStop, StepFailsRollbackAll
<1>2. twin' \in [Targets -> Twin]  BY <1>1, NoTwinType DEF TypeInv, TypeOK
<1>3. call.stage = "return" /\ call.orig = None
  BY <1>1 DEF StepIsOver, StepInCall, Idle
<1> QED  BY <1>1, <1>2, <1>3, EngineRests

LEMMA UndoStartsEngine ==
    ASSUME ChainInv, UndoStarts, NEW i \in 1 .. run.undo, NextToUndo(i),
           exec' = [exec EXCEPT ![FreshId] = Reversal(Current.steps[i], TRUE)],
           call' = ReverseCall(FreshId, FreshId, Current.steps[i], TRUE)
    PROVE  /\ EngineInv'
           /\ Keeps
           /\ FreshId \in ExecIds
           /\ exec[FreshId].status = "absent"
           /\ \A e \in ExecIds : e # FreshId => exec'[e] = exec[e]
           /\ exec'[FreshId].status = "executing"
           /\ exec'[FreshId].reverses = Current.steps[i]
           /\ exec'[FreshId].auto
           /\ Current.steps[i] \in ExecIds
<1> USE DEF ChainInv, ChainPart, EngineInv
<1>1. FreshId \in ExecIds /\ exec[FreshId].status = "absent"
  BY FreshIdIsFree DEF UndoStarts
<1>2. PICK r \in ExecIds : r = FreshId  BY <1>1
<1>3. run.undoing /\ Idle /\ UNCHANGED <<twin, envVars>>  BY DEF UndoStarts
<1>4. ~ChainIdle  BY <1>3 DEF RunFits, NoRun
<1>5. PICK c \in ChainIds : c = run.id  BY <1>4, ChainTyped
<1>6. i \in 1 .. Len(chain[c].steps)
  BY <1>3, <1>5, ChainTyped DEF UndoFits, Current
<1>7. PICK e \in ExecIds : e = chain[c].steps[i]  BY <1>6, ChainTyped
<1>8. /\ exec[e].status = "succeeded"
      /\ Reversible(exec[e].action)
      /\ exec[e].reverses = None
  <2>1. CanUndo(i) /\ e = Current.steps[i]  BY <1>5, <1>7 DEF NextToUndo, Current
  <2> QED  BY <1>6, <1>7, <2>1 DEF CanUndo, StepsRan
<1>9. /\ exec' = [exec EXCEPT ![r] = Reversal(e, TRUE)]
      /\ call' = ReverseCall(r, r, e, TRUE)
  BY <1>2, <1>5, <1>7 DEF Current
<1>10. /\ Keeps
       /\ exec'[r] = Reversal(e, TRUE)
       /\ \A x \in ExecIds : x # r => exec'[x] = exec[x]
  BY <1>1, <1>2, <1>9, NewIdKeeps
<1>11. TypeInv'
  <2>1. Reversal(e, TRUE) \in Execution
    BY <1>8, ReversalType DEF TypeInv
  <2>2. exec' \in [ExecIds -> Execution]  BY <1>9, <2>1 DEF TypeInv, TypeOK
  <2>3. call' \in Call /\ call'.id \in ExecIds
    BY <1>9 DEF ReverseCall, Call
  <2> QED  BY <1>3, <2>2, <2>3 DEF TypeInv, TypeOK, CallHasId, envVars
<1>12. ran' = ran /\ EngineInv  BY <1>3 DEF envVars
<1>13. Control'
  <2> HIDE DEF ChainInv, ChainPart, EngineInv
  <2> QED  BY <1>1, <1>2, <1>3, <1>8, <1>9, <1>12, ReversalStep
<1>14. exec'[r].status = "executing" /\ exec'[r].reverses = e /\ exec'[r].auto
  BY ZenonT(40), <1>10 DEF Reversal, Fresh
<1> QED  BY <1>1, <1>2, <1>5, <1>7, <1>10, <1>11, <1>13, <1>14 DEF Control, Current

LEMMA UndoReturnsEngine ==
    ASSUME ChainInv, UndoReturns PROVE EngineInv'
<1> USE DEF ChainInv, ChainPart, EngineInv
<1>1. /\ call.stage = "return"
      /\ exec' = Settled
      /\ call' = NoCall
      /\ UNCHANGED <<twin, envVars>>
  BY DEF UndoReturns
<1>2. exec' \in [ExecIds -> Execution]  BY <1>1, SettledType DEF Idle
<1>3. call' \in Call /\ call'.stage = "idle"  BY <1>1 DEF NoCall, Call
<1>4. TypeInv'  BY <1>1, <1>2, <1>3 DEF TypeInv, TypeOK, CallHasId, Idle, envVars
<1> QED  BY <1>1, <1>4, ReturnStep DEF Control, envVars

-----------------------------------------------------------------------------
(* The invariant is kept: the commands on a chain *)

\* A command that finds no chain running changes one chain, whose steps it leaves
\* alone, and sets off at most that one.
LEMMA ChainMoves ==
    ASSUME ChainPart, ChainIdle, UNCHANGED <<exec, call, ran>>,
           NEW c \in ChainIds,
           chain' \in [ChainIds -> Chain],
           \A d \in ChainIds : d # c => chain'[d] = chain[d],
           chain'[c].steps = chain[c].steps,
           \/ chain[c].steps = <<>>
           \/ /\ chain'[c].template = chain[c].template
              /\ chain'[c].approved = chain[c].approved
              /\ chain'[c].status \in ChainFinal,
           chain'[c].status # "rolled_back",
           \/ run' = run
           \/ /\ Idle
              /\ run' = [NoRun EXCEPT !.id = c]
              /\ chain[c].steps = <<>>
              /\ chain'[c].status = "executing"
              /\ chain'[c].approved
    PROVE  ChainPart'
<1> USE DEF ChainPart
<1>1. /\ \A d \in ChainIds : chain'[d].steps = chain[d].steps
      /\ Keeps
      /\ Idle' <=> Idle
  BY NothingKeeps DEF Idle
<1>2. NoRun \in Run /\ ~NoRun.failed /\ ~NoRun.undoing /\ NoRun.id = None
  BY DEF NoRun, Run
<1>3. \/ run' = NoRun
      \/ /\ Idle
         /\ run'.id = c /\ ~run'.failed /\ ~run'.undoing /\ run' \in Run
         /\ chain[c].steps = <<>>
         /\ chain'[c].status = "executing"
         /\ chain'[c].approved
  <2>1. CASE run' = run  BY <2>1 DEF RunFits
  <2>2. CASE run' = [NoRun EXCEPT !.id = c]
    <3>1. /\ run'.id = c /\ run'.failed = FALSE /\ run'.undoing = FALSE
          /\ run' \in Run
      BY <2>2 DEF NoRun, Run
    <3> QED  BY <2>2, <3>1, <1>2 DEF RunFits
  <2> QED  BY <2>1, <2>2
<1>4. /\ ~run'.undoing /\ ~run'.failed
      /\ ChainIdle' <=> run' = NoRun
      /\ Len(<<>>) = 0
  BY <1>2, <1>3, ChainsAssumption DEF ChainIdle
<1>5. ChainTypeOK'  BY <1>2, <1>3 DEF ChainTypeOK
<1>6. RunFits'  BY <1>3, <1>4 DEF RunFits, Current
<1>7. StepsFit'
  <2> SUFFICES ASSUME NEW d \in ChainIds
               PROVE  /\ chain'[d].status \in {"absent", "awaiting_approval"} =>
                            chain'[d].steps = <<>>
                      /\ chain'[d].steps # <<>> => chain'[d].approved
                      /\ Len(chain'[d].steps) <= Len(TemplateSteps(d)')
    BY DEF StepsFit
  <2>1. Len(TemplateSteps(d)') \in Nat  BY <1>5, TemplateTable, ChainTyped
        DEF TemplateSteps, ChainTypeOK, Chain
  <2>2. chain[d].steps = <<>> \/ TemplateSteps(d)' = TemplateSteps(d)
    BY DEF TemplateSteps
  <2> QED  BY <1>4, <2>1, <2>2 DEF StepsFit, ChainFinal
<1>8. StepsRan'  BY <1>1, StepsKept DEF StepsRan, Over
<1>9. StepInCall'  BY <1>1, <1>3, <1>4 DEF StepInCall
<1>10. SoFarSoGood'
  BY <1>1, <1>3, <1>4 DEF SoFarSoGood, Current
<1>11. Owned'
  BY <1>1 DEF Owned
<1>12. UndoFits'  BY <1>4 DEF UndoFits
<1>13. UndoneOrReported'
  <2> SUFFICES ASSUME NEW d \in ChainIds, chain'[d].status = "rolled_back"
               PROVE  \A e \in Range(Front(chain'[d].steps)) :
                        \/ exec'[e].status = "rolled_back"
                        \/ \E r \in ExecIds : /\ exec'[r].reverses = e
                                              /\ exec'[r].auto
                                              /\ exec'[r].status = "failed"
    BY DEF UndoneOrReported
  <2> QED  BY <1>1, ReportsKept
<1> QED
  BY <1>5, <1>6, <1>7, <1>8, <1>9, <1>10, <1>11, <1>12, <1>13

LEMMA ChainOperationStep == ASSUME ChainInv, ChainOperation PROVE ChainInv'
<1> USE DEF ChainInv
<1>1. PICK c \in ChainIds :
        \/ \E k \in UsedTemplates, t \in Targets, f \in OnFailure :
                ExecuteChain(c, k, t, f)
        \/ ConfirmChain(c) \/ CancelChain(c) \/ AbortChain(c)
  BY DEF ChainOperation
<1>2. /\ ChainIdle
      /\ UNCHANGED <<exec, call, envVars>>
      /\ twin' = twin \/ twin' = Snapshot
  BY <1>1 DEF ExecuteChain, ConfirmChain, CancelChain, AbortChain, vars, envVars
<1>3. EngineInv'
  <2>1. twin' \in [Targets -> Twin]
    BY <1>2, SnapshotType DEF EngineInv, TypeInv, TypeOK
  <2> QED  BY <1>2, <2>1, EngineRests DEF envVars
<1>4. chain[c] \in Chain /\ chain \in [ChainIds -> Chain]
  BY DEF ChainPart, ChainTypeOK
<1>5. ran' = ran  BY <1>2 DEF envVars
<1>6. ASSUME NEW k \in UsedTemplates, NEW t \in Targets, NEW f \in OnFailure,
             ExecuteChain(c, k, t, f)
      PROVE  ChainPart'
  <2>1. NewChain(k, t, f, "awaiting_approval") \in Chain
    BY ChainsAssumption, EmptySeq DEF NewChain, Chain, ChainStatuses
  <2>2. /\ chain[c].status = "absent"
        /\ chain' = [chain EXCEPT ![c] = NewChain(k, t, f, "awaiting_approval")]
        /\ run' = run
    BY <1>6 DEF ExecuteChain
  <2>3. /\ chain' \in [ChainIds -> Chain]
        /\ \A d \in ChainIds : d # c => chain'[d] = chain[d]
        /\ chain'[c].status = "awaiting_approval"
        /\ chain'[c].steps = <<>>
    BY <1>4, <2>1, <2>2 DEF NewChain
  <2>4. chain[c].steps = <<>>  BY <2>2 DEF ChainPart, StepsFit
  <2> QED  BY <1>2, <1>5, <2>2, <2>3, <2>4, ChainMoves
<1>7. ASSUME ConfirmChain(c) PROVE ChainPart'
  <2>1. chain' = [chain EXCEPT ![c] =
                    [chain[c] EXCEPT !.status = "executing", !.approved = TRUE]]
    BY <1>4, <1>7 DEF ConfirmChain
  <2>2. /\ [chain[c] EXCEPT !.status = "executing", !.approved = TRUE] \in Chain
        /\ chain'[c].status = "executing"
        /\ chain'[c].approved
        /\ chain'[c].steps = chain[c].steps
    BY <1>4, <2>1 DEF Chain, ChainStatuses
  <2>3. /\ chain' \in [ChainIds -> Chain]
        /\ \A d \in ChainIds : d # c => chain'[d] = chain[d]
    BY <1>4, <2>1, <2>2
  <2>4. /\ chain[c].steps = <<>>
        /\ Idle
        /\ run' = [NoRun EXCEPT !.id = c]
    BY <1>7 DEF ConfirmChain, ChainPart, StepsFit
  <2> QED  BY <1>2, <1>5, <2>2, <2>3, <2>4, ChainMoves
<1>8. ASSUME CancelChain(c) \/ AbortChain(c) PROVE ChainPart'
  <2>1. PICK s \in {"failed", "aborted"} :
            chain' = [chain EXCEPT ![c].status = s] /\ run' = run
    BY <1>8 DEF CancelChain, AbortChain
  <2>2. chain' = [chain EXCEPT ![c] = [chain[c] EXCEPT !.status = s]]
    BY <1>4, <2>1
  <2>3. /\ [chain[c] EXCEPT !.status = s] \in Chain
        /\ chain'[c].status \in ChainFinal
        /\ chain'[c].status # "rolled_back"
        /\ chain'[c].approved = chain[c].approved
        /\ chain'[c].template = chain[c].template
        /\ chain'[c].steps = chain[c].steps
    BY <1>4, <2>2 DEF Chain, ChainStatuses, ChainFinal
  <2>4. /\ chain' \in [ChainIds -> Chain]
        /\ \A d \in ChainIds : d # c => chain'[d] = chain[d]
        /\ run' = run
    BY <1>4, <2>1, <2>2, <2>3
  <2> QED  BY <1>2, <1>5, <2>3, <2>4, ChainMoves
<1> QED  BY <1>1, <1>3, <1>6, <1>7, <1>8

-----------------------------------------------------------------------------
(* The invariant is kept: what leaves the chains alone *)

LEMMA ChainsRest ==
    ASSUME ChainPart, Keeps, UNCHANGED chainVars
    PROVE  /\ ChainTypeOK'
           /\ StepsFit'
           /\ StepsRan'
           /\ UndoneOrReported'
           /\ ChainIdle' <=> ChainIdle
           /\ Current' = Current
           /\ call'.auto = FALSE => RunFits'
<1> USE DEF ChainPart
<1>1. chain' = chain /\ run' = run  BY DEF chainVars
<1>2. ChainTypeOK' /\ (ChainIdle' <=> ChainIdle) /\ Current' = Current
  BY <1>1 DEF ChainTypeOK, ChainIdle, Current
<1>3. StepsFit'  BY <1>1 DEF StepsFit, TemplateSteps
<1>4. StepsRan'  BY <1>1, StepsKept DEF StepsRan, Over
<1>5. UndoneOrReported'
  <2> SUFFICES ASSUME NEW d \in ChainIds, chain'[d].status = "rolled_back"
               PROVE  \A e \in Range(Front(chain'[d].steps)) :
                        \/ exec'[e].status = "rolled_back"
                        \/ \E r \in ExecIds : /\ exec'[r].reverses = e
                                              /\ exec'[r].auto
                                              /\ exec'[r].status = "failed"
    BY DEF UndoneOrReported
  <2> QED  BY <1>1, ReportsKept
<1>6. call'.auto = FALSE => RunFits'  BY <1>1, <1>2 DEF RunFits
<1> QED  BY <1>2, <1>3, <1>4, <1>5, <1>6

LEMMA StepStartsStep == ASSUME ChainInv, StepStarts PROVE ChainInv'
<1> USE DEF ChainInv, ChainPart
<1>1. PICK r \in ExecIds : r = FreshId  BY StepStartsEngine
<1>2. /\ EngineInv'
      /\ Keeps
      /\ exec[r].status = "absent"
      /\ \A e \in ExecIds : e # r => exec'[e] = exec[e]
      /\ exec'[r].status = "executing"
      /\ exec'[r].reverses = None
      /\ exec'[r].action = CurrentStep.action
  BY <1>1, StepStartsEngine
<1>3. /\ ~ChainIdle /\ Idle /\ ~run.undoing /\ MoreSteps
      /\ call' = StepCall(r, CurrentStep)
      /\ UNCHANGED chainVars
      /\ chain' = chain /\ run' = run
  BY <1>1 DEF StepStarts, chainVars
<1>4. /\ call'.stage = "handler" /\ call'.id = r /\ call'.top = r
      /\ call'.orig = None /\ call'.auto = FALSE
      /\ ~Idle'
  BY <1>3 DEF StepCall, Idle
<1>5. /\ ChainTypeOK' /\ StepsFit' /\ StepsRan' /\ UndoneOrReported' /\ RunFits'
      /\ Current' = Current /\ ~ChainIdle'
  BY <1>2, <1>3, <1>4, ChainsRest
<1>6. \A c \in ChainIds : \A i \in 1 .. Len(chain[c].steps) :
            chain[c].steps[i] \in ExecIds \ {r}
  BY <1>2, ChainTyped DEF StepsRan
<1>7. StepInCall'
  <2>1. run.id \in ChainIds  BY <1>3, ChainTyped
  <2>2. TemplateSteps(run.id)' = TemplateSteps(run.id)  BY <1>3 DEF TemplateSteps
  <2>3. CurrentStep' = CurrentStep /\ MoreSteps' = MoreSteps
    BY <1>5, <2>2 DEF CurrentStep, MoreSteps
  <2> QED  BY <1>2, <1>3, <1>4, <1>5, <1>6, <2>1, <2>3 DEF StepInCall, Current
<1>8. SoFarSoGood'
  <2>1. run.id \in ChainIds  BY <1>3, ChainTyped
  <2>2. \A i \in 1 .. Len(Current.steps) : exec'[Current.steps[i]] = exec[Current.steps[i]]
    BY <1>2, <1>6, <2>1 DEF Current
  <2> QED  BY <1>3, <1>5, <2>2 DEF SoFarSoGood, StepOk, TemplateSteps
<1>9. Owned'
  <2> SUFFICES ASSUME NEW e \in ExecIds, exec'[e].status # "absent", exec'[e].reverses = None
               PROVE  \/ \E c \in ChainIds : \E i \in 1 .. Len(chain[c].steps) :
                            chain[c].steps[i] = e
                      \/ ~ChainIdle' /\ ~Idle' /\ call'.id = e /\ call'.top = e
    BY <1>3 DEF Owned
  <2>1. CASE e = r  BY <2>1, <1>4, <1>5
  <2>2. CASE e # r  BY <2>2, <1>2, <1>3 DEF Owned
  <2> QED  BY <2>1, <2>2
<1>10. UndoFits'  BY <1>3 DEF UndoFits
<1> QED  BY <1>2, <1>5, <1>7, <1>8, <1>9, <1>10

\* Syncs, other writers and the proxy.
LEMMA ChainQuiet ==
    ASSUME ChainPart, UNCHANGED <<exec, call, chainVars>> PROVE ChainPart'
<1> USE DEF ChainPart
<1>1. chain' = chain /\ run' = run /\ exec' = exec /\ call' = call  BY DEF chainVars
<1>2. /\ ChainTypeOK' /\ StepsFit' /\ StepsRan' /\ UndoneOrReported' /\ RunFits'
      /\ Current' = Current /\ ChainIdle' = ChainIdle
  BY <1>1, NothingKeeps, ChainsRest DEF RunFits, ChainIdle
<1>3. Idle' = Idle  BY <1>1 DEF Idle
<1>4. StepInCall'
  BY <1>1, <1>2, <1>3 DEF StepInCall, MoreSteps, CurrentStep, TemplateSteps
<1>5. SoFarSoGood'
  BY <1>1, <1>2 DEF SoFarSoGood, StepOk, TemplateSteps
<1>6. Owned'  BY <1>1, <1>2, <1>3 DEF Owned
<1>7. UndoFits'  BY <1>1, <1>2, <1>3 DEF UndoFits, Undone
<1> QED  BY <1>2, <1>4, <1>5, <1>6, <1>7

\* While no chain runs, nothing in the invariant depends on the call.
LEMMA NoChainRuns ==
    ASSUME ChainPart, ChainIdle, Keeps, UNCHANGED chainVars, call'.auto = FALSE,
           \A e \in ExecIds :
                exec'[e].status # "absent" /\ exec'[e].reverses = None =>
                    exec[e].status # "absent"
    PROVE  ChainPart'
<1> USE DEF ChainPart
<1>1. chain' = chain /\ run' = run /\ run = NoRun  BY DEF chainVars, RunFits
<1>2. /\ ChainTypeOK' /\ StepsFit' /\ StepsRan' /\ UndoneOrReported' /\ RunFits'
      /\ ChainIdle'
  BY ChainsRest
<1>3. Owned'  BY <1>1, <1>2 DEF Owned, Keeps
<1>4. StepInCall' /\ SoFarSoGood'  BY <1>2 DEF StepInCall, SoFarSoGood
<1>5. UndoFits'  BY <1>1 DEF UndoFits, NoRun
<1> QED  BY <1>2, <1>3, <1>4, <1>5

LEMMA RollbackByHandStep == ASSUME ChainInv, RollbackByHand PROVE ChainInv'
<1> USE DEF ChainInv
<1>1. FreshId \in ExecIds /\ exec[FreshId].status = "absent"
  BY FreshIdIsFree DEF RollbackByHand
<1>2. PICK e \in ExecIds, r \in ExecIds : r = FreshId /\ Rollback(e, r, Snapshot)
  BY <1>1 DEF RollbackByHand
<1>3. EngineInv'
  <2>1. TypeInv'  BY <1>2, SnapshotType, CommandType DEF EngineInv, TypeInv
  <2> QED  BY <1>2, <2>1, RollbackStep DEF EngineInv, Control
<1>4. /\ exec' = [exec EXCEPT ![r] = Reversal(e, FALSE)]
      /\ call'.auto = FALSE
      /\ ChainIdle
      /\ UNCHANGED chainVars
  BY <1>2 DEF Rollback, ReverseCall, RollbackByHand
<1>5. /\ Keeps
      /\ exec'[r] = Reversal(e, FALSE)
      /\ \A x \in ExecIds : x # r => exec'[x] = exec[x]
  BY <1>1, <1>2, <1>4, NewIdKeeps DEF EngineInv
<1>6. exec'[r].reverses = e /\ e # None
  BY <1>5, IdsAssumption DEF Reversal, Fresh
<1>7. ChainPart'  BY <1>4, <1>5, <1>6, NoChainRuns
<1> QED  BY <1>3, <1>7

\* An answer of the executor or of the verifier, under a chain.
LEMMA AnswerUnderChain ==
    ASSUME EngineInv, ChainPart, UNCHANGED chainVars,
           \/ HandlerRefused \/ HandlerSucceeds \/ HandlerUpstreamError
           \/ VerifySettles
    PROVE  ChainPart'
<1> USE DEF ChainPart
<1>1. /\ ~Idle
      /\ call.id \in ExecIds
      /\ exec[call.id].status # "absent"
  <2>1. call.stage \in {"handler", "verify"}
    BY DEF HandlerRefused, HandlerSucceeds, HandlerUpstreamError, VerifySettles
  <2>2. ~Idle /\ call.id \in ExecIds  BY <2>1, Typed DEF EngineInv, Idle
  <2> QED  BY <2>1, <2>2 DEF EngineInv, StageFits, Done
<1>2. PICK e \in ExecIds : e = call.id  BY <1>1
<1>3. /\ call'.stage \in {"verify", "return"}
      /\ call' = [call EXCEPT !.stage = call'.stage]
      /\ exec'[e].action = exec[e].action
      /\ exec'[e].reverses = exec[e].reverses
      /\ exec'[e].auto = exec[e].auto
      /\ \A x \in ExecIds : x # e => exec'[x] = exec[x]
      /\ \/ call.stage = "handler" /\ exec'[e].status \in {"succeeded", "failed"}
         \/ call.stage = "verify" /\ exec'[e].status = exec[e].status
  BY <1>2, EngineFrame DEF EngineInv
<1>4. /\ ~Idle'
      /\ call'.id = e /\ call'.orig = call.orig /\ call'.top = call.top
      /\ call'.auto = call.auto
  BY <1>2, <1>3 DEF EngineInv, TypeInv, TypeOK, Call, Idle
<1>5. chain' = chain /\ run' = run  BY DEF chainVars
<1>6. Keeps  BY AnswerKeeps
<1>7. /\ ChainTypeOK' /\ StepsFit' /\ StepsRan' /\ UndoneOrReported' /\ RunFits'
      /\ Current' = Current
      /\ ChainIdle' <=> ChainIdle
  BY <1>4, <1>6, ChainsRest DEF RunFits
<1>8. StepInCall'
  <2>1. CurrentStep' = CurrentStep /\ MoreSteps' = MoreSteps
    BY <1>5, <1>7 DEF CurrentStep, MoreSteps, TemplateSteps
  <2>2. ~ChainIdle /\ ~run.undoing =>
            exec'[e].status \in {"succeeded", "failed"}
    BY <1>1, <1>2, <1>3 DEF StepInCall
  <2> QED  BY <1>1, <1>2, <1>3, <1>4, <1>5, <1>7, <2>1, <2>2 DEF StepInCall
<1>9. SoFarSoGood'
  <2> SUFFICES ASSUME ~ChainIdle, ~run.undoing, ~run.failed,
                      NEW i \in 1 .. Len(Current.steps)
               PROVE  StepOk(Current.steps[i], TemplateSteps(run.id)[i])'
    BY <1>5, <1>7 DEF SoFarSoGood
  <2>1. Current.steps[i] \in ExecIds /\ Current.steps[i] # e
    BY <1>1, <1>2, ChainTyped DEF StepInCall, Current
  <2>2. exec'[Current.steps[i]] = exec[Current.steps[i]]  BY <1>3, <2>1
  <2>3. StepOk(Current.steps[i], TemplateSteps(run.id)[i])  BY DEF SoFarSoGood
  <2> QED  BY <1>5, <1>7, <2>2, <2>3 DEF StepOk, TemplateSteps
<1>10. Owned'
  <2> SUFFICES ASSUME NEW x \in ExecIds, exec'[x].status # "absent", exec'[x].reverses = None
               PROVE  \/ \E c \in ChainIds : \E i \in 1 .. Len(chain[c].steps) :
                            chain[c].steps[i] = x
                      \/ ~ChainIdle' /\ ~Idle' /\ call'.id = x /\ call'.top = x
    BY <1>5 DEF Owned
  <2>1. exec[x].status # "absent" /\ exec[x].reverses = None
    BY <1>1, <1>2, <1>3
  <2> QED  BY <2>1, <1>2, <1>4, <1>7 DEF Owned
<1>11. UndoFits'
  <2> SUFFICES ASSUME run.undoing
               PROVE  /\ run.undo < Len(Current.steps)
                      /\ \A i \in 1 .. run.undo : exec'[Current.steps[i]].status = "succeeded"
                      /\ \A i \in (run.undo + 1) .. (Len(Current.steps) - 1) :
                            Undone(Current.steps[i])' \/ i = run.undo + 1
                      /\ run.undo + 1 < Len(Current.steps)
                      /\ call'.orig = Current.steps[run.undo + 1]
                      /\ exec'[call'.id].auto
    BY <1>4, <1>5, <1>7 DEF UndoFits, Undone
  <2>1. PICK c \in ChainIds : c = run.id  BY ChainTyped DEF RunFits, NoRun
  <2>2. /\ run.undo \in Nat /\ Len(chain[c].steps) \in Nat
        /\ run.undo + 1 < Len(chain[c].steps)
        /\ call.orig = chain[c].steps[run.undo + 1]
        /\ exec[e].auto
    BY <1>1, <1>2, <2>1, ChainTyped DEF UndoFits, Current
  <2>3. run.undo + 1 \in 1 .. Len(chain[c].steps)  BY <2>2
  <2>4. call.orig \in ExecIds /\ exec[e].reverses = call.orig /\ call.orig # None
    BY <1>2, <2>2, <2>3, ChainTyped, Typed DEF EngineInv, CallKnows
  <2>5. \A i \in 1 .. Len(chain[c].steps) :
            /\ chain[c].steps[i] \in ExecIds
            /\ exec'[chain[c].steps[i]] = exec[chain[c].steps[i]]
    <3> TAKE i \in 1 .. Len(chain[c].steps)
    <3>1. PICK x \in ExecIds : x = chain[c].steps[i]  BY ChainTyped
    <3>2. exec[x].reverses = None  BY <3>1 DEF StepsRan
    <3>3. x # e  BY <3>2, <2>4
    <3> QED  BY <1>3, <3>1, <3>3
  <2>6. ASSUME NEW i \in (run.undo + 1) .. (Len(chain[c].steps) - 1), i # run.undo + 1
        PROVE  Undone(chain[c].steps[i])'
    <3>1. i \in 1 .. Len(chain[c].steps)  BY <2>2
    <3>2. PICK r \in ExecIds :
            /\ exec[r].reverses = chain[c].steps[i]
            /\ exec[r].auto
            /\ \/ exec[r].status = "failed"
               \/ /\ exec[r].status = "succeeded"
                  /\ exec[chain[c].steps[i]].status = "rolled_back"
      BY <2>1, <2>6 DEF UndoFits, Current, Undone
    <3>3. chain[c].steps[i] # call.orig  BY <2>2, <2>3, <2>6, <3>1 DEF StepsRan
    <3>4. r # e  BY <2>4, <3>2, <3>3
    <3>5. exec'[r] = exec[r]  BY <1>3, <3>4
    <3> QED  BY <1>5, <2>5, <3>1, <3>2, <3>5 DEF Undone
  <2>7. \A i \in 1 .. run.undo : exec'[chain[c].steps[i]].status = "succeeded"
    <3>1. \A i \in 1 .. run.undo : i \in 1 .. Len(chain[c].steps)  BY <2>2
    <3> QED  BY <2>1, <2>5, <3>1 DEF UndoFits, Current
  <2>8. exec'[call'.id].auto /\ call'.orig = call.orig  BY <1>3, <1>4, <2>2
  <2> QED  BY <1>5, <1>7, <2>1, <2>2, <2>6, <2>7, <2>8 DEF Current
<1> QED  BY <1>7, <1>8, <1>9, <1>10, <1>11

LEMMA EngineUnderChainStep == ASSUME ChainInv, EngineUnderChain PROVE ChainInv'
<1> USE DEF ChainInv
<1>1. EngineStep /\ UNCHANGED chainVars  BY DEF EngineUnderChain
<1>2. EngineInv'
  BY <1>1, EngineStepType, EngineStepControl DEF EngineInv, Control
<1>3. CASE HandlerRefused \/ HandlerSucceeds \/ HandlerUpstreamError \/ VerifySettles
  BY <1>1, <1>2, <1>3, AnswerUnderChain
<1>4. ASSUME NEW r \in ExecIds, VerifyRollsBack(r) PROVE FALSE
  BY <1>4 DEF VerifyRollsBack, WantsAutoRollback, ChainPart, RunFits
<1>5. CASE Return
  <2>1. call.stage = "return" /\ exec' = Settled /\ ChainIdle /\ call'.auto = FALSE
    BY <1>5 DEF Return, NoCall, EngineUnderChain
  <2>2. Keeps  BY <2>1, SettledKeeps
  <2>3. ASSUME NEW e \in ExecIds, exec'[e].status # "absent"
        PROVE  exec[e].status # "absent"
    BY <2>1, <2>3, SettledKeeps, Typed DEF EngineInv, CallKnows
  <2>4. ChainPart'  BY <1>1, <2>1, <2>2, <2>3, NoChainRuns
  <2> QED  BY <1>2, <2>4
<1> QED  BY <1>1, <1>3, <1>4, <1>5 DEF EngineStep

-----------------------------------------------------------------------------
(* The invariant is kept: the end of a step *)

\* What the four answers to a step that is over have in common.
LEMMA StepIsAdded ==
    ASSUME EngineInv, ChainPart, StepIsOver, exec' = exec, call' = NoCall,
           NEW c \in ChainIds, c = run.id,
           chain' \in [ChainIds -> Chain],
           \A d \in ChainIds : d # c => chain'[d] = chain[d],
           chain'[c].steps = StepsWithThis,
           chain'[c].template = chain[c].template,
           chain'[c].approved = chain[c].approved,
           chain'[c].status \in {"executing", "partial"},
           run' \in Run
    PROVE  /\ ChainTypeOK' /\ StepsFit' /\ StepsRan' /\ Owned' /\ UndoneOrReported'
           /\ StepInCall' /\ Idle' /\ call'.auto = FALSE
           /\ Len(chain'[c].steps) = Len(chain[c].steps) + 1
           /\ \A i \in 1 .. Len(chain[c].steps) : chain'[c].steps[i] = chain[c].steps[i]
           /\ chain'[c].steps[Len(chain[c].steps) + 1] = call.id
<1> USE DEF ChainPart
<1> DEFINE n == Len(chain[c].steps)
<1>1. ~ChainIdle /\ ~run.undoing /\ ~Idle /\ call.stage = "return" /\ Current = chain[c]
  BY DEF StepIsOver, Idle, Current
<1>2. PICK e \in ExecIds : e = call.id  BY <1>1, Typed DEF EngineInv
<1>3. /\ n < Len(TemplateSteps(c))
      /\ call.top = e
      /\ exec[e].status \in {"succeeded", "failed"}
      /\ exec[e].reverses = None
      /\ exec[e].action = TemplateSteps(c)[n + 1].action
      /\ \A i \in 1 .. n : chain[c].steps[i] # e
  BY <1>1, <1>2 DEF StepInCall, MoreSteps, CurrentStep
<1>4. chain'[c].steps = Append(chain[c].steps, e)  BY <1>1, <1>2 DEF StepsWithThis
<1>5. /\ n \in Nat
      /\ chain'[c].steps # <<>>
      /\ Len(chain'[c].steps) = n + 1
      /\ \A i \in 1 .. n : chain'[c].steps[i] = chain[c].steps[i]
      /\ chain'[c].steps[n + 1] = e
      /\ \A i \in 1 .. (n + 1) : i \in 1 .. n \/ i = n + 1
  <2>1. chain[c].steps \in Seq(ExecIds) /\ n \in Nat  BY ChainTyped
  <2>2. chain'[c].steps # <<>> /\ Len(chain'[c].steps) = n + 1
    BY <1>4, <2>1, AppendedSteps
  <2>3. /\ \A i \in 1 .. n : chain'[c].steps[i] = chain[c].steps[i]
        /\ chain'[c].steps[n + 1] = e
        /\ \A i \in 1 .. (n + 1) : i \in 1 .. n \/ i = n + 1
    BY SMTT(30), <1>4, <2>1, AppendedSteps
  <2> QED  BY <2>1, <2>2, <2>3
<1> HIDE DEF n
<1>6. ChainTypeOK'  BY DEF ChainTypeOK
<1>7. TemplateSteps(c)' = TemplateSteps(c)  BY DEF TemplateSteps
<1>8. Keeps  BY NothingKeeps
<1>9. StepsFit'
  <2> SUFFICES ASSUME NEW d \in ChainIds
               PROVE  /\ chain'[d].status \in {"absent", "awaiting_approval"} =>
                            chain'[d].steps = <<>>
                      /\ chain'[d].steps # <<>> => chain'[d].approved
                      /\ Len(chain'[d].steps) <= Len(TemplateSteps(d)')
    BY DEF StepsFit
  <2>1. CASE d = c
    <3>1. chain'[c].approved  BY <1>1 DEF RunFits
    <3>2. Len(TemplateSteps(c)) \in Nat  BY ChainTyped
    <3> QED  BY <2>1, <3>1, <3>2, <1>3, <1>5, <1>7
  <2>2. CASE d # c  BY <2>2 DEF StepsFit, TemplateSteps
  <2> QED  BY <2>1, <2>2
<1>10. StepsRan'
  <2> SUFFICES ASSUME NEW d \in ChainIds, NEW i \in 1 .. Len(chain'[d].steps)
               PROVE  LET x == chain'[d].steps[i] IN
                      /\ exec[x].status \in Over
                      /\ exec[x].reverses = None
                      /\ exec[x].action = TemplateSteps(d)'[i].action
                      /\ \A j \in 1 .. Len(chain'[d].steps) :
                            chain'[d].steps[j] = x => j = i
    BY DEF StepsRan, Over
  <2>1. CASE d # c  BY <2>1, <1>8, StepsKept
  <2>2. CASE d = c /\ i = n + 1
    <3>1. chain'[d].steps[i] = e  BY <2>2, <1>5
    <3>2. \A j \in 1 .. (n + 1) : chain'[d].steps[j] = e => j = i
      BY <2>2, <1>3, <1>5
    <3> QED  BY <2>2, <3>1, <3>2, <1>3, <1>5, <1>7 DEF Over
  <2>3. CASE d = c /\ i # n + 1
    <3>1. PICK x \in ExecIds : x = chain[c].steps[i] /\ i \in 1 .. n
      BY <2>3, <1>5, ChainTyped DEF n
    <3>2. /\ exec[x].status \in Over
          /\ exec[x].reverses = None
          /\ exec[x].action = TemplateSteps(c)[i].action
          /\ \A j \in 1 .. n : chain[c].steps[j] = x => j = i
      BY <3>1 DEF StepsRan, Over, n
    <3>3. chain'[c].steps[i] = x  BY <1>5, <3>1
    <3>4. x # e  BY <1>3, <3>1
    <3>5. \A j \in 1 .. (n + 1) : chain'[c].steps[j] = x => j = i
      BY <1>5, <3>2, <3>4
    <3> QED  BY <2>3, <3>2, <3>3, <3>5, <1>5, <1>7
  <2> QED  BY <2>1, <2>2, <2>3
<1>11. Owned'
  <2> SUFFICES ASSUME NEW x \in ExecIds, exec[x].status # "absent", exec[x].reverses = None
               PROVE  \E d \in ChainIds : \E i \in 1 .. Len(chain'[d].steps) :
                            chain'[d].steps[i] = x
    BY DEF Owned
  <2>1. CASE x = e
    <3>1. n + 1 \in 1 .. Len(chain'[c].steps)  BY <1>5
    <3> QED  BY <2>1, <3>1, <1>5
  <2>2. CASE x # e
    <3>1. PICK d \in ChainIds :
            \E i \in 1 .. Len(chain[d].steps) : chain[d].steps[i] = x
      BY <2>2, <1>2 DEF Owned
    <3>2. CASE d # c  BY <3>1, <3>2
    <3>3. CASE d = c
      <4>1. PICK i \in 1 .. n : chain[c].steps[i] = x  BY <3>1, <3>3 DEF n
      <4>2. i \in 1 .. Len(chain'[c].steps)  BY <1>5, <4>1
      <4> QED  BY <1>5, <4>1, <4>2
    <3> QED  BY <3>2, <3>3
  <2> QED  BY <2>1, <2>2
<1>12. UndoneOrReported'
  <2> SUFFICES ASSUME NEW d \in ChainIds, chain'[d].status = "rolled_back"
               PROVE  \A x \in Range(Front(chain'[d].steps)) :
                        \/ exec'[x].status = "rolled_back"
                        \/ \E r \in ExecIds : /\ exec'[r].reverses = x
                                              /\ exec'[r].auto
                                              /\ exec'[r].status = "failed"
    BY DEF UndoneOrReported
  <2>1. d # c  OBVIOUS
  <2> QED  BY <1>8, <2>1, ReportsKept
<1>13. Idle' /\ call'.auto = FALSE  BY DEF Idle, NoCall
<1>14. StepInCall'  BY <1>13 DEF StepInCall
<1> QED
  BY <1>2, <1>5, <1>6, <1>9, <1>10, <1>11, <1>12, <1>13, <1>14 DEF n

LEMMA StepOverStep ==
    ASSUME ChainInv,
           StepPasses \/ StepFailsContinue \/ StepFailsStop \/ StepFailsRollbackAll
    PROVE  ChainInv'
<1> USE DEF ChainInv
<1>1. StepIsOver /\ exec' = exec /\ call' = NoCall
  BY DEF StepPasses, StepFailsContinue, StepFailsStop, StepFailsRollbackAll
<1>2. ~ChainIdle /\ ~run.undoing  BY <1>1 DEF StepIsOver
<1>3. PICK c \in ChainIds : c = run.id  BY <1>2, ChainTyped DEF ChainPart
<1>4. /\ Current = chain[c] /\ chain[c] \in Chain /\ chain \in [ChainIds -> Chain]
      /\ chain[c].status = "executing" /\ chain[c].approved
      /\ chain[c].steps \in Seq(ExecIds) /\ run \in Run
  BY <1>2, <1>3, ChainTyped DEF ChainPart, ChainTypeOK, RunFits, Current
<1>5. PICK status \in {"executing", "partial"} :
        /\ chain' = [chain EXCEPT ![c] =
                        [chain[c] EXCEPT !.steps = StepsWithThis, !.status = status]]
        /\ status = "partial" <=> StepFailsStop
  <2>1. StepFailsStop => chain' = [chain EXCEPT ![c] =
                [chain[c] EXCEPT !.steps = StepsWithThis, !.status = "partial"]]
    BY <1>3, <1>4 DEF StepFailsStop
  <2>2. StepPasses \/ StepFailsContinue \/ StepFailsRollbackAll =>
            chain' = [chain EXCEPT ![c] =
                [chain[c] EXCEPT !.steps = StepsWithThis, !.status = "executing"]]
    <3>1. [chain[c] EXCEPT !.steps = StepsWithThis]
            = [chain[c] EXCEPT !.steps = StepsWithThis, !.status = "executing"]
      BY <1>4 DEF Chain
    <3>2. StepPasses \/ StepFailsContinue \/ StepFailsRollbackAll =>
            chain' = [chain EXCEPT ![c] = [chain[c] EXCEPT !.steps = StepsWithThis]]
      BY <1>3, <1>4 DEF StepPasses, StepFailsContinue, StepFailsRollbackAll
    <3> QED  BY <3>1, <3>2
  <2>3. StepFailsStop => ~(StepPasses \/ StepFailsContinue \/ StepFailsRollbackAll)
    BY DEF StepFailsStop, StepPasses, StepFailsContinue, StepFailsRollbackAll
  <2> QED  BY <2>1, <2>2, <2>3
<1>6. StepsWithThis \in Seq(ExecIds)
  <2>1. call.id \in ExecIds  BY <1>1, Typed DEF StepIsOver, EngineInv, Idle
  <2> QED  BY <1>4, <2>1, AppendedSteps DEF StepsWithThis
<1>7. /\ [chain[c] EXCEPT !.steps = StepsWithThis, !.status = status] \in Chain
      /\ chain'[c].steps = StepsWithThis
      /\ chain'[c].status = status
      /\ chain'[c].template = chain[c].template
      /\ chain'[c].approved = chain[c].approved
      /\ chain'[c].onFailure = chain[c].onFailure
  BY <1>4, <1>5, <1>6 DEF Chain, ChainStatuses, ChainFinal
<1>8. /\ chain' \in [ChainIds -> Chain]
      /\ \A d \in ChainIds : d # c => chain'[d] = chain[d]
  BY <1>4, <1>5, <1>7
<1>9. run' \in Run
  <2>1. NoRun \in Run  BY DEF NoRun, Run
  <2>2. Len(chain[c].steps) \in Nat  BY ChainTyped DEF ChainPart
  <2> QED
    BY <1>4, <2>1, <2>2 DEF StepPasses, StepFailsContinue, StepFailsStop,
       StepFailsRollbackAll, Run
<1>10. EngineInv'  BY StepOverEngine
<1>11. /\ ChainTypeOK' /\ StepsFit' /\ StepsRan' /\ Owned' /\ UndoneOrReported'
       /\ StepInCall' /\ Idle' /\ call'.auto = FALSE
       /\ Len(chain'[c].steps) = Len(chain[c].steps) + 1
       /\ \A i \in 1 .. Len(chain[c].steps) : chain'[c].steps[i] = chain[c].steps[i]
       /\ chain'[c].steps[Len(chain[c].steps) + 1] = call.id
  BY <1>1, <1>3, <1>7, <1>8, <1>9, StepIsAdded
<1>12. RunFits' /\ SoFarSoGood' /\ UndoFits'
  <2>1. TemplateSteps(c)' = TemplateSteps(c)  BY <1>7 DEF TemplateSteps
  <2>2. Len(chain[c].steps) \in Nat  BY ChainTyped DEF ChainPart
  <2>3. \A i \in 1 .. (Len(chain[c].steps) + 1) :
            i \in 1 .. Len(chain[c].steps) \/ i = Len(chain[c].steps) + 1
    BY <2>2
  <2>4. CASE StepFailsStop
    <3>1. run' = NoRun  BY <2>4 DEF StepFailsStop
    <3> QED  BY <3>1, <1>11 DEF RunFits, SoFarSoGood, UndoFits, NoRun, ChainIdle
  <2>5. CASE ~StepFailsStop
    <3>1. status = "executing"  BY <1>5, <2>5
    <3>2. /\ run'.id = c /\ ~ChainIdle' /\ Current' = chain'[c]
          /\ run'.undoing <=> StepFailsRollbackAll
          /\ run'.failed => run.failed \/ chain[c].onFailure = "continue"
      BY <1>2, <1>3, <1>4, <2>5
      DEF StepPasses, StepFailsContinue, StepFailsRollbackAll, Run, ChainIdle, Current
    <3>3. run.failed => chain[c].onFailure = "continue"
      BY <1>2, <1>4 DEF ChainPart, RunFits
    <3>4. RunFits'
      BY <1>4, <1>7, <1>11, <3>1, <3>2, <3>3 DEF RunFits
    <3>5. SoFarSoGood'
      <4> SUFFICES ASSUME ~run'.undoing, ~run'.failed,
                          NEW i \in 1 .. (Len(chain[c].steps) + 1)
                   PROVE  StepOk(chain'[c].steps[i], TemplateSteps(c)[i])
        BY <1>1, <1>11, <2>1, <3>2 DEF SoFarSoGood, StepOk
      <4>1. StepPasses /\ ~run.failed
        BY <2>5, <3>2, <1>4 DEF StepPasses, StepFailsContinue, Run
      <4>2. StepOk(call.id, TemplateSteps(c)[Len(chain[c].steps) + 1])
        BY <4>1, <1>3, <1>4 DEF StepPasses, StepSucceeded, CurrentStep
      <4>3. \A j \in 1 .. Len(chain[c].steps) :
                StepOk(chain[c].steps[j], TemplateSteps(c)[j])
        BY <4>1, <1>2, <1>3, <1>4 DEF ChainPart, SoFarSoGood
      <4> QED  BY <4>2, <4>3, <1>11, <2>3
    <3>6. UndoFits'
      <4> SUFFICES ASSUME StepFailsRollbackAll PROVE UndoFits'
        BY <3>2 DEF UndoFits
      <4>1. run'.undo = Len(chain[c].steps)
        BY <1>4 DEF StepFailsRollbackAll, Run
      <4>2. ~run.failed  BY <1>4, <3>3 DEF StepFailsRollbackAll
      <4>3. \A j \in 1 .. Len(chain[c].steps) : exec[chain[c].steps[j]].status = "succeeded"
        BY <4>2, <1>2, <1>3, <1>4 DEF ChainPart, SoFarSoGood, StepOk
      <4> QED  BY SMTT(30), <1>1, <1>11, <2>2, <3>2, <4>1, <4>3 DEF UndoFits
    <3> QED  BY <3>4, <3>5, <3>6
  <2> QED  BY <2>4, <2>5
<1> QED  BY <1>10, <1>11, <1>12 DEF ChainPart

-----------------------------------------------------------------------------
(* The invariant is kept: the end of a chain *)

LEMMA VerdictIsGiven ==
    ASSUME ChainPart, ~ChainIdle, Idle, exec' = exec, call' = call, run' = NoRun,
           NEW c \in ChainIds, c = run.id, NEW s \in ChainFinal,
           chain' = [chain EXCEPT ![c].status = s],
           s = "rolled_back" =>
                \A e \in Range(Front(chain[c].steps)) :
                    \/ exec[e].status = "rolled_back"
                    \/ \E r \in ExecIds : /\ exec[r].reverses = e
                                          /\ exec[r].auto
                                          /\ exec[r].status = "failed"
    PROVE  ChainPart'
<1> USE DEF ChainPart
<1>1. NoRun \in Run /\ NoRun.id = None /\ ~NoRun.undoing  BY DEF NoRun, Run
<1>2. ChainIdle' /\ Idle'  BY <1>1 DEF ChainIdle, Idle
<1>3. /\ \A d \in ChainIds : d # c => chain'[d] = chain[d]
      /\ chain'[c] = [chain[c] EXCEPT !.status = s]
  BY DEF ChainTypeOK
<1>4. /\ chain'[c] \in Chain
      /\ chain'[c].status = s
      /\ chain'[c].steps = chain[c].steps
      /\ chain'[c].template = chain[c].template
      /\ chain'[c].approved = chain[c].approved
  <2>1. chain[c] \in Chain /\ s \in ChainStatuses  BY ChainTyped DEF ChainStatuses
  <2> QED  BY <1>3, <2>1 DEF Chain
<1>5. ChainTypeOK'
  BY <1>1, <1>3, <1>4 DEF ChainTypeOK
<1>6. /\ \A d \in ChainIds : /\ chain'[d].steps = chain[d].steps
                             /\ chain'[d].template = chain[d].template
                             /\ TemplateSteps(d)' = TemplateSteps(d)
      /\ Keeps
  BY <1>3, <1>4, NothingKeeps DEF TemplateSteps
<1>7. RunFits'  BY <1>2 DEF RunFits
<1>8. StepsFit'
  <2> SUFFICES ASSUME NEW d \in ChainIds
               PROVE  /\ chain'[d].status \in {"absent", "awaiting_approval"} =>
                            chain'[d].steps = <<>>
                      /\ chain'[d].steps # <<>> => chain'[d].approved
                      /\ Len(chain'[d].steps) <= Len(TemplateSteps(d)')
    BY DEF StepsFit
  <2>1. s \notin {"absent", "awaiting_approval"}  BY DEF ChainFinal
  <2> QED  BY <1>3, <1>4, <1>6, <2>1 DEF StepsFit
<1>9. StepsRan'  BY <1>6, StepsKept DEF StepsRan, Over
<1>10. StepInCall' /\ SoFarSoGood'  BY <1>2 DEF StepInCall, SoFarSoGood
<1>11. Owned'  BY <1>6 DEF Owned
<1>12. UndoFits'  BY <1>1 DEF UndoFits
<1>13. UndoneOrReported'
  <2> SUFFICES ASSUME NEW d \in ChainIds, chain'[d].status = "rolled_back"
               PROVE  \A e \in Range(Front(chain'[d].steps)) :
                        \/ exec'[e].status = "rolled_back"
                        \/ \E r \in ExecIds : /\ exec'[r].reverses = e
                                              /\ exec'[r].auto
                                              /\ exec'[r].status = "failed"
    BY DEF UndoneOrReported
  <2>1. CASE d = c  BY <2>1, <1>4
  <2>2. CASE d # c  BY <2>2, <1>3, <1>6, ReportsKept
  <2> QED  BY <2>1, <2>2
<1> QED
  BY <1>5, <1>7, <1>8, <1>9, <1>10, <1>11, <1>12, <1>13

LEMMA ChainFinishesStep == ASSUME ChainInv, ChainFinishes PROVE ChainInv'
<1> USE DEF ChainInv
<1>1. /\ ~ChainIdle /\ Idle /\ run' = NoRun
      /\ UNCHANGED <<exec, call, envVars>> /\ twin' = NoTwin
  BY DEF ChainFinishes
<1>2. EngineInv'  BY <1>1, NoTwinType, EngineRests
<1>3. PICK c \in ChainIds : c = run.id  BY <1>1, ChainTyped DEF ChainPart
<1>4. PICK s \in {"partial", "succeeded"} : chain' = [chain EXCEPT ![c].status = s]
  BY <1>3 DEF ChainFinishes
<1>5. s \in ChainFinal /\ s # "rolled_back"  BY DEF ChainFinal
<1>6. ChainPart'  BY <1>1, <1>3, <1>4, <1>5, VerdictIsGiven
<1> QED  BY <1>2, <1>6

\* Every step but the last one can be reversed, so run.undo is 0 by now and all of
\* them have been gone over.
LEMMA UndoFinishesStep == ASSUME ChainInv, UndoFinishes PROVE ChainInv'
<1> USE DEF ChainInv, ChainPart
<1>1. /\ run.undoing /\ Idle /\ run' = NoRun
      /\ UNCHANGED <<exec, call, envVars>> /\ twin' = NoTwin
  BY DEF UndoFinishes
<1>2. EngineInv'  BY <1>1, NoTwinType, EngineRests
<1>3. ~ChainIdle  BY <1>1 DEF RunFits, NoRun
<1>4. PICK c \in ChainIds : c = run.id  BY <1>3, ChainTyped
<1>5. /\ Len(chain[c].steps) \in Nat /\ run.undo \in Nat
      /\ run.undo < Len(chain[c].steps)
      /\ Len(chain[c].steps) <= Len(TemplateSteps(c))
      /\ Len(TemplateSteps(c)) \in Nat
  BY <1>1, <1>4, ChainTyped DEF UndoFits, StepsFit, Current
<1>6. run.undo = 0
  <2> SUFFICES ASSUME run.undo > 0 PROVE FALSE  BY <1>5
  <2>1. 1 \in 1 .. run.undo /\ 1 \in 1 .. Len(chain[c].steps)
        /\ 1 \in 1 .. (Len(TemplateSteps(c)) - 1)
    BY <1>5
  <2>2. exec[chain[c].steps[1]].status = "succeeded"
    BY <1>1, <1>4, <2>1 DEF UndoFits, Current
  <2>3. exec[chain[c].steps[1]].action = TemplateSteps(c)[1].action
    BY <2>1 DEF StepsRan
  <2>4. Reversible(TemplateSteps(c)[1].action)
    BY <2>1, TemplateTable, ChainTyped DEF TemplateSteps
  <2>5. CanUndo(1)  BY <1>4, <2>2, <2>3, <2>4 DEF CanUndo, Current
  <2> QED  BY <2>1, <2>5 DEF UndoFinishes
<1>7. ASSUME NEW e \in Range(Front(chain[c].steps))
      PROVE  \/ exec[e].status = "rolled_back"
             \/ \E r \in ExecIds : /\ exec[r].reverses = e
                                   /\ exec[r].auto
                                   /\ exec[r].status = "failed"
  <2>1. PICK i \in 1 .. (Len(chain[c].steps) - 1) : e = chain[c].steps[i]
    BY ChainTyped, FrontOfSteps
  <2>2. i \in (run.undo + 1) .. (Len(chain[c].steps) - 1)  BY <1>5, <1>6
  <2>3. Undone(chain[c].steps[i])  BY <1>1, <1>4, <2>2 DEF UndoFits, Current
  <2> QED  BY <2>1, <2>3 DEF Undone
<1>8. PICK s \in ChainFinal :
        s = "rolled_back" /\ chain' = [chain EXCEPT ![c].status = s]
  BY <1>4 DEF UndoFinishes, ChainFinal
<1>9. ChainPart'
  <2> HIDE DEF ChainPart
  <2> QED  BY <1>1, <1>3, <1>4, <1>7, <1>8, VerdictIsGiven DEF ChainPart
<1> QED  BY <1>2, <1>9

-----------------------------------------------------------------------------
(* The invariant is kept: rollback_all *)

\* The steps below the failed one are all there to be undone, so the one that is
\* next is the newest that has not been looked at.
LEMMA NextIsNewest ==
    ASSUME ChainInv, run.undoing, NEW i \in 1 .. run.undo, NextToUndo(i)
    PROVE  i = run.undo
<1> USE DEF ChainInv, ChainPart
<1>1. ~ChainIdle  BY DEF RunFits, NoRun
<1>2. PICK c \in ChainIds : c = run.id  BY <1>1, ChainTyped
<1>3. /\ Len(chain[c].steps) \in Nat /\ run.undo \in Nat
      /\ run.undo < Len(chain[c].steps)
      /\ Len(chain[c].steps) <= Len(TemplateSteps(c))
      /\ Len(TemplateSteps(c)) \in Nat
  BY <1>2, ChainTyped DEF UndoFits, StepsFit, Current
<1> DEFINE u == run.undo
<1>4. u \in 1 .. u /\ u \in 1 .. Len(chain[c].steps)
      /\ u \in 1 .. (Len(TemplateSteps(c)) - 1)
  BY <1>3
<1>5. exec[chain[c].steps[u]].status = "succeeded"
  BY <1>2, <1>4 DEF UndoFits, Current
<1>6. exec[chain[c].steps[u]].action = TemplateSteps(c)[u].action
  BY <1>4 DEF StepsRan
<1>7. Reversible(TemplateSteps(c)[u].action)
  BY <1>4, TemplateTable, ChainTyped DEF TemplateSteps
<1>8. CanUndo(u)  BY <1>2, <1>5, <1>6, <1>7 DEF CanUndo, Current
<1>9. i < u => u \in (i + 1) .. u  BY <1>3
<1> QED  BY <1>3, <1>8, <1>9 DEF NextToUndo

LEMMA UndoStartsStep == ASSUME ChainInv, UndoStarts PROVE ChainInv'
<1> USE DEF ChainInv, ChainPart
<1>1. PICK i \in 1 .. run.undo :
        /\ NextToUndo(i)
        /\ exec' = [exec EXCEPT ![FreshId] = Reversal(Current.steps[i], TRUE)]
        /\ call' = ReverseCall(FreshId, FreshId, Current.steps[i], TRUE)
        /\ run' = [run EXCEPT !.undo = i - 1]
  BY DEF UndoStarts
<1>2. run.undoing /\ Idle /\ chain' = chain  BY DEF UndoStarts
<1>3. i = run.undo  BY <1>1, <1>2, NextIsNewest
<1>4. PICK r \in ExecIds : r = FreshId  BY <1>1, UndoStartsEngine
<1>5. PICK o \in ExecIds : o = Current.steps[i]  BY <1>1, UndoStartsEngine
<1>6. /\ EngineInv'
      /\ Keeps
      /\ exec[r].status = "absent"
      /\ \A e \in ExecIds : e # r => exec'[e] = exec[e]
      /\ exec'[r].reverses = o
      /\ exec'[r].auto
  BY <1>1, <1>4, <1>5, UndoStartsEngine
<1>7. /\ ~Idle' /\ call'.id = r /\ call'.orig = o /\ call'.auto = FALSE
  BY <1>1, <1>4, <1>5 DEF ReverseCall, Idle
<1>8. ~ChainIdle  BY <1>2 DEF RunFits, NoRun
<1>9. PICK c \in ChainIds : c = run.id  BY <1>8, ChainTyped
<1>10. /\ run.undo \in Nat /\ i - 1 \in Nat
       /\ Len(chain[c].steps) \in Nat /\ run.undo < Len(chain[c].steps)
  BY <1>2, <1>3, <1>9, ChainTyped DEF UndoFits, Current
<1>11. /\ run' \in Run /\ run'.id = c /\ run'.undoing /\ run'.undo = i - 1
       /\ run'.failed = run.failed
       /\ ~ChainIdle' /\ Current = chain[c] /\ Current' = chain[c]
  BY <1>1, <1>2, <1>8, <1>9, <1>10 DEF ChainTypeOK, Run, ChainIdle, Current
<1>12. ChainTypeOK'  BY <1>2, <1>11 DEF ChainTypeOK
<1>13. RunFits'  BY <1>7, <1>8, <1>11 DEF RunFits
<1>14. StepsFit'  BY <1>2 DEF StepsFit, TemplateSteps
<1>15. StepsRan'  BY <1>2, <1>6, StepsKept DEF StepsRan, Over
<1>16. StepInCall' /\ SoFarSoGood'  BY <1>11 DEF StepInCall, SoFarSoGood
<1>17. Owned'
  <2> SUFFICES ASSUME NEW x \in ExecIds, exec'[x].status # "absent", exec'[x].reverses = None
               PROVE  \E d \in ChainIds : \E j \in 1 .. Len(chain[d].steps) :
                            chain[d].steps[j] = x
    BY <1>2 DEF Owned
  <2>1. x # r  BY <1>6, Typed DEF EngineInv
  <2> QED  BY <1>2, <1>6, <2>1 DEF Owned
<1>18. UndoFits'
  <2>1. \A j \in 1 .. Len(chain[c].steps) :
            /\ chain[c].steps[j] \in ExecIds
            /\ exec'[chain[c].steps[j]] = exec[chain[c].steps[j]]
    <3> TAKE j \in 1 .. Len(chain[c].steps)
    <3>1. PICK x \in ExecIds : x = chain[c].steps[j]  BY ChainTyped
    <3>2. exec[x].status # "absent"  BY <3>1 DEF StepsRan
    <3> QED  BY <1>6, <3>1, <3>2
  <2>2. \A j \in 1 .. (i - 1) : exec'[chain[c].steps[j]].status = "succeeded"
    <3>1. \A j \in 1 .. (i - 1) : j \in 1 .. run.undo /\ j \in 1 .. Len(chain[c].steps)
      BY <1>3, <1>10
    <3> QED  BY <1>2, <1>11, <2>1, <3>1 DEF UndoFits
  <2>3. ASSUME NEW j \in i .. (Len(chain[c].steps) - 1), j # i
        PROVE  \E x \in ExecIds :
                    /\ exec'[x].reverses = chain[c].steps[j]
                    /\ exec'[x].auto
                    /\ \/ exec'[x].status = "failed"
                       \/ /\ exec'[x].status = "succeeded"
                          /\ exec'[chain[c].steps[j]].status = "rolled_back"
    <3>1. /\ j \in (run.undo + 1) .. (Len(chain[c].steps) - 1)
          /\ j \in 1 .. Len(chain[c].steps)
      BY <1>3, <1>10, <2>3
    <3>2. Undone(chain[c].steps[j])  BY <1>2, <1>11, <3>1 DEF UndoFits
    <3> QED  BY <1>6, <2>1, <3>1, <3>2 DEF Undone
  <2>4. exec'[call'.id].auto  BY <1>6, <1>7
  <2>5. (i - 1) + 1 = i  BY <1>10
  <2> QED
    BY <1>2, <1>3, <1>5, <1>7, <1>10, <1>11, <2>2, <2>3, <2>4, <2>5
    DEF UndoFits, Undone
<1>19. UndoneOrReported'
  <2> SUFFICES ASSUME NEW d \in ChainIds, chain'[d].status = "rolled_back"
               PROVE  \A e \in Range(Front(chain'[d].steps)) :
                        \/ exec'[e].status = "rolled_back"
                        \/ \E x \in ExecIds : /\ exec'[x].reverses = e
                                              /\ exec'[x].auto
                                              /\ exec'[x].status = "failed"
    BY DEF UndoneOrReported
  <2> QED  BY <1>2, <1>6, ReportsKept
<1> QED
  BY <1>6, <1>12, <1>13, <1>14, <1>15, <1>16, <1>17, <1>18, <1>19

LEMMA UndoReturnsStep == ASSUME ChainInv, UndoReturns PROVE ChainInv'
<1> USE DEF ChainInv, ChainPart
<1>1. /\ run.undoing /\ ~Idle /\ call.stage = "return"
      /\ exec' = Settled /\ call' = NoCall /\ UNCHANGED chainVars
      /\ chain' = chain /\ run' = run
  BY DEF UndoReturns, Idle, chainVars
<1>2. EngineInv'  BY UndoReturnsEngine
<1>3. /\ Keeps
      /\ \A e \in ExecIds : e # call.orig => exec'[e] = exec[e]
      /\ call.orig # None /\ exec[call.id].status = "succeeded" =>
                exec'[call.orig].status = "rolled_back"
  BY <1>1, SettledKeeps
<1>4. Idle' /\ call'.auto = FALSE  BY <1>1 DEF NoCall, Idle
<1>5. /\ ChainTypeOK' /\ StepsFit' /\ StepsRan' /\ UndoneOrReported' /\ RunFits'
      /\ Current' = Current
  BY <1>1, <1>3, <1>4, ChainsRest
<1>6. ~ChainIdle  BY <1>1 DEF RunFits, NoRun
<1>7. PICK c \in ChainIds : c = run.id /\ Current = chain[c]
  BY <1>6, ChainTyped DEF Current
<1>8. /\ run.undo \in Nat /\ Len(chain[c].steps) \in Nat
      /\ run.undo + 1 < Len(chain[c].steps)
      /\ call.orig = chain[c].steps[run.undo + 1]
      /\ exec[call.id].auto
  BY <1>1, <1>7, ChainTyped DEF UndoFits
<1>9. run.undo + 1 \in 1 .. Len(chain[c].steps)  BY <1>8
<1>10. PICK o \in ExecIds : o = call.orig  BY <1>8, <1>9, ChainTyped
<1>11. PICK r \in ExecIds : r = call.id  BY <1>1, Typed DEF EngineInv
<1>12. /\ o # None /\ exec[o].reverses = None /\ exec[o].status = "succeeded"
       /\ exec[r].reverses = o /\ exec[r].auto
       /\ exec[r].status \in {"succeeded", "failed"}
  BY <1>1, <1>8, <1>9, <1>10, <1>11, Typed DEF EngineInv, CallKnows, StageFits, StepsRan
<1>13. /\ r # o
       /\ exec'[r] = exec[r]
       /\ exec[r].status = "succeeded" => exec'[o].status = "rolled_back"
  BY <1>3, <1>10, <1>11, <1>12
<1>14. StepInCall' /\ SoFarSoGood'  BY <1>1 DEF StepInCall, SoFarSoGood
<1>15. Owned'
  <2> SUFFICES ASSUME NEW x \in ExecIds, exec'[x].status # "absent", exec'[x].reverses = None
               PROVE  \E d \in ChainIds : \E j \in 1 .. Len(chain[d].steps) :
                            chain[d].steps[j] = x
    BY <1>1 DEF Owned
  <2>1. x # r  BY <1>12, <1>13
  <2>2. exec[x].status # "absent" /\ exec[x].reverses = None
    BY <1>3, <1>10, <1>12
  <2> QED  BY <1>11, <2>1, <2>2 DEF Owned
<1>16. UndoFits'
  <2>1. ASSUME NEW j \in 1 .. run.undo
        PROVE  exec'[chain[c].steps[j]].status = "succeeded"
    <3>1. j \in 1 .. Len(chain[c].steps) /\ j # run.undo + 1  BY <1>8
    <3>2. PICK x \in ExecIds : x = chain[c].steps[j]  BY <3>1, ChainTyped
    <3>3. x # o  BY <1>8, <1>9, <1>10, <3>1, <3>2 DEF StepsRan
    <3>4. exec[x].status = "succeeded"  BY <1>1, <1>7, <3>2 DEF UndoFits
    <3> QED  BY <1>3, <1>10, <3>2, <3>3, <3>4
  <2>2. ASSUME NEW j \in (run.undo + 1) .. (Len(chain[c].steps) - 1)
        PROVE  \E x \in ExecIds :
                    /\ exec'[x].reverses = chain[c].steps[j]
                    /\ exec'[x].auto
                    /\ \/ exec'[x].status = "failed"
                       \/ /\ exec'[x].status = "succeeded"
                          /\ exec'[chain[c].steps[j]].status = "rolled_back"
    <3>1. CASE j = run.undo + 1
      BY <3>1, <1>8, <1>10, <1>12, <1>13
    <3>2. CASE j # run.undo + 1
      <4>1. j \in 1 .. Len(chain[c].steps)  BY <1>8
      <4>2. PICK y \in ExecIds : y = chain[c].steps[j]  BY <4>1, ChainTyped
      <4>3. y # o  BY <1>8, <1>9, <1>10, <3>2, <4>1, <4>2 DEF StepsRan
      <4>4. Undone(y)  BY <1>1, <1>7, <3>2, <4>2 DEF UndoFits
      <4>5. PICK x \in ExecIds :
                /\ exec[x].reverses = y
                /\ exec[x].auto
                /\ \/ exec[x].status = "failed"
                   \/ exec[x].status = "succeeded" /\ exec[y].status = "rolled_back"
        BY <4>4 DEF Undone
      <4>6. x # o  BY <1>12, <4>2, <4>5, Typed DEF EngineInv
      <4> QED  BY <1>3, <1>10, <4>2, <4>3, <4>5, <4>6
    <3> QED  BY <3>1, <3>2
  <2> QED  BY <1>1, <1>4, <1>5, <1>7, <1>8, <2>1, <2>2 DEF UndoFits, Undone
<1> QED  BY <1>2, <1>5, <1>14, <1>15, <1>16

-----------------------------------------------------------------------------
(* The invariant *)

LEMMA ChainStart == ChainInit => ChainInv
<1> SUFFICES ASSUME ChainInit PROVE ChainInv  OBVIOUS
<1>1. EngineInv  BY StartInv DEF ChainInit, IInv
<1>2. UnusedChain \in Chain /\ NoRun \in Run
  <2>1. (CHOOSE k \in DOMAIN Templates : TRUE) \in DOMAIN Templates  BY DEF Templates
  <2>2. (CHOOSE t \in Targets : TRUE) \in Targets  BY TargetsAssumption
  <2>3. <<>> \in Seq(ExecIds)  OBVIOUS
  <2> QED
    BY <2>1, <2>2, <2>3 DEF UnusedChain, Chain, NoRun, Run, OnFailure, ChainStatuses
<1>3. ChainTypeOK  BY <1>2 DEF ChainInit, ChainTypeOK
<1>4. /\ ChainIdle /\ run = NoRun /\ ~run.undoing /\ call.auto = FALSE
      /\ \A e \in ExecIds : exec[e].status = "absent"
  BY DEF ChainInit, Init, ChainIdle, NoRun, NoCall, Unused, Fresh
<1>5. \A c \in ChainIds : chain[c].status = "absent" /\ chain[c].steps = <<>>
  BY DEF ChainInit, UnusedChain
<1>6. Len(<<>>) = 0  OBVIOUS
<1>7. StepsFit  BY <1>3, <1>5, <1>6, ChainTyped DEF StepsFit
<1>8. StepsRan  BY <1>5, <1>6 DEF StepsRan
<1>9. RunFits /\ StepInCall /\ SoFarSoGood /\ Owned /\ UndoFits /\ UndoneOrReported
  BY <1>4, <1>5 DEF RunFits, StepInCall, SoFarSoGood, Owned, UndoFits, UndoneOrReported
<1> QED  BY <1>1, <1>3, <1>7, <1>8, <1>9 DEF ChainInv, ChainPart

LEMMA ChainNextStep == ChainInv /\ [ChainNext]_allChainVars => ChainInv'
<1> SUFFICES ASSUME ChainInv, [ChainNext]_allChainVars PROVE ChainInv'  OBVIOUS
<1>1. CASE ChainStep
  BY <1>1, StepStartsStep, StepOverStep, ChainFinishesStep, UndoStartsStep,
     UndoReturnsStep, UndoFinishesStep
  DEF ChainStep
<1>2. CASE Environment /\ UNCHANGED chainVars
  <2>1. TypeInv'  BY <1>2, EnvironmentType DEF ChainInv, EngineInv
  <2>2. UNCHANGED <<exec, call, ran>>
    BY <1>2 DEF Environment, Sync, Vanish, Drift, ProxyFlips
  <2> QED  BY <1>2, <2>1, <2>2, QuietStep, ChainQuiet DEF ChainInv, EngineInv, Control
<1>3. CASE UNCHANGED allChainVars
  <2>1. UNCHANGED <<exec, call, envVars, chainVars>> /\ twin' = twin
    BY <1>3 DEF allChainVars, vars, envVars
  <2>2. EngineInv'
    BY <2>1, EngineRests DEF ChainInv, EngineInv, TypeInv, TypeOK
  <2> QED  BY <2>1, <2>2, ChainQuiet DEF ChainInv
<1> QED
  BY <1>1, <1>2, <1>3, ChainOperationStep, EngineUnderChainStep, RollbackByHandStep
  DEF ChainNext

\* What a chain knows of its steps and of the reversals it runs is true at every
\* step of chains.rs and of the engine under it: the strengthening the properties
\* below follow from. It includes EngineInv, so what Recovery promises of links,
\* statuses and automatic rollbacks is as true of executions a chain starts.
THEOREM ChainInvariance == ChainSpec => []ChainInv
BY ChainStart, ChainNextStep, PTL DEF ChainSpec

-----------------------------------------------------------------------------
(* The properties *)

\* Every variable of chains.rs keeps its type, and so do those of the engine: a
\* chain's steps are executions, a run is that of a chain.
THEOREM ChainTypeCorrect == ChainSpec => [](TypeOK /\ ChainTypeOK)
<1>1. ChainInv => TypeOK /\ ChainTypeOK
  BY DEF ChainInv, ChainPart, EngineInv, TypeInv
<1> QED  BY <1>1, ChainInvariance, PTL

\* confirm_chain stands in for the confirmation of each step: whatever needs one
\* and has taken effect is a step of a chain that was approved.
THEOREM ChainsPassTheGate == ChainSpec => []ChainGate
<1>1. ChainInv => ChainGate
  <2> SUFFICES ASSUME ChainInv PROVE ChainGate  OBVIOUS
  <2> USE DEF ChainInv, ChainPart
  <2>1. \A c \in ChainIds : chain[c].steps # <<>> => chain[c].approved
    BY DEF StepsFit
  <2>2. ~ChainIdle => Current.approved  BY DEF RunFits
  <2>3. ASSUME NEW e \in ExecIds, ran[e] > 0, exec[e].reverses = None
        PROVE  \/ \E c \in ChainIds : e \in Range(chain[c].steps)
               \/ ~ChainIdle /\ call.top = e
    <3>1. ran[e] # 0  BY <2>3, Typed DEF EngineInv
    <3>2. exec[e].status # "absent"
      BY <3>1 DEF EngineInv, StatusTellsEffect, Done
    <3>3. CASE ~ChainIdle /\ call.top = e  BY <3>3
    <3>4. CASE \E c \in ChainIds : \E i \in 1 .. Len(chain[c].steps) :
                    chain[c].steps[i] = e
      <4>1. PICK c \in ChainIds :
                \E i \in 1 .. Len(chain[c].steps) : chain[c].steps[i] = e
        BY <3>4
      <4>2. DOMAIN chain[c].steps = 1 .. Len(chain[c].steps)  BY ChainTyped
      <4> QED  BY <4>1, <4>2 DEF Range
    <3> QED  BY <2>3, <3>2, <3>3, <3>4 DEF Owned
  <2> QED  BY <2>1, <2>2, <2>3 DEF ChainGate
<1> QED  BY <1>1, ChainInvariance, PTL

\* No execution is undone twice, whoever asks: a rollback_all and the rollbacks an
\* operator starts by hand on the steps of a finished chain included.
THEOREM ChainsReverseOnce == ChainSpec => []ReversedOnce
<1>1. ChainInv => ReversedOnce  BY OneReversalSucceeds DEF ChainInv
<1> QED  BY <1>1, ChainInvariance, PTL

\* When handle_step_failure has gone back over the steps, each of them is rolled
\* back or has a reverse execution that says it failed.
THEOREM RollbackAllReports == ChainSpec => []UndoneOrReported
<1>1. ChainInv => UndoneOrReported  BY DEF ChainInv, ChainPart
<1> QED  BY <1>1, ChainInvariance, PTL

\* While a chain runs and no call is in progress, only the chain starts one.
LEMMA OnlyTheChainCalls ==
    ASSUME ChainInv, [ChainNext]_allChainVars, ~ChainIdle, call = NoCall, call' # NoCall
    PROVE  StepStarts \/ UndoStarts
<1>1. Idle /\ call.stage = "idle"  BY DEF NoCall, Idle
<1>2. CASE ChainOperation
  BY <1>2 DEF ChainOperation, ExecuteChain, ConfirmChain, CancelChain, AbortChain, vars
<1>3. CASE ChainStep
  BY <1>1, <1>3
  DEF ChainStep, StepPasses, StepFailsContinue, StepFailsStop, StepFailsRollbackAll,
      StepIsOver, ChainFinishes, UndoReturns, UndoFinishes
<1>4. ~EngineUnderChain
  BY <1>1 DEF EngineUnderChain, EngineStep, HandlerRefused, HandlerSucceeds,
              HandlerUpstreamError, VerifySettles, VerifyRollsBack, Return
<1>5. ~RollbackByHand  BY DEF RollbackByHand
<1>6. CASE Environment
  BY <1>6 DEF Environment, Sync, Vanish, Drift, ProxyFlips
<1>7. CASE UNCHANGED allChainVars  BY <1>7 DEF allChainVars, vars
<1> QED  BY <1>2, <1>3, <1>4, <1>5, <1>6, <1>7 DEF ChainNext

\* run_chain_steps waits for the verdict on a step before it starts the next one,
\* and unless it was told to continue it does not go past one that failed.
THEOREM NoStepPastAFailure == ChainSpec => StepsAwaitVerdict
<1>1. ASSUME ChainInv, [ChainNext]_allChainVars
      PROVE  \A c \in ChainIds :
                /\ run.id = c /\ call = NoCall
                /\ call'.stage = "handler" /\ call'.orig = None
                /\ chain[c].onFailure # "continue"
                => \A i \in DOMAIN chain[c].steps :
                    LET e == chain[c].steps[i] IN
                    /\ exec[e].status = "succeeded"
                    /\ TemplateSteps(c)[i].verify =>
                            exec[e].verify \notin {"failed", "error"}
  <2> SUFFICES ASSUME NEW c \in ChainIds,
                      run.id = c, call = NoCall,
                      call'.stage = "handler", call'.orig = None,
                      chain[c].onFailure # "continue",
                      NEW i \in DOMAIN chain[c].steps
               PROVE  LET e == chain[c].steps[i] IN
                      /\ exec[e].status = "succeeded"
                      /\ TemplateSteps(c)[i].verify =>
                            exec[e].verify \notin {"failed", "error"}
    OBVIOUS
  <2>1. ~ChainIdle /\ Current = chain[c]  BY ChainsAssumption DEF ChainIdle, Current
  <2>2. call' # NoCall  BY DEF NoCall
  <2>3. ~UndoStarts
    <3> SUFFICES ASSUME UndoStarts PROVE FALSE  OBVIOUS
    <3>1. PICK j \in 1 .. run.undo :
            /\ NextToUndo(j)
            /\ exec' = [exec EXCEPT ![FreshId] = Reversal(Current.steps[j], TRUE)]
            /\ call' = ReverseCall(FreshId, FreshId, Current.steps[j], TRUE)
      BY DEF UndoStarts
    <3>2. Current.steps[j] \in ExecIds  BY <1>1, <3>1, UndoStartsEngine
    <3> QED  BY <3>1, <3>2, IdsAssumption DEF ReverseCall
  <2>4. StepStarts  BY <1>1, <2>1, <2>2, <2>3, OnlyTheChainCalls
  <2>5. ~run.undoing /\ ~run.failed
    BY <1>1, <2>1, <2>4 DEF StepStarts, ChainInv, ChainPart, RunFits
  <2>6. i \in 1 .. Len(chain[c].steps)  BY <1>1, ChainTyped DEF ChainInv, ChainPart
  <2>7. StepOk(chain[c].steps[i], TemplateSteps(c)[i])
    BY <1>1, <2>1, <2>5, <2>6 DEF ChainInv, ChainPart, SoFarSoGood
  <2> QED  BY <2>7 DEF StepOk
<1> QED  BY <1>1, ChainInvariance, PTL DEF ChainSpec, StepsAwaitVerdict

\* A chain reported as succeeded did all its steps and none of them was found
\* wanting, and what is reported once is never taken back: not by confirm_chain,
\* cancel_chain or abort_chain, nor by another chain's run.
THEOREM VerdictStands == ChainSpec => VerdictIsTrue
<1>1. ASSUME ChainInv, [ChainNext]_allChainVars
      PROVE  \A c \in ChainIds :
                /\ chain[c].status \in ChainFinal => chain'[c] = chain[c]
                /\ chain[c].status # "succeeded" /\ chain'[c].status = "succeeded" =>
                    /\ Len(chain[c].steps) = Len(TemplateSteps(c))
                    /\ \A i \in DOMAIN chain[c].steps :
                        LET e == chain[c].steps[i] IN
                        /\ ran[e] = 1
                        /\ TemplateSteps(c)[i].verify =>
                                exec[e].verify \notin {"failed", "error"}
  <2> TAKE c \in ChainIds
  <2> USE <1>1 DEF ChainInv, ChainPart
  <2>1. chain[c] \in Chain /\ chain \in [ChainIds -> Chain]  BY DEF ChainTypeOK
  <2>2. CASE chain'[c] = chain[c]  BY <2>2
  <2>3. CASE ChainOperation /\ chain'[c] # chain[c]
    <3>1. PICK d \in ChainIds :
            \/ \E k \in UsedTemplates, t \in Targets, f \in OnFailure :
                    ExecuteChain(d, k, t, f)
            \/ ConfirmChain(d) \/ CancelChain(d) \/ AbortChain(d)
      BY <2>3 DEF ChainOperation
    <3>2. d = c
      BY <2>1, <2>3, <3>1 DEF ExecuteChain, ConfirmChain, CancelChain, AbortChain
    <3>3. /\ chain[c].status \in {"absent", "awaiting_approval", "executing"}
          /\ chain'[c].status # "succeeded"
      BY <2>1, <3>1, <3>2
      DEF ExecuteChain, ConfirmChain, CancelChain, AbortChain, NewChain, Chain
    <3> QED  BY <3>3 DEF ChainFinal
  <2>4. CASE ChainStep /\ chain'[c] # chain[c]
    <3>1. /\ ~ChainIdle
          /\ \E x : chain' = [chain EXCEPT ![run.id] = x]
      <4>1. run.undoing => ~ChainIdle  BY DEF RunFits, NoRun
      <4> QED
        BY <2>1, <2>4, <4>1
        DEF ChainStep, StepStarts, StepPasses, StepFailsContinue, StepFailsStop,
            StepFailsRollbackAll, StepIsOver, ChainFinishes, UndoStarts, UndoReturns,
            UndoFinishes, chainVars
    <3>2. c = run.id  BY <2>1, <2>4, <3>1
    <3>3. chain[c].status = "executing"  BY <3>1, <3>2 DEF RunFits, Current
    <3>4. ASSUME chain'[c].status = "succeeded"
          PROVE  /\ Len(chain[c].steps) = Len(TemplateSteps(c))
                 /\ \A i \in DOMAIN chain[c].steps :
                        LET e == chain[c].steps[i] IN
                        /\ ran[e] = 1
                        /\ TemplateSteps(c)[i].verify =>
                                exec[e].verify \notin {"failed", "error"}
      <4>1. ChainFinishes /\ ~run.failed
        <5>1. ~(StepStarts \/ UndoStarts \/ UndoReturns)
          BY <2>4 DEF StepStarts, UndoStarts, UndoReturns, chainVars
        <5>2. ~(StepPasses \/ StepFailsContinue \/ StepFailsRollbackAll)
          <6> SUFFICES ASSUME chain' = [chain EXCEPT ![c].steps = StepsWithThis]
                       PROVE  FALSE
            BY <3>2 DEF StepPasses, StepFailsContinue, StepFailsRollbackAll
          <6>1. chain'[c] = [chain[c] EXCEPT !.steps = StepsWithThis]  BY <2>1
          <6>2. chain'[c].status = "executing"  BY <6>1, <2>1, <3>3 DEF Chain
          <6> QED  BY <6>2, <3>4
        <5>3. ~StepFailsStop
          <6> SUFFICES ASSUME StepFailsStop PROVE FALSE  OBVIOUS
          <6>1. chain'[c] = [chain[c] EXCEPT !.steps = StepsWithThis, !.status = "partial"]
            BY <2>1, <3>2 DEF StepFailsStop
          <6>2. chain'[c].status = "partial"  BY <6>1, <2>1 DEF Chain
          <6> QED  BY <6>2, <3>4
        <5>4. \A s : chain' = [chain EXCEPT ![c].status = s] => s = "succeeded"
          BY <2>1, <3>4 DEF Chain
        <5>5. ~UndoFinishes  BY <5>4, <3>2 DEF UndoFinishes
        <5>6. ChainFinishes  BY <2>4, <5>1, <5>2, <5>3, <5>5 DEF ChainStep
        <5> QED  BY <5>4, <5>6, <3>2 DEF ChainFinishes
      <4>2. ~MoreSteps /\ ~run.undoing /\ Current = chain[c]
        BY <3>2, <4>1 DEF ChainFinishes, Current
      <4>3. Len(chain[c].steps) = Len(TemplateSteps(c))
        BY <3>2, <4>2, ChainTyped DEF MoreSteps, StepsFit
      <4>4. ASSUME NEW i \in DOMAIN chain[c].steps
            PROVE  LET e == chain[c].steps[i] IN
                   /\ ran[e] = 1
                   /\ TemplateSteps(c)[i].verify =>
                            exec[e].verify \notin {"failed", "error"}
        <5>1. i \in 1 .. Len(chain[c].steps)  BY ChainTyped
        <5>2. StepOk(chain[c].steps[i], TemplateSteps(c)[i])
          BY <3>1, <3>2, <4>1, <4>2, <5>1 DEF SoFarSoGood
        <5>3. chain[c].steps[i] \in ExecIds  BY <5>1, ChainTyped
        <5> QED  BY <5>2, <5>3 DEF StepOk, EngineInv, StatusTellsEffect, Done
      <4> QED  BY <4>3, <4>4
    <3> QED  BY <3>3, <3>4 DEF ChainFinal
  <2>5. ASSUME ~ChainOperation, ~ChainStep PROVE chain'[c] = chain[c]
    BY <2>5 DEF ChainNext, EngineUnderChain, RollbackByHand, chainVars, allChainVars
  <2> QED  BY <2>2, <2>3, <2>4, <2>5
<1> QED  BY <1>1, ChainInvariance, PTL DEF ChainSpec, VerdictIsTrue

\* rollback_all goes back from the failed step: when the reversal of a step begins,
\* those done after it have had theirs.
THEOREM NewestUndoneFirst == ChainSpec => UndoNewestFirst
<1>1. ASSUME ChainInv, [ChainNext]_allChainVars
      PROVE  \A c \in ChainIds :
                run.id = c /\ call = NoCall /\ call'.orig # None
                => \A i, j \in DOMAIN Front(chain[c].steps) :
                    /\ chain[c].steps[i] = call'.orig
                    /\ j > i
                    => \E r \in ExecIds :
                            /\ exec[r].reverses = chain[c].steps[j]
                            /\ exec[r].status \in {"succeeded", "failed"}
  <2> SUFFICES ASSUME NEW c \in ChainIds,
                      run.id = c, call = NoCall, call'.orig # None,
                      NEW i \in DOMAIN Front(chain[c].steps),
                      NEW j \in DOMAIN Front(chain[c].steps),
                      chain[c].steps[i] = call'.orig, j > i
               PROVE  \E r \in ExecIds :
                            /\ exec[r].reverses = chain[c].steps[j]
                            /\ exec[r].status \in {"succeeded", "failed"}
    OBVIOUS
  <2> USE <1>1 DEF ChainInv, ChainPart
  <2>1. ~ChainIdle /\ Current = chain[c] /\ Idle
    BY ChainsAssumption DEF ChainIdle, Current, NoCall, Idle
  <2>2. call' # NoCall  BY DEF NoCall
  <2>3. ~StepStarts  BY DEF StepStarts, StepCall
  <2>4. UndoStarts  BY <2>1, <2>2, <2>3, OnlyTheChainCalls
  <2>5. PICK k \in 1 .. run.undo :
          /\ NextToUndo(k)
          /\ call' = ReverseCall(FreshId, FreshId, Current.steps[k], TRUE)
    BY <2>4 DEF UndoStarts
  <2>6. run.undoing  BY <2>4 DEF UndoStarts
  <2>7. k = run.undo  BY <2>5, <2>6, NextIsNewest
  <2>8. /\ Len(chain[c].steps) \in Nat /\ run.undo \in Nat
        /\ run.undo < Len(chain[c].steps)
    BY <2>1, <2>6, ChainTyped DEF UndoFits
  <2>9. i \in 1 .. (Len(chain[c].steps) - 1) /\ j \in 1 .. (Len(chain[c].steps) - 1)
    BY ChainTyped, FrontOfSteps
  <2>10. chain[c].steps[i] = chain[c].steps[k]  BY <2>1, <2>5 DEF ReverseCall
  <2>11. k \in 1 .. Len(chain[c].steps) /\ i \in 1 .. Len(chain[c].steps)
    BY <2>7, <2>8, <2>9
  <2>12. i = k  BY <2>10, <2>11 DEF StepsRan
  <2>13. j \in (run.undo + 1) .. (Len(chain[c].steps) - 1)  BY <2>7, <2>8, <2>9, <2>12
  <2>14. Undone(chain[c].steps[j])  BY <2>1, <2>6, <2>13 DEF UndoFits
  <2> QED  BY <2>14 DEF Undone
<1> QED  BY <1>1, ChainInvariance, PTL DEF ChainSpec, UndoNewestFirst

=============================================================================
