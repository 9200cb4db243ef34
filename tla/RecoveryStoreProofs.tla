------------------------- MODULE RecoveryStoreProofs -------------------------
(* Theorems about RecoveryStore: what the rows of the recovery commands say  *)
(* of the registry, whatever commands overlap and wherever a restart falls.  *)
EXTENDS RecoveryStore, RecoveryProofs, SequenceTheorems

-----------------------------------------------------------------------------
(* The registry. A restart makes the rows the registry, and the rows of an  *)
(* execution and of the one that reverses it are not of the same moment: of *)
(* the invariant of RecoveryProofs only what follows survives one.          *)

HistoryTypeOK ==
    /\ minted \in SUBSET ExecIds
    /\ confirms \in [ExecIds -> Nat]

CallFits ==
    /\ IF Idle THEN call = NoCall ELSE exec[call.id].status # "absent"
    /\ call.stage = "handler" =>
          exec[call.id].status \in {"executing", "awaiting_approval"}
    /\ call.stage = "verify" =>
          /\ Done(call.id)
          /\ call.orig # None => exec[call.id].status = "succeeded"
    /\ call.stage = "return" /\ call.orig # None =>
          exec[call.id].status \in {"succeeded", "failed"}
    /\ call.orig # None => Done(call.orig) /\ call.orig # call.id

DoneRan == \A e \in ExecIds : Done(e) => ran[e] > 0

MintedFirst ==
    \A e \in ExecIds \ minted : exec[e].status = "absent" /\ ran[e] = 0

\* The handler of what needs a confirmation is one run behind its confirmations.
ConfirmedFirst ==
    /\ call.stage = "handler"
    /\ exec[call.id].reverses = None
    /\ NeedsApproval(exec[call.id].action)
    => ran[call.id] < confirms[call.id]

LinkFits ==
    \A e \in ExecIds :
        exec[e].rollbackBy # None => exec[e].status = "rolled_back"

RegistryInv ==
    /\ TypeInv
    /\ HistoryTypeOK
    /\ LinkFits
    /\ CallFits
    /\ OnlyTheCallExecutes
    /\ DoneRan
    /\ MintedFirst
    /\ ConfirmedEachTime
    /\ ConfirmedFirst

\* How an execution may move between two states of the registry without a
\* restart: its status only goes forward, what it is stays.
Onward(s, t) ==
    \/ t = s
    \/ s = "absent"
    \/ s = "awaiting_approval" /\ t # "absent"
    \/ s = "executing" /\ t \notin {"absent", "awaiting_approval"}
    \/ s = "succeeded" /\ t = "rolled_back"

Advances ==
    \A e \in ExecIds :
        /\ Onward(exec[e].status, exec'[e].status)
        /\ exec[e].status # "absent" =>
              /\ exec'[e].action = exec[e].action
              /\ exec'[e].reverses = exec[e].reverses
        /\ ran'[e] >= ran[e]

\* An execution enters the registry, to wait or to run.
LEMMA RegistryExecute ==
    ASSUME RegistryInv, HistoryTypeOK', confirms' = confirms,
           NEW e \in ExecIds, NEW a \in UsedActions, NEW t \in Targets,
           NEW d \in DeltasOf(a), NEW topo \in [Targets -> Twin], Mints(e),
           ExecuteGated(e, a, t, d, topo) \/ ExecuteNow(e, a, t, d, topo)
    PROVE  RegistryInv' /\ Advances
<1> USE DEF RegistryInv
<1>1. TypeInv'  BY CommandType
<1>2. PICK s \in {"awaiting_approval", "executing"} :
        /\ exec' = [exec EXCEPT ![e] = Fresh(a, t, d, s)]
        /\ \/ s = "awaiting_approval" /\ call' = call
           \/ /\ s = "executing" /\ ~NeedsApproval(a)
              /\ call' = RunCall(e)
  BY DEF ExecuteGated, ExecuteNow
<1>3. Idle /\ ran' = ran /\ exec[e].status = "absent"
  BY DEF ExecuteGated, ExecuteNow, envVars
<1>4. \A x \in ExecIds : x # e => exec'[x] = exec[x]
  BY <1>2 DEF TypeInv, TypeOK
<1>5. exec'[e].status = s /\ exec'[e].action = a /\ exec'[e].rollbackBy = None
  BY <1>2 DEF TypeInv, TypeOK, Fresh
<1>6. /\ s = "executing" => /\ call'.stage = "handler" /\ call'.id = e
                            /\ call'.orig = None /\ ~NeedsApproval(a)
      /\ s # "executing" => call' = call
  BY <1>2 DEF RunCall
<1>7. call = NoCall  BY <1>3 DEF CallFits
<1>8. e \notin minted /\ minted' = minted \cup {e} /\ ran[e] = 0
  BY DEF Mints, MintedFirst
<1>9. Advances  BY <1>3, <1>4, Typed DEF Advances, Onward
<1>10. CallFits'  BY <1>5, <1>6, <1>7 DEF CallFits, NoCall, Idle
<1>11. OnlyTheCallExecutes'
  BY <1>3, <1>4, <1>5, <1>6 DEF OnlyTheCallExecutes, Idle
<1>12. DoneRan' /\ MintedFirst'
  BY <1>3, <1>4, <1>5, <1>8 DEF DoneRan, MintedFirst, Done
<1>13. ConfirmedEachTime'
  <2>1. confirms[e] \in Nat  BY DEF HistoryTypeOK
  <2> QED  BY <2>1, <1>3, <1>4, <1>8 DEF ConfirmedEachTime
<1>14. ConfirmedFirst'
  BY <1>5, <1>6, <1>7 DEF ConfirmedFirst, NoCall
<1>15. LinkFits'  BY <1>4, <1>5 DEF LinkFits
<1> QED  BY <1>1, <1>9, <1>10, <1>11, <1>12, <1>13, <1>14, <1>15

LEMMA RegistryConfirm ==
    ASSUME RegistryInv, minted' = minted, NEW e \in ExecIds,
           NEW topo \in [Targets -> Twin], Confirm(e, topo),
           confirms' = [confirms EXCEPT ![e] = @ + 1]
    PROVE  RegistryInv' /\ Advances
<1> USE DEF RegistryInv
<1>1. TypeInv'  BY CommandType
<1>2. /\ Idle /\ ran' = ran
      /\ exec[e].status = "awaiting_approval"
      /\ exec' = [exec EXCEPT ![e].approved = TRUE]
      /\ call' = RunCall(e)
  BY DEF Confirm, envVars
<1>3. \A x \in ExecIds : x # e => exec'[x] = exec[x]
  BY <1>2 DEF TypeInv, TypeOK
<1>4. /\ exec'[e].status = exec[e].status
      /\ exec'[e].action = exec[e].action
      /\ exec'[e].reverses = exec[e].reverses
      /\ exec'[e].rollbackBy = exec[e].rollbackBy
  BY <1>2, Typed DEF TypeInv, TypeOK, Execution
<1>5. call'.stage = "handler" /\ call'.id = e /\ call'.orig = None
  BY <1>2 DEF RunCall
<1>6. /\ confirms \in [ExecIds -> Nat] /\ confirms' \in [ExecIds -> Nat]
      /\ confirms'[e] = confirms[e] + 1
      /\ \A x \in ExecIds : x # e => confirms'[x] = confirms[x]
  BY DEF HistoryTypeOK
<1>7. HistoryTypeOK'  BY <1>6 DEF HistoryTypeOK
<1>8. Advances  BY <1>2, <1>3, <1>4, Typed DEF Advances, Onward
<1>9. CallFits'  BY <1>2, <1>4, <1>5 DEF CallFits, Idle
<1>10. OnlyTheCallExecutes'
  BY <1>2, <1>3, <1>4, <1>5 DEF OnlyTheCallExecutes, Idle
<1>11. DoneRan' /\ MintedFirst'
  BY <1>2, <1>3, <1>4 DEF DoneRan, MintedFirst, Done
<1>12. \A x \in ExecIds : confirms[x] \in Nat /\ ran[x] \in Nat  BY <1>6, Typed
<1>13. ConfirmedEachTime'
  BY <1>2, <1>3, <1>4, <1>6, <1>12 DEF ConfirmedEachTime
<1>14. ConfirmedFirst'
  BY <1>2, <1>4, <1>5, <1>6, <1>12 DEF ConfirmedFirst, ConfirmedEachTime
<1>15. LinkFits'  BY <1>3, <1>4 DEF LinkFits
<1> QED  BY <1>1, <1>7, <1>8, <1>9, <1>10, <1>11, <1>13, <1>14, <1>15

LEMMA RegistryCancel ==
    ASSUME RegistryInv, minted' = minted, confirms' = confirms,
           NEW e \in ExecIds, Cancel(e)
    PROVE  RegistryInv' /\ Advances
<1> USE DEF RegistryInv
<1>1. TypeInv'  BY CommandType, NoTwinType
<1>2. /\ Idle /\ ran' = ran /\ call' = call
      /\ exec[e].status = "awaiting_approval"
      /\ exec' = [exec EXCEPT ![e].status = "rejected"]
  BY DEF Cancel, envVars
<1>3. \A x \in ExecIds : x # e => exec'[x] = exec[x]
  BY <1>2 DEF TypeInv, TypeOK
<1>4. /\ exec'[e].status = "rejected"
      /\ exec'[e].action = exec[e].action
      /\ exec'[e].reverses = exec[e].reverses
      /\ exec'[e].rollbackBy = exec[e].rollbackBy
  BY <1>2, Typed DEF TypeInv, TypeOK, Execution
<1>5. call = NoCall  BY <1>2 DEF CallFits
<1>6. HistoryTypeOK'  BY DEF HistoryTypeOK
<1>7. Advances  BY <1>2, <1>3, <1>4, Typed DEF Advances, Onward
<1>8. CallFits' /\ OnlyTheCallExecutes' /\ ConfirmedFirst'
  BY <1>2, <1>3, <1>4, <1>5
  DEF CallFits, OnlyTheCallExecutes, ConfirmedFirst, NoCall, Idle
<1>9. DoneRan' /\ MintedFirst'
  BY <1>2, <1>3, <1>4 DEF DoneRan, MintedFirst, Done
<1>10. ConfirmedEachTime'
  BY <1>2, <1>3, <1>4 DEF ConfirmedEachTime
<1>11. LinkFits'  BY <1>2, <1>3, <1>4 DEF LinkFits
<1> QED  BY <1>1, <1>6, <1>7, <1>8, <1>9, <1>10, <1>11

LEMMA RegistryReverify ==
    ASSUME RegistryInv, minted' = minted, confirms' = confirms,
           NEW e \in ExecIds, NEW topo \in [Targets -> Twin], Reverify(e, topo)
    PROVE  RegistryInv' /\ Advances
<1> USE DEF RegistryInv
<1>1. TypeInv'  BY CommandType
<1>2. /\ exec' = exec /\ ran' = ran /\ Done(e) /\ Idle
      /\ call'.stage = "verify" /\ call'.id = e /\ call'.orig = None
  BY DEF Reverify, envVars, Done, NoCall
<1>3. HistoryTypeOK'  BY DEF HistoryTypeOK
<1>4. Advances  BY <1>2, Typed DEF Advances, Onward
<1>5. CallFits' /\ ConfirmedFirst'  BY <1>2 DEF CallFits, ConfirmedFirst, Done, Idle
<1>6. OnlyTheCallExecutes'  BY <1>2 DEF OnlyTheCallExecutes, Idle
<1>7. DoneRan' /\ MintedFirst' /\ ConfirmedEachTime' /\ LinkFits'
  BY <1>2 DEF DoneRan, MintedFirst, Done, ConfirmedEachTime, LinkFits
<1> QED  BY <1>1, <1>3, <1>4, <1>5, <1>6, <1>7

\* A reverse execution enters the registry; of the others only a verdict changed.
LEMMA RegistryReversal ==
    ASSUME RegistryInv, TypeInv', HistoryTypeOK', confirms' = confirms,
           NEW e \in ExecIds, NEW r \in ExecIds, Mints(r), NEW m, NEW top,
           call.stage # "handler", Done(e), exec[r].status = "absent",
           exec'[r] = Reversal(e, m),
           \A x \in ExecIds \ {r} : /\ exec'[x].status = exec[x].status
                                    /\ exec'[x].action = exec[x].action
                                    /\ exec'[x].reverses = exec[x].reverses
                                    /\ exec'[x].rollbackBy = exec[x].rollbackBy,
           call' = ReverseCall(r, top, e, m),
           ran' = ran
    PROVE  RegistryInv' /\ Advances
<1> USE DEF RegistryInv
<1>1. e # r  BY DEF Done
<1>2. /\ exec'[r].status = "executing" /\ exec'[r].reverses = e
      /\ exec'[r].rollbackBy = None
  BY DEF Reversal, Fresh
<1>3. call'.stage = "handler" /\ call'.id = r /\ call'.orig = e
  BY DEF ReverseCall
<1>4. r \notin minted /\ minted' = minted \cup {r} /\ ran[r] = 0
  BY DEF Mints, MintedFirst
<1>5. Advances  BY Typed DEF Advances, Onward
<1>6. CallFits'  BY <1>1, <1>2, <1>3 DEF CallFits, Done, Idle
<1>7. OnlyTheCallExecutes'  BY <1>2, <1>3 DEF OnlyTheCallExecutes
<1>8. DoneRan' /\ MintedFirst'  BY <1>2, <1>4 DEF DoneRan, MintedFirst, Done
<1>9. ConfirmedEachTime' /\ ConfirmedFirst'
  BY <1>2, <1>3, Typed DEF ConfirmedEachTime, ConfirmedFirst
<1>10. LinkFits'  BY <1>2 DEF LinkFits
<1> QED  BY <1>5, <1>6, <1>7, <1>8, <1>9, <1>10

LEMMA RegistryRollback ==
    ASSUME RegistryInv, HistoryTypeOK', confirms' = confirms,
           NEW e \in ExecIds, NEW r \in ExecIds, Mints(r),
           NEW topo \in [Targets -> Twin], Rollback(e, r, topo)
    PROVE  RegistryInv' /\ Advances
<1>1. TypeInv'  BY CommandType DEF RegistryInv
<1>2. /\ exec' = [exec EXCEPT ![r] = Reversal(e, FALSE)]
      /\ call' = ReverseCall(r, r, e, FALSE)
      /\ ran' = ran /\ call.stage # "handler" /\ Done(e)
      /\ exec[r].status = "absent"
  BY DEF Rollback, envVars, Done, Idle
<1>3. /\ exec'[r] = Reversal(e, FALSE)
      /\ \A x \in ExecIds \ {r} : exec'[x] = exec[x]
  BY <1>2 DEF RegistryInv, TypeInv, TypeOK
<1> QED  BY <1>1, <1>2, <1>3, RegistryReversal

LEMMA RegistryVerifyRollsBack ==
    ASSUME RegistryInv, HistoryTypeOK', confirms' = confirms,
           NEW r \in ExecIds, Mints(r), VerifyRollsBack(r)
    PROVE  /\ RegistryInv' /\ Advances
           /\ ~Idle /\ call.auto /\ call' = ReverseCall(r, call.top, call.id, TRUE)
           /\ r # call.id /\ exec'[r].auto
           /\ exec'[call.id].status = exec[call.id].status
           /\ \A x \in ExecIds : x # call.id /\ x # r => exec'[x] = exec[x]
<1> USE DEF RegistryInv
<1>1. TypeInv'  BY EngineStepType DEF EngineStep
<1>2. PICK e \in ExecIds : e = call.id
  BY Typed DEF VerifyRollsBack, Idle
<1>3. PICK v \in PossibleVerdicts :
        exec' = [exec EXCEPT ![e].verify = v, ![r] = Reversal(e, TRUE)]
  BY <1>2 DEF VerifyRollsBack
<1>4. /\ call' = ReverseCall(r, call.top, e, TRUE)
      /\ ran' = ran /\ call.stage # "handler" /\ Done(e)
      /\ exec[r].status = "absent"
  BY <1>2 DEF VerifyRollsBack, envVars, CallFits
<1>5. e # r  BY <1>4 DEF Done
<1>6. /\ exec'[r] = Reversal(e, TRUE)
      /\ exec'[e] = [exec[e] EXCEPT !.verify = v]
      /\ \A x \in ExecIds : x # r /\ x # e => exec'[x] = exec[x]
  BY <1>3, <1>5 DEF TypeInv, TypeOK
<1>7. \A x \in ExecIds \ {r} : /\ exec'[x].status = exec[x].status
                               /\ exec'[x].action = exec[x].action
                               /\ exec'[x].reverses = exec[x].reverses
                               /\ exec'[x].rollbackBy = exec[x].rollbackBy
  BY <1>6, Typed DEF Execution
<1>8. RegistryInv' /\ Advances  BY <1>1, <1>4, <1>6, <1>7, RegistryReversal
<1>9. ~Idle /\ call.auto  BY DEF VerifyRollsBack, WantsAutoRollback, Idle
<1>10. exec'[r].auto  BY <1>6 DEF Reversal, Fresh
<1> QED  BY <1>2, <1>4, <1>5, <1>6, <1>7, <1>8, <1>9, <1>10

\* What the handler answers, and what the verifier settles.
LEMMA RegistryEngine ==
    ASSUME RegistryInv, minted' = minted, confirms' = confirms,
           \/ HandlerRefused \/ HandlerSucceeds \/ HandlerUpstreamError
           \/ VerifySettles
    PROVE  /\ RegistryInv' /\ Advances
           /\ ~Idle /\ call'.stage # "idle"
           /\ call' = [call EXCEPT !.stage = call'.stage]
           /\ exec'[call.id].auto = exec[call.id].auto
           /\ exec'[call.id].status = "rolled_back" =>
                 exec[call.id].status = "rolled_back"
           /\ \A x \in ExecIds : x # call.id => exec'[x] = exec[x]
<1> USE DEF RegistryInv
<1>1. TypeInv'  BY EngineStepType DEF EngineStep
<1>2. ~Idle
  BY DEF HandlerRefused, HandlerSucceeds, HandlerUpstreamError, VerifySettles, Idle
<1>3. PICK e \in ExecIds : e = call.id  BY <1>2, Typed
<1>4. HistoryTypeOK'  BY DEF HistoryTypeOK
<1>5. /\ call'.stage \in {"verify", "return"}
      /\ call' = [call EXCEPT !.stage = call'.stage]
  BY <1>3, EngineFrame
<1>6. call'.id = e /\ call'.orig = call.orig /\ Idle' = FALSE
  BY <1>3, <1>5 DEF TypeInv, TypeOK, Call, Idle
<1>7. /\ exec'[e].action = exec[e].action
      /\ exec'[e].reverses = exec[e].reverses
      /\ exec'[e].auto = exec[e].auto
      /\ exec'[e].rollbackBy = exec[e].rollbackBy
      /\ \A x \in ExecIds : x # e => exec'[x] = exec[x] /\ ran'[x] = ran[x]
  BY <1>3, EngineFrame
<1>8. \/ /\ call.stage = "handler"
         /\ exec'[e].status \in {"succeeded", "failed"}
         /\ call'.stage = "verify" => exec'[e].status = "succeeded"
         /\ ran'[e] \in {ran[e], ran[e] + 1}
         /\ exec'[e].status = "succeeded" => ran'[e] = ran[e] + 1
      \/ /\ call.stage = "verify" /\ call'.stage = "return"
         /\ exec'[e].status = exec[e].status
         /\ ran' = ran
  BY <1>3, EngineFrame
<1>9. Advances
  BY <1>3, <1>7, <1>8, Typed DEF Advances, Onward, CallFits
<1>10. CallFits'
  <2>1. call.orig # None => Done(call.orig) /\ call.orig # e /\ call.orig \in ExecIds
    BY <1>3, Typed DEF CallFits
  <2>2. call.stage = "verify" => Done(e) /\ (call.orig # None => exec[e].status = "succeeded")
    BY <1>3 DEF CallFits
  <2> QED  BY <1>5, <1>6, <1>7, <1>8, <2>1, <2>2 DEF CallFits, Done
<1>11. OnlyTheCallExecutes'
  BY <1>3, <1>7, <1>8 DEF OnlyTheCallExecutes, CallFits, Done
<1>12. DoneRan'
  BY <1>3, <1>7, <1>8, Typed DEF DoneRan, Done
<1>13. MintedFirst'
  <2>1. e \in minted  BY <1>3, <1>8 DEF MintedFirst, CallFits, Done
  <2> QED  BY <2>1, <1>7 DEF MintedFirst
<1>14. ConfirmedEachTime' /\ ConfirmedFirst'
  <2>1. \A x \in ExecIds : confirms[x] \in Nat /\ ran[x] \in Nat
    BY Typed DEF HistoryTypeOK
  <2>2. exec[e].status # "absent"  BY <1>3, <1>8 DEF CallFits, Done
  <2> QED
    BY <1>3, <1>5, <1>7, <1>8, <2>1, <2>2 DEF ConfirmedEachTime, ConfirmedFirst
<1>15. LinkFits'  BY <1>3, <1>7, <1>8 DEF LinkFits, CallFits
<1> QED
  BY <1>1, <1>2, <1>3, <1>4, <1>5, <1>7, <1>8, <1>9, <1>10, <1>11, <1>12, <1>13, <1>14, <1>15

LEMMA RegistryReturn ==
    ASSUME RegistryInv, minted' = minted, confirms' = confirms, Return
    PROVE  /\ RegistryInv' /\ Advances
           /\ \A x \in ExecIds : x # call.orig => exec'[x] = exec[x]
           /\ call.orig # None /\ exec[call.id].status = "succeeded" =>
                 exec'[call.orig].rollbackBy = call.id
<1> USE DEF RegistryInv
<1>1. TypeInv'  BY EngineStepType DEF EngineStep
<1>2. /\ call.stage = "return" /\ exec' = Settled
      /\ call' = NoCall /\ ran' = ran
  BY DEF Return, envVars
<1>3. /\ call'.stage = "idle" /\ call'.orig = None  BY <1>2 DEF NoCall
<1>4. \A x \in ExecIds : x # call.orig => exec'[x] = exec[x]
  BY <1>2 DEF Settled, TypeInv, TypeOK
<1>5. CASE call.orig # None /\ exec[call.id].status = "succeeded"
  <2>1. PICK o \in ExecIds : o = call.orig  BY <1>5, Typed
  <2>2. exec' = [exec EXCEPT ![o].status = "rolled_back", ![o].rollbackBy = call.id]
    BY <1>2, <1>5, <2>1 DEF Settled
  <2>3. exec'[o] = [exec[o] EXCEPT !.status = "rolled_back", !.rollbackBy = call.id]
    BY <2>2 DEF TypeInv, TypeOK
  <2>4. /\ exec'[o].status = "rolled_back"
        /\ exec'[o].rollbackBy = call.id
        /\ exec'[o].action = exec[o].action
        /\ exec'[o].reverses = exec[o].reverses
    BY <2>3, Typed DEF Execution
  <2>5. Done(o)  BY <1>5, <2>1 DEF CallFits
  <2>6. Advances  BY <1>2, <1>4, <2>1, <2>4, <2>5, Typed DEF Advances, Onward, Done
  <2>7. CallFits' /\ ConfirmedFirst'
    BY <1>2, <1>3 DEF CallFits, ConfirmedFirst, Idle
  <2>8. OnlyTheCallExecutes'
    BY <1>2, <1>4, <2>1, <2>4 DEF OnlyTheCallExecutes
  <2>9. DoneRan' /\ MintedFirst'
    BY <1>2, <1>4, <2>1, <2>4, <2>5 DEF DoneRan, MintedFirst, Done
  <2>10. ConfirmedEachTime'
    BY <1>2, <1>4, <2>1, <2>4, <2>5 DEF ConfirmedEachTime, Done
  <2>11. HistoryTypeOK' /\ LinkFits'
    BY <1>4, <2>1, <2>4 DEF HistoryTypeOK, LinkFits
  <2> QED
    BY <1>1, <1>4, <2>1, <2>4, <2>6, <2>7, <2>8, <2>9, <2>10, <2>11
<1>6. CASE exec' = exec
  <2>1. Advances  BY <1>2, <1>6, Typed DEF Advances, Onward
  <2>2. CallFits' /\ ConfirmedFirst'
    BY <1>2, <1>3 DEF CallFits, ConfirmedFirst, Idle
  <2>3. OnlyTheCallExecutes'  BY <1>2, <1>6 DEF OnlyTheCallExecutes
  <2>4. DoneRan' /\ MintedFirst' /\ ConfirmedEachTime'
    BY <1>2, <1>6 DEF DoneRan, MintedFirst, ConfirmedEachTime, Done
  <2>5. HistoryTypeOK' /\ LinkFits'  BY <1>6 DEF HistoryTypeOK, LinkFits
  <2>6. ~(call.orig # None /\ exec[call.id].status = "succeeded") \/
        exec'[call.orig].rollbackBy = call.id
    BY <1>5
  <2> QED  BY <1>1, <1>4, <2>1, <2>2, <2>3, <2>4, <2>5, <2>6
<1> QED  BY <1>2, <1>5, <1>6 DEF Settled

\* What leaves the registry and its call alone.
LEMMA RegistryUnchanged ==
    ASSUME RegistryInv, TypeInv', UNCHANGED <<exec, call, ran, minted, confirms>>
    PROVE  RegistryInv' /\ Advances
<1> USE DEF RegistryInv
<1>1. Advances  BY Typed DEF Advances, Onward
<1>2. HistoryTypeOK' /\ CallFits' /\ OnlyTheCallExecutes'
  BY DEF HistoryTypeOK, CallFits, OnlyTheCallExecutes, Done, Idle
<1>3. DoneRan' /\ MintedFirst' /\ ConfirmedEachTime' /\ ConfirmedFirst' /\ LinkFits'
  BY DEF DoneRan, MintedFirst, ConfirmedEachTime, ConfirmedFirst, LinkFits, Done
<1> QED  BY <1>1, <1>2, <1>3

-----------------------------------------------------------------------------
(* The commands and the rows *)

Row == [id : ExecIds, exec : Execution]

Command ==
    [stage : {"idle", "waiting", "running", "persist"}, op : Ops \cup {"none"},
     id : ExecIds \cup {None}, topo : [Targets -> Twin],
     writes : Seq(Row), follow : ExecIds \cup {None}]

CommandTypeOK ==
    /\ cmd \in [Callers -> Command]
    /\ store \in [ExecIds -> Execution]

\* The rows the command k has yet to upsert.
RowsOf(k) == {k.writes[i] : i \in DOMAIN k.writes}

\* A command has rows to write only after its engine call, and then it has some,
\* or an execution to read back.
Fits(k) ==
    /\ k.stage = "idle" => k = NoCommand
    /\ k.stage \in {"waiting", "running"} => k.writes = <<>> /\ k.follow = None
    /\ k.stage = "waiting" => (k.op = "execute" <=> k.id = None)
    /\ k.stage = "running" => k.id \in ExecIds
    /\ k.stage = "persist" => k.writes # <<>> \/ k.follow # None

CommandFits == \A c \in Callers : Fits(cmd[c])

\* One command is inside the engine while a call is in progress. That call runs
\* the execution the command asked for, or reverses it: at the operator's wish,
\* or by an automatic reverse execution, which no row can be about yet.
RunFits ==
    /\ ~Idle => \E c \in Callers : cmd[c].stage = "running"
    /\ \A c, d \in Callers :
          cmd[c].stage = "running" /\ cmd[d].stage = "running" => c = d
    /\ \A c \in Callers : cmd[c].stage = "running" =>
          /\ ~Idle
          /\ cmd[c].op \in {"execute", "confirm"} =>
                exec[cmd[c].id].status # "rolled_back"
          /\ call.auto => call.orig = None /\ cmd[c].op \in {"execute", "confirm"}
          /\ call.orig \in {None, cmd[c].id}
          /\ call.orig = None => call.id = cmd[c].id /\ cmd[c].op # "rollback"
          /\ call.orig # None =>
                \/ cmd[c].op = "rollback" /\ call.top = call.id
                \/ /\ cmd[c].op \in {"execute", "confirm"}
                   /\ exec[call.id].auto
                   /\ \A d \in Callers : \A w \in RowsOf(cmd[d]) : w.id # call.id

\* x is what execution e once was while no call was about it.
Past(x, e) ==
    /\ x.status # "executing"
    /\ x.rollbackBy # None => x.status = "rolled_back"
    /\ Rank(x) <= Rank(exec[e])
    /\ Rank(x) = Rank(exec[e]) => x.status = exec[e].status
    /\ x.status \in {"succeeded", "rolled_back"} => ran[e] > 0
    /\ x.status # "absent" =>
          /\ e \in minted
          /\ x.action = exec[e].action
          /\ x.reverses = exec[e].reverses

RowsArePast ==
    /\ \A e \in ExecIds : Past(store[e], e)
    /\ \A c \in Callers :
          cmd[c].follow # None => exec[cmd[c].follow].status # "absent"
    /\ \A c \in Callers : \A w \in RowsOf(cmd[c]) :
          w.exec.status # "absent" /\ Past(w.exec, w.id)

\* The executions the call in progress may still change.
Touched(e) ==
    \E c \in Callers : cmd[c].stage = "running" /\ e \in {cmd[c].id, call.id}

\* Until two commands have rows of an execution at once or one fails to write it, its
\* row is up to date, or on its way in one command, or it is of a call in progress.
RowsFollow ==
    \A e \in ExecIds \ loose :
        /\ \A c, d \in Callers : e \in Pending(c) /\ e \in Pending(d) => c = d
        /\ \A c \in Callers : \A w \in RowsOf(cmd[c]) :
              w.id = e => w.exec = exec[e] \/ Touched(e)
        /\ \/ store[e] = exec[e]
           \/ exec[e].auto /\ exec[e].status = "failed"
           \/ Touched(e)
           \/ \E c \in Callers : e \in Pending(c)

CommandInv ==
    /\ CommandTypeOK
    /\ CommandFits
    /\ RunFits
    /\ RowsArePast
    /\ RowsFollow

StoreInv == RegistryInv /\ CommandInv

LEMMA PendingRows ==
    ASSUME NEW c \in Callers
    PROVE  Pending(c) = {cmd[c].follow} \cup {w.id : w \in RowsOf(cmd[c])}
BY DEF Pending, RowsOf

\* The rows of a list of one, of two, and of what is left once one is written.
LEMMA RowsLists ==
    /\ \A k : k.writes = <<>> => RowsOf(k) = {}
    /\ \A k, w : k.writes = <<w>> => RowsOf(k) = {w}
    /\ \A k, v, w : k.writes = <<v, w>> => RowsOf(k) = {v, w}
    /\ \A k, l : k.writes \in Seq(Row) /\ k.writes # <<>> /\ l.writes = Tail(k.writes)
            => /\ RowsOf(k) = {Head(k.writes)} \cup RowsOf(l)
               /\ Head(k.writes) \in Row /\ l.writes \in Seq(Row)
               /\ Len(k.writes) # 1 => l.writes # <<>>
               /\ Len(k.writes) = 1 => RowsOf(l) = {}
<1>1. ASSUME NEW k, k.writes = <<>> PROVE RowsOf(k) = {}
  BY <1>1 DEF RowsOf
<1>2. ASSUME NEW k, NEW w, k.writes = <<w>> PROVE RowsOf(k) = {w}
  BY <1>2 DEF RowsOf
<1>3. ASSUME NEW k, NEW v, NEW w, k.writes = <<v, w>> PROVE RowsOf(k) = {v, w}
  BY <1>3 DEF RowsOf
<1>4. ASSUME NEW k, NEW l, k.writes \in Seq(Row), k.writes # <<>>,
             l.writes = Tail(k.writes)
      PROVE  /\ RowsOf(k) = {Head(k.writes)} \cup RowsOf(l)
             /\ Head(k.writes) \in Row /\ l.writes \in Seq(Row)
             /\ Len(k.writes) # 1 => l.writes # <<>>
             /\ Len(k.writes) = 1 => RowsOf(l) = {}
  <2> DEFINE s == k.writes
             u == Tail(s)
  <2>1. /\ s \in Seq(Row) /\ Len(s) \in Nat /\ Len(s) >= 1
        /\ DOMAIN s = 1 .. Len(s)
        /\ Head(s) = s[1] /\ Head(s) \in Row
    BY <1>4
  <2>2. /\ u \in Seq(Row) /\ Len(u) = Len(s) - 1 /\ DOMAIN u = 1 .. Len(u)
        /\ \A i \in DOMAIN u : u[i] = s[i + 1]
    BY <1>4, <2>1
  <2>3. ASSUME NEW i \in DOMAIN s PROVE s[i] \in {Head(s)} \cup RowsOf(l)
    <3>1. CASE i = 1  BY <3>1, <2>1
    <3>2. CASE i # 1
      <4>1. i - 1 \in DOMAIN u /\ u[i - 1] = s[i]  BY <3>2, <2>1, <2>2
      <4> QED  BY <4>1, <1>4 DEF RowsOf
    <3> QED  BY <3>1, <3>2
  <2>4. ASSUME NEW i \in DOMAIN u PROVE u[i] \in RowsOf(k)
    <3>1. i + 1 \in DOMAIN s /\ u[i] = s[i + 1]  BY <2>1, <2>2
    <3> QED  BY <3>1 DEF RowsOf
  <2>5. Head(s) \in RowsOf(k)  BY <2>1 DEF RowsOf
  <2>6. RowsOf(k) = {Head(s)} \cup RowsOf(l)
    BY <2>3, <2>4, <2>5, <1>4 DEF RowsOf
  <2>7. Len(s) # 1 => u # <<>>
    <3>1. Len(s) # 1 => Len(u) # 0  BY <2>1, <2>2
    <3> QED  BY <3>1, EmptySeq
  <2>8. Len(s) = 1 => RowsOf(l) = {}  BY <2>1, <2>2, <1>4 DEF RowsOf
  <2> QED  BY <2>1, <2>2, <2>6, <2>7, <2>8, <1>4
<1> QED  BY <1>1, <1>2, <1>3, <1>4

\* What is past stays past, as long as no restart replaces the registry.
LEMMA PastStays ==
    ASSUME RegistryInv, RegistryInv', Advances, minted \subseteq minted',
           NEW x \in Execution, NEW e \in ExecIds, Past(x, e)
    PROVE  Past(x, e)'
<1>1. /\ x.status \in Statuses
      /\ exec[e].status \in Statuses /\ exec'[e].status \in Statuses
      /\ ran[e] \in Nat /\ ran'[e] \in Nat
  BY Typed DEF RegistryInv, TypeInv, TypeOK, Execution
<1>2. /\ Onward(exec[e].status, exec'[e].status)
      /\ exec[e].status # "absent" =>
            /\ exec'[e].action = exec[e].action
            /\ exec'[e].reverses = exec[e].reverses
      /\ ran'[e] >= ran[e]
  BY DEF Advances
<1>3. /\ Rank(x) <= Rank(exec'[e])
      /\ Rank(x) = Rank(exec'[e]) => x.status = exec'[e].status
  BY <1>1, <1>2 DEF Past, Rank, Onward, Statuses
<1>4. x.status # "absent" => exec[e].status # "absent"
  BY <1>1 DEF Past, Rank, Statuses
<1> QED  BY <1>1, <1>2, <1>3, <1>4 DEF Past

\* What the registry shows while no call is about it becomes past.
LEMMA PresentIsPast ==
    ASSUME RegistryInv', NEW e \in ExecIds, exec'[e].status # "executing"
    PROVE  Past(exec[e], e)'
<1>1. exec'[e].status \in {"succeeded", "rolled_back"} => ran'[e] > 0
  BY DEF RegistryInv, DoneRan, Done
<1>2. exec'[e].status # "absent" => e \in minted'
  BY DEF RegistryInv, MintedFirst
<1>3. Rank(exec'[e]) <= Rank(exec'[e])  BY DEF Rank
<1> QED  BY <1>1, <1>2, <1>3 DEF Past, RegistryInv, LinkFits

\* The rows, written or on their way, are past if each was or shows the present.
LEMMA PastRows ==
    ASSUME RegistryInv, RegistryInv', Advances, minted \subseteq minted',
           CommandInv, CommandTypeOK',
           \A c \in Callers : \A w \in RowsOf(cmd'[c]) :
                \/ \E d \in Callers : w \in RowsOf(cmd[d])
                \/ /\ w.id \in ExecIds /\ w.exec = exec'[w.id]
                   /\ exec'[w.id].status \notin {"absent", "executing"},
           \A c \in Callers : cmd'[c].follow # None =>
                \/ cmd'[c].follow = cmd[c].follow
                \/ exec'[cmd'[c].follow].status # "absent",
           \A e \in ExecIds :
                \/ store'[e] = store[e]
                \/ \E d \in Callers : \E w \in RowsOf(cmd[d]) :
                        w.id = e /\ store'[e] = w.exec
    PROVE  RowsArePast'
<1>1. \A c \in Callers : \A w \in RowsOf(cmd[c]) : w \in Row
  <2> SUFFICES ASSUME NEW c \in Callers, NEW i \in DOMAIN cmd[c].writes
               PROVE  cmd[c].writes[i] \in Row
    BY DEF RowsOf
  <2>1. cmd[c].writes \in Seq(Row)  BY DEF CommandInv, CommandTypeOK, Command
  <2> QED  BY <2>1
<1>2. ASSUME NEW c \in Callers, NEW w \in RowsOf(cmd[c])
      PROVE  /\ w.id \in ExecIds /\ w.exec \in Execution
             /\ w.exec.status # "absent" /\ Past(w.exec, w.id)'
  <2>1. w.id \in ExecIds /\ w.exec \in Execution  BY <1>1 DEF Row
  <2>2. w.exec.status # "absent" /\ Past(w.exec, w.id)
    BY DEF CommandInv, RowsArePast
  <2>3. \A x \in Execution, e \in ExecIds : Past(x, e) => Past(x, e)'
    BY PastStays
  <2> QED  BY <2>1, <2>2, <2>3
<1>3. ASSUME NEW e \in ExecIds PROVE Past(store[e], e)'
  <2>1. CASE store'[e] = store[e]
    <3>1. store[e] \in Execution /\ Past(store[e], e)
      BY DEF CommandInv, CommandTypeOK, RowsArePast
    <3>2. \A x \in Execution : Past(x, e) => Past(x, e)'  BY PastStays
    <3>3. PICK x \in Execution : x = store[e]  BY <3>1
    <3>4. Past(x, e)'  BY <3>1, <3>2, <3>3
    <3> QED  BY <3>3, <3>4, <2>1
  <2>2. ASSUME NEW d \in Callers, NEW w \in RowsOf(cmd[d]),
               w.id = e, store'[e] = w.exec
        PROVE  Past(store[e], e)'
    BY <1>2, <2>2
  <2> QED  BY <2>1, <2>2
<1>4. ASSUME NEW c \in Callers, cmd'[c].follow # None
      PROVE  exec'[cmd'[c].follow].status # "absent"
  <2>1. CASE cmd'[c].follow = cmd[c].follow
    <3>1. /\ cmd[c].follow \in ExecIds
          /\ exec[cmd[c].follow].status # "absent"
      BY <1>4, <2>1 DEF CommandInv, CommandTypeOK, Command, RowsArePast
    <3> QED  BY <2>1, <3>1 DEF Advances, Onward
  <2> QED  BY <1>4, <2>1
<1>5. ASSUME NEW c \in Callers, NEW w \in RowsOf(cmd'[c])
      PROVE  w.exec.status # "absent" /\ Past(w.exec, w.id)'
  <2>1. CASE \E d \in Callers : w \in RowsOf(cmd[d])  BY <1>2, <2>1
  <2>2. CASE /\ w.id \in ExecIds /\ w.exec = exec'[w.id]
             /\ exec'[w.id].status \notin {"absent", "executing"}
    <3>1. Past(exec[w.id], w.id)'
      BY <2>2, PresentIsPast
    <3> QED  BY <2>2, <3>1
  <2> QED  BY <2>1, <2>2
<1> QED  BY <1>3, <1>4, <1>5 DEF RowsArePast, RowsOf

LEMMA Races ==
    ASSUME NoteRaces
    PROVE  /\ loose \subseteq loose'
           /\ \A e \in ExecIds \ loose' : \A c, d \in Callers :
                e \in Pending(c)' /\ e \in Pending(d)' => c = d
BY DEF NoteRaces

\* The engine works on a call: an answer, or an automatic rollback that begins.
LEMMA CommandWork ==
    ASSUME StoreInv, RegistryInv', Advances, NoteRaces, UNCHANGED <<cmd, store>>,
           minted \subseteq minted', ~Idle, call'.stage # "idle",
           \/ /\ call' = [call EXCEPT !.stage = call'.stage]
              /\ exec'[call.id].auto = exec[call.id].auto
           \/ \E r \in ExecIds \ minted :
                /\ call' = ReverseCall(r, call.top, call.id, TRUE)
                /\ call.auto /\ exec'[r].auto /\ r # call.id,
           exec'[call.id].status = "rolled_back" => exec[call.id].status = "rolled_back",
           \A x \in ExecIds : x # call.id /\ x # call'.id => exec'[x] = exec[x]
    PROVE  CommandInv'
<1> USE DEF StoreInv, CommandInv
<1>1. PICK c \in Callers : cmd[c].stage = "running"  BY DEF RunFits
<1>2. /\ \A d \in Callers : cmd[d].stage = "running" => d = c
      /\ cmd[c].id \in ExecIds /\ call.id \in ExecIds
      /\ call.auto => call.orig = None /\ cmd[c].op \in {"execute", "confirm"}
      /\ call.orig \in {None, cmd[c].id}
      /\ call.orig = None => call.id = cmd[c].id /\ cmd[c].op # "rollback"
      /\ cmd[c].op \in {"execute", "confirm"} => exec[cmd[c].id].status # "rolled_back"
  BY <1>1, Typed DEF RunFits, CommandFits, Fits, RegistryInv
<1>3. CommandTypeOK' /\ CommandFits'  BY DEF CommandTypeOK, CommandFits
<1>4. RowsArePast'
  BY <1>3, PastRows
<1>5. \/ /\ call'.id = call.id /\ call'.orig = call.orig
         /\ call'.auto = call.auto /\ call'.top = call.top
         /\ exec'[call.id].auto = exec[call.id].auto
      \/ /\ call'.id \in ExecIds \ minted /\ call'.orig = call.id
         /\ ~call'.auto /\ call.auto /\ exec'[call'.id].auto /\ call'.id # call.id
  BY DEF ReverseCall, RegistryInv, TypeInv, TypeOK, Call
<1>6. call.auto => call.id = cmd[c].id  BY <1>2
<1>7. call'.id \notin minted => \A d \in Callers : \A w \in RowsOf(cmd[d]) : w.id # call'.id
  BY DEF RowsArePast, Past
<1>8. RunFits'
  <2> SUFFICES ASSUME NEW d \in Callers, cmd'[d].stage = "running"
      PROVE
          /\ d = c
          /\ cmd'[d].op \in {"execute", "confirm"} =>
                exec'[cmd'[d].id].status # "rolled_back"
          /\ call'.auto => call'.orig = None /\ cmd'[d].op \in {"execute", "confirm"}
          /\ call'.orig \in {None, cmd'[d].id}
          /\ call'.orig = None => call'.id = cmd'[d].id /\ cmd'[d].op # "rollback"
          /\ call'.orig # None =>
                \/ cmd'[d].op = "rollback" /\ call'.top = call'.id
                \/ /\ cmd'[d].op \in {"execute", "confirm"}
                   /\ exec'[call'.id].auto
                   /\ \A f \in Callers : \A w \in RowsOf(cmd'[f]) : w.id # call'.id
    BY <1>1 DEF RunFits, Idle
  <2>1. d = c  BY <1>2
  <2>2. cmd[c].op \in {"execute", "confirm"} => exec'[cmd[c].id].status # "rolled_back"
    <3>1. CASE cmd[c].id = call.id  BY <3>1, <1>2
    <3>2. CASE cmd[c].id # call.id
      <4>1. cmd[c].id # call'.id  BY <3>2, <1>5, <1>6
      <4> QED  BY <3>2, <4>1, <1>2
    <3> QED  BY <3>1, <3>2
  <2>3. call'.orig # None =>
                \/ cmd[c].op = "rollback" /\ call'.top = call'.id
                \/ /\ cmd[c].op \in {"execute", "confirm"}
                   /\ exec'[call'.id].auto
                   /\ \A f \in Callers : \A w \in RowsOf(cmd[f]) : w.id # call'.id
    BY <1>1, <1>2, <1>5, <1>7 DEF RunFits
  <2> QED  BY <2>1, <2>2, <2>3, <1>2, <1>5, <1>6, Typed DEF RegistryInv
<1>9. RowsFollow'
  <2>1. \A e \in ExecIds : Touched(e) => e \in {cmd[c].id, call.id}
    BY <1>2 DEF Touched
  <2>2. \A e \in {cmd[c].id, call.id, call'.id} : Touched(e)'
    BY <1>1, <1>5, <1>6 DEF Touched
  <2>3. \A e \in ExecIds : exec'[e] = exec[e] \/ Touched(e)'
    BY <2>2
  <2> SUFFICES ASSUME NEW e \in ExecIds \ loose', ~Touched(e)'
               PROVE  /\ \A d \in Callers : \A w \in RowsOf(cmd'[d]) :
                            w.id = e => w.exec = exec'[e]
                      /\ \/ store'[e] = exec'[e]
                         \/ exec'[e].auto /\ exec'[e].status = "failed"
                         \/ \E d \in Callers : e \in Pending(d)'
    BY Races, <2>2 DEF RowsFollow
  <2>4. e \notin loose /\ exec'[e] = exec[e] /\ ~Touched(e)
    BY <2>1, <2>2, <2>3, Races
  <2>5. \A d \in Callers : Pending(d)' = Pending(d)  BY DEF Pending
  <2> QED  BY <2>4, <2>5 DEF RowsFollow
<1> QED  BY <1>3, <1>4, <1>8, <1>9

\* A command takes the registry and its engine call runs on, for execution e.
LEMMA CommandBegins ==
    ASSUME StoreInv, RegistryInv', Advances, NoteRaces, store' = store,
           minted \subseteq minted', Idle,
           NEW c \in Callers, cmd[c].stage = "waiting", NEW e \in ExecIds, Runs(c, e),
           call'.stage # "idle", call'.id \in ExecIds,
           \/ /\ call'.orig = None /\ call'.id = e /\ cmd[c].op # "rollback"
              /\ call'.auto => cmd[c].op \in {"execute", "confirm"}
           \/ /\ call'.orig = e /\ cmd[c].op = "rollback"
              /\ call'.top = call'.id /\ ~call'.auto,
           cmd[c].op \in {"execute", "confirm"} => exec'[e].status # "rolled_back",
           \A x \in ExecIds : x # e /\ x # call'.id => exec'[x] = exec[x]
    PROVE  CommandInv'
<1> USE DEF StoreInv, CommandInv
<1>1. \A d \in Callers : cmd[d].stage # "running"  BY DEF RunFits
<1>2. /\ cmd[c].writes = <<>> /\ cmd[c].follow = None
      /\ cmd[c] \in Command
  BY DEF CommandFits, Fits, CommandTypeOK
<1>3. /\ \A d \in Callers : d # c => cmd'[d] = cmd[d]
      /\ cmd'[c] = [cmd[c] EXCEPT !.stage = "running", !.id = e]
  BY DEF Runs, CommandTypeOK
<1>4. /\ cmd'[c].stage = "running" /\ cmd'[c].id = e /\ cmd'[c].op = cmd[c].op
      /\ cmd'[c].writes = <<>> /\ cmd'[c].follow = None
      /\ cmd'[c] \in Command
  BY <1>2, <1>3 DEF Command
<1>5. CommandTypeOK'
  BY <1>3, <1>4 DEF CommandTypeOK, Runs
<1>6. CommandFits'
  <2>1. Fits(cmd'[c])  BY <1>4 DEF Fits
  <2> QED  BY <2>1, <1>3 DEF CommandFits
<1>7. \A d \in Callers : RowsOf(cmd'[d]) = RowsOf(cmd[d]) /\ cmd'[d].follow = cmd[d].follow
  <2>1. RowsOf(cmd'[c]) = {} /\ RowsOf(cmd[c]) = {}  BY <1>2, <1>4, RowsLists
  <2> QED  BY <2>1, <1>2, <1>3, <1>4
<1>8. RowsArePast'  BY <1>5, <1>7, PastRows
<1>9. RunFits'
  BY ZenonT(40), <1>1, <1>3, <1>4, Typed DEF RunFits, Idle, RegistryInv
<1>10. RowsFollow'
  <2>1. \A x \in ExecIds : x = e \/ x = call'.id => Touched(x)'
    BY <1>4 DEF Touched
  <2>2. \A d \in Callers : Pending(d)' = Pending(d)
    <3> SUFFICES ASSUME NEW d \in Callers PROVE Pending(d)' = Pending(d)  OBVIOUS
    <3>1. Pending(d)' = {cmd'[d].follow} \cup {w.id : w \in RowsOf(cmd'[d])}
      BY DEF Pending, RowsOf
    <3> QED  BY <3>1, <1>7, PendingRows
  <2> SUFFICES ASSUME NEW x \in ExecIds \ loose', ~Touched(x)'
               PROVE  /\ \A d \in Callers : \A w \in RowsOf(cmd'[d]) :
                            w.id = x => w.exec = exec'[x]
                      /\ \/ store'[x] = exec'[x]
                         \/ exec'[x].auto /\ exec'[x].status = "failed"
                         \/ \E d \in Callers : x \in Pending(d)'
    BY Races, <2>1 DEF RowsFollow
  <2>3. x \notin loose /\ exec'[x] = exec[x]  BY <2>1, Races
  <2>4. ~Touched(x)  BY <1>1 DEF Touched
  <2> QED  BY <2>2, <2>3, <2>4, <1>7 DEF RowsFollow
<1> QED  BY <1>5, <1>6, <1>8, <1>9, <1>10

\* A command takes the registry, is done with it at once and has e to upsert.
LEMMA CommandSaves ==
    ASSUME StoreInv, RegistryInv', Advances, NoteRaces, store' = store,
           minted \subseteq minted', Idle, call' = call,
           NEW c \in Callers, cmd[c].stage = "waiting", NEW e \in ExecIds, Saves(c, e),
           exec'[e].status \notin {"absent", "executing"},
           \A x \in ExecIds : x # e => exec'[x] = exec[x]
    PROVE  CommandInv'
<1> USE DEF StoreInv, CommandInv
<1> DEFINE row == [id |-> e, exec |-> exec'[e]]
<1>1. \A d \in Callers : cmd[d].stage # "running"  BY DEF RunFits
<1>2. cmd[c].follow = None /\ cmd[c] \in Command
  BY DEF CommandFits, Fits, CommandTypeOK
<1>3. /\ \A d \in Callers : d # c => cmd'[d] = cmd[d]
      /\ cmd'[c] = [cmd[c] EXCEPT !.stage = "persist", !.writes = <<row>>]
  BY DEF Saves, CommandTypeOK
<1>4. row \in Row  BY Typed DEF Row, RegistryInv, TypeInv, TypeOK
<1>5. <<row>> \in Seq(Row) /\ <<row>> # <<>>  BY <1>4
<1> HIDE DEF row
<1>6. /\ cmd'[c].stage = "persist" /\ cmd'[c].writes = <<row>>
      /\ cmd'[c].follow = None /\ cmd'[c] \in Command
  BY <1>2, <1>3, <1>5 DEF Command
<1>7. CommandTypeOK'  BY <1>3, <1>6 DEF CommandTypeOK, Saves
<1>8. CommandFits'
  <2>1. Fits(cmd'[c])  BY <1>5, <1>6 DEF Fits
  <2> QED  BY <2>1, <1>3 DEF CommandFits
<1>9. RowsOf(cmd'[c]) = {row}  BY <1>6, RowsLists
<1>10. row.id = e /\ row.exec = exec'[e]  BY DEF row
<1>11. RowsArePast'
  <2>1. \A d \in Callers : cmd'[d].follow = cmd[d].follow  BY <1>2, <1>3, <1>6
  <2> QED  BY <1>3, <1>7, <1>9, <1>10, <2>1, PastRows
<1>12. RunFits'  BY <1>1, <1>3, <1>6 DEF RunFits, Idle
<1>13. RowsFollow'
  <2>1. /\ \A d \in Callers : d # c => Pending(d)' = Pending(d)
        /\ e \in Pending(c)'
    <3>1. Pending(c)' = {cmd'[c].follow} \cup {w.id : w \in RowsOf(cmd'[c])}
      BY DEF Pending, RowsOf
    <3> QED  BY <3>1, <1>3, <1>9, <1>10 DEF Pending
  <2>2. \A x \in ExecIds : ~Touched(x)  BY <1>1 DEF Touched
  <2>3. Pending(c) = {None}
    <3>1. RowsOf(cmd[c]) = {}  BY RowsLists DEF CommandFits, Fits
    <3> QED  BY <3>1, <1>2, PendingRows
  <2> SUFFICES ASSUME NEW x \in ExecIds \ loose'
               PROVE  /\ \A d \in Callers : \A w \in RowsOf(cmd'[d]) :
                            w.id = x => w.exec = exec'[x]
                      /\ \/ store'[x] = exec'[x]
                         \/ exec'[x].auto /\ exec'[x].status = "failed"
                         \/ \E d \in Callers : x \in Pending(d)'
    BY Races DEF RowsFollow
  <2>4. ASSUME NEW d \in Callers, NEW w \in RowsOf(cmd'[d]), w.id = x
        PROVE  w.exec = exec'[x]
    <3>1. CASE d = c  BY <3>1, <2>4, <1>9, <1>10
    <3>2. CASE d # c
      <4>1. w \in RowsOf(cmd[d])  BY <3>2, <2>4, <1>3
      <4>2. x \in Pending(d)'  BY <4>1, <2>4, <3>2, <2>1, PendingRows
      <4>3. x # e  BY <4>2, <2>1, <3>2, Races
      <4> QED  BY <4>1, <4>3, <2>2, <2>4, Races DEF RowsFollow
    <3> QED  BY <3>1, <3>2
  <2>5. CASE x = e  BY <2>1, <2>4, <2>5
  <2>6. CASE x # e
    <3>1. \A d \in Callers : x \in Pending(d) => x \in Pending(d)'
      <4>1. x # None  BY Typed DEF RegistryInv
      <4> QED  BY <2>1, <2>3, <4>1
    <3>2. x \notin loose /\ exec'[x] = exec[x]  BY <2>6, Races
    <3> QED  BY <2>2, <2>4, <3>1, <3>2 DEF RowsFollow
  <2> QED  BY <2>5, <2>6
<1> QED  BY <1>7, <1>8, <1>11, <1>12, <1>13

\* The engine call of c is over: its rows are on their way.
LEMMA CommandLeaves ==
    ASSUME StoreInv, RegistryInv', Advances, NoteRaces, minted' = minted,
           NEW c \in Callers, Leave(c),
           \A x \in ExecIds : x # call.orig => exec'[x] = exec[x],
           call.orig # None /\ exec[call.id].status = "succeeded" =>
                exec'[call.orig].rollbackBy = call.id
    PROVE  CommandInv'
<1> USE DEF StoreInv, CommandInv
<1>1. /\ cmd[c].stage = "running" /\ call.stage = "return"
      /\ call' = NoCall /\ store' = store
  BY DEF Leave, Return
<1>2. PICK e \in ExecIds : e = cmd[c].id  BY <1>1 DEF CommandFits, Fits
<1>3. PICK i \in ExecIds : i = call.id  BY <1>1, Typed DEF RegistryInv, Idle
<1>4. PICK f : f = IF cmd[c].op \in {"execute", "confirm"}
                   THEN exec'[e].rollbackBy ELSE None
  OBVIOUS
<1>5. PICK ws : ws = IF cmd[c].op = "rollback"
                     THEN <<RowAfter(call.top), RowAfter(e)>> ELSE <<RowAfter(e)>>
  OBVIOUS
<1>6. /\ \A d \in Callers : d # c => cmd'[d] = cmd[d]
      /\ cmd'[c] = [cmd[c] EXCEPT !.stage = "persist", !.writes = ws, !.follow = f]
      /\ cmd' \in [Callers -> {cmd[d] : d \in Callers} \cup {cmd'[c]}]
  BY <1>1, <1>2, <1>4, <1>5 DEF Leave, CommandTypeOK
<1>7. cmd[c].op = "rollback" => call.top = i
  BY <1>1, <1>3 DEF RunFits
<1>8. \A x \in ExecIds : RowAfter(x) \in Row
                         /\ RowAfter(x).id = x /\ RowAfter(x).exec = exec'[x]
  BY Typed DEF RowAfter, Row, RegistryInv, TypeInv, TypeOK
<1>9. ws \in Seq(Row) /\ ws # <<>>
  BY <1>5, <1>7, <1>8
<1>10. f \in ExecIds \cup {None}
  BY <1>4, Typed DEF RegistryInv, TypeInv, TypeOK, Execution
<1>11. /\ cmd'[c].stage = "persist" /\ cmd'[c].writes = ws
       /\ cmd'[c].follow = f /\ cmd'[c] \in Command
  BY <1>6, <1>9, <1>10 DEF CommandTypeOK, Command
<1>12. CommandTypeOK'
  BY <1>1, <1>6, <1>11 DEF CommandTypeOK
<1>13. CommandFits'
  <2>1. Fits(cmd'[c])  BY <1>9, <1>11 DEF Fits
  <2> QED  BY <2>1, <1>6 DEF CommandFits
<1>14. RowsOf(cmd'[c]) = IF cmd[c].op = "rollback"
                         THEN {RowAfter(i), RowAfter(e)} ELSE {RowAfter(e)}
  <2>1. CASE cmd[c].op = "rollback"
    <3>1. cmd'[c].writes = <<RowAfter(i), RowAfter(e)>>
      BY <2>1, <1>5, <1>7, <1>11
    <3> QED  BY <2>1, <3>1, RowsLists
  <2>2. CASE cmd[c].op # "rollback"
    <3>1. cmd'[c].writes = <<RowAfter(e)>>  BY <2>2, <1>5, <1>11
    <3> QED  BY <2>2, <3>1, RowsLists
  <2> QED  BY <2>1, <2>2
<1>15. /\ \A d \in Callers : cmd[d].stage = "running" => d = c
       /\ call.orig \in {None, e}
       /\ call.orig = None => i = e /\ cmd[c].op # "rollback"
       /\ call.orig # None =>
             \/ cmd[c].op = "rollback"
             \/ /\ cmd[c].op \in {"execute", "confirm"} /\ exec[i].auto
                /\ \A d \in Callers : \A w \in RowsOf(cmd[d]) : w.id # i
       /\ cmd[c].op \in {"execute", "confirm"} => exec[e].status # "rolled_back"
  BY <1>1, <1>2, <1>3 DEF RunFits
<1>16. call.orig # None => /\ i # call.orig /\ exec[i].status \in {"succeeded", "failed"}
                          /\ Done(call.orig)
  BY <1>1, <1>3 DEF RegistryInv, CallFits
<1>17. \A x \in {e, i} : exec'[x].status \notin {"absent", "executing"}
  <2>1. Idle'  BY <1>1 DEF Idle, NoCall
  <2>2. \A x \in ExecIds : exec'[x].status # "executing"
    BY <2>1 DEF RegistryInv, OnlyTheCallExecutes, Idle
  <2>3. \A x \in ExecIds : exec[x].status # "absent" => exec'[x].status # "absent"
    BY DEF Advances, Onward
  <2>4. exec[i].status # "absent" /\ exec[e].status # "absent"
    BY <1>1, <1>3, <1>15, <1>16 DEF Done, RegistryInv, CallFits, Idle
  <2> QED  BY <2>2, <2>3, <2>4
<1>18. f # None => f = i
  <2>1. CASE call.orig # None /\ exec[i].status = "succeeded"
    BY <2>1, <1>3, <1>4, <1>15
  <2>2. CASE ~(call.orig # None /\ exec[i].status = "succeeded")
    <3>1. exec' = exec  BY <2>2, <1>3 DEF Leave, Return, Settled
    <3>2. cmd[c].op \in {"execute", "confirm"} => exec[e].rollbackBy = None
      BY <1>15 DEF RegistryInv, LinkFits
    <3> QED  BY <3>1, <3>2, <1>4
  <2> QED  BY <2>1, <2>2
<1>19. RowsArePast'
  <2>1. \A d \in Callers : cmd'[d].follow # None =>
            cmd'[d].follow = cmd[d].follow \/ exec'[cmd'[d].follow].status # "absent"
    BY <1>6, <1>11, <1>17, <1>18
  <2>2. \A d \in Callers : \A w \in RowsOf(cmd'[d]) :
            \/ \E g \in Callers : w \in RowsOf(cmd[g])
            \/ /\ w.id \in ExecIds /\ w.exec = exec'[w.id]
               /\ exec'[w.id].status \notin {"absent", "executing"}
    BY <1>6, <1>8, <1>14, <1>17
  <2> QED  BY <1>1, <1>12, <2>1, <2>2, PastRows
<1>20. RunFits'
  <2>1. Idle'  BY <1>1 DEF Idle, NoCall
  <2>2. \A d \in Callers : cmd'[d].stage # "running"  BY <1>6, <1>11, <1>15
  <2> QED  BY <2>1, <2>2 DEF RunFits
<1>21. RowsFollow'
  <2>1. \A d \in Callers : d # c => Pending(d)' = Pending(d)
    BY <1>6 DEF Pending
  <2>2. Pending(c)' = {f} \cup {w.id : w \in RowsOf(cmd'[c])}
    BY <1>11 DEF Pending, RowsOf
  <2>3. /\ e \in Pending(c)'
        /\ cmd[c].op = "rollback" => i \in Pending(c)'
    BY <2>2, <1>8, <1>14
  <2>4. \/ i \in Pending(c)'
        \/ /\ exec'[i] = exec[i] /\ exec[i].auto /\ exec[i].status = "failed"
           /\ \A d \in Callers : \A w \in RowsOf(cmd[d]) : w.id # i
    <3>1. CASE call.orig = None  BY <3>1, <2>3, <1>15
    <3>2. CASE cmd[c].op = "rollback"  BY <3>2, <2>3
    <3>3. CASE call.orig # None /\ cmd[c].op # "rollback"
      <4>1. exec'[i] = exec[i]  BY <3>3, <1>16
      <4>2. exec[i].status = "succeeded" => f = i
        BY <3>3, <1>3, <1>4, <1>15
      <4> QED  BY <3>3, <4>1, <4>2, <2>2, <1>15, <1>16
    <3> QED  BY <3>1, <3>2, <3>3
  <2>5. \A x \in ExecIds : Touched(x) => x \in {e, i}
    BY <1>2, <1>3, <1>15 DEF Touched
  <2>6. \A x \in ExecIds : x # e => exec'[x] = exec[x]
    BY <1>15, Typed DEF RegistryInv
  <2>7. Pending(c) = {None}
    <3>1. RowsOf(cmd[c]) = {} /\ cmd[c].follow = None
      BY <1>1, RowsLists DEF CommandFits, Fits
    <3> QED  BY <3>1, PendingRows
  <2> SUFFICES ASSUME NEW x \in ExecIds \ loose'
               PROVE  /\ \A d \in Callers : \A w \in RowsOf(cmd'[d]) :
                            w.id = x => w.exec = exec'[x]
                      /\ \/ store'[x] = exec'[x]
                         \/ exec'[x].auto /\ exec'[x].status = "failed"
                         \/ \E d \in Callers : x \in Pending(d)'
    BY Races DEF RowsFollow
  <2>8. ASSUME NEW d \in Callers, NEW w \in RowsOf(cmd'[d]), w.id = x
        PROVE  w.exec = exec'[x]
    <3>1. CASE d = c  BY <3>1, <2>8, <1>8, <1>14
    <3>2. CASE d # c
      <4>1. w \in RowsOf(cmd[d])  BY <3>2, <2>8, <1>6
      <4>2. x \in Pending(d)'  BY <4>1, <2>8, <3>2, <2>1, PendingRows
      <4>3. x \notin Pending(c)'  BY <4>2, <3>2, Races
      <4>4. x # e /\ x # i  BY <4>1, <4>3, <2>3, <2>4, <2>8
      <4>5. ~Touched(x)  BY <4>4, <2>5
      <4> QED  BY <4>1, <4>4, <4>5, <2>6, <2>8, Races DEF RowsFollow
    <3> QED  BY <3>1, <3>2
  <2>9. CASE x \in {e, i}  BY <2>3, <2>4, <2>8, <2>9
  <2>10. CASE x \notin {e, i}
    <3>1. \A d \in Callers : x \in Pending(d) => x \in Pending(d)'
      <4>1. x # None  BY Typed DEF RegistryInv
      <4> QED  BY <2>1, <2>7, <4>1
    <3>2. x \notin loose /\ exec'[x] = exec[x] /\ ~Touched(x)
      BY <2>5, <2>6, <2>10, Races
    <3> QED  BY <1>1, <2>8, <3>1, <3>2 DEF RowsFollow
  <2> QED  BY <2>9, <2>10
<1> QED  BY <1>12, <1>13, <1>19, <1>20, <1>21

\* A step of a command outside the registry: c's record changes, nothing else.
LEMMA CommandAside ==
    ASSUME StoreInv, UNCHANGED <<exec, call, ran, minted, confirms>>,
           loose \subseteq loose',
           \A e \in ExecIds \ loose' : \A b, d \in Callers :
                e \in Pending(b)' /\ e \in Pending(d)' => b = d,
           RegistryInv',
           NEW c \in Callers, cmd[c].stage # "running", cmd'[c].stage # "running",
           \A d \in Callers : d # c => cmd'[d] = cmd[d],
           CommandTypeOK', Fits(cmd'[c]), RowsArePast',
           \/ RowsOf(cmd'[c]) \subseteq RowsOf(cmd[c])
           \/ Idle /\ \A w \in RowsOf(cmd'[c]) : w.exec = exec[w.id],
           \A e \in ExecIds : e \in Pending(c) => e \in Pending(c)' \/ store'[e] = exec[e]
                                                    \/ e \in loose' \/ Touched(e),
           \A e \in ExecIds : \/ store'[e] = store[e] \/ store'[e] = exec[e]
                               \/ e \in loose \/ Touched(e)
    PROVE  CommandInv'
<1> USE DEF StoreInv, CommandInv
<1>1. CommandFits'  BY DEF CommandFits
<1>2. RunFits'
  <2>1. \A d \in Callers : cmd'[d].stage = "running" \/ cmd[d].stage = "running" =>
            cmd'[d] = cmd[d]
    OBVIOUS
  <2>2. ~Idle => \A d \in Callers : RowsOf(cmd'[d]) \subseteq RowsOf(cmd[d])
    OBVIOUS
  <2>3. Idle' = Idle  BY DEF Idle
  <2>4. CASE Idle
    <3>1. \A d \in Callers : cmd'[d].stage # "running"
      BY <2>1, <2>4 DEF RunFits
    <3> QED  BY <2>3, <2>4, <3>1 DEF RunFits
  <2>5. CASE ~Idle
    <3>1. \E d \in Callers : cmd'[d].stage = "running"
      BY <2>5 DEF RunFits
    <3>2. \A d \in Callers : cmd'[d].stage = "running" => cmd[d].stage = "running"
      BY <2>1
    <3>3. ASSUME NEW d \in Callers, cmd'[d].stage = "running"
          PROVE  /\ call.auto => call.orig = None /\ cmd'[d].op \in {"execute", "confirm"}
                 /\ cmd'[d].op \in {"execute", "confirm"} =>
                       exec[cmd'[d].id].status # "rolled_back"
                 /\ call.orig \in {None, cmd'[d].id}
                 /\ call.orig = None => call.id = cmd'[d].id /\ cmd'[d].op # "rollback"
                 /\ call.orig # None =>
                       \/ cmd'[d].op = "rollback" /\ call.top = call.id
                       \/ /\ cmd'[d].op \in {"execute", "confirm"}
                          /\ exec[call.id].auto
                          /\ \A g \in Callers : \A w \in RowsOf(cmd'[g]) : w.id # call.id
      BY <2>1, <2>2, <2>5, <3>3 DEF RunFits
    <3> QED  BY <2>3, <2>5, <3>1, <3>2, <3>3 DEF RunFits
  <2> QED  BY <2>4, <2>5
<1>3. \A e \in ExecIds : Touched(e)' <=> Touched(e)  BY DEF Touched
<1>4. \A d \in Callers : d # c => Pending(d)' = Pending(d)  BY DEF Pending
<1>5. RowsFollow'
  <2> SUFFICES ASSUME NEW x \in ExecIds \ loose', ~Touched(x)
               PROVE  /\ \A d \in Callers : \A w \in RowsOf(cmd'[d]) :
                            w.id = x => w.exec = exec[x]
                      /\ \/ store'[x] = exec[x]
                         \/ exec[x].auto /\ exec[x].status = "failed"
                         \/ \E d \in Callers : x \in Pending(d)'
    BY <1>3 DEF RowsFollow
  <2>1. x \notin loose  OBVIOUS
  <2> QED  BY <2>1, <1>4 DEF RowsFollow
<1> QED  BY <1>1, <1>2, <1>5

LEMMA RequestStep ==
    ASSUME StoreInv, NoteRaces, NEW c \in Callers, Request(c) PROVE StoreInv'
<1> USE DEF StoreInv
<1>1. /\ UNCHANGED <<exec, call, ran, minted, confirms>> /\ UNCHANGED <<vars, store>>
      /\ cmd[c].stage = "idle"
  BY DEF Request, vars, envVars
<1>2. RegistryInv' /\ Advances
  <2>1. TypeInv'
    BY <1>1, TypeStep DEF RegistryInv
  <2> QED  BY <1>1, <2>1, RegistryUnchanged
<1>3. PICK op \in Asked, e \in ExecIds \cup {None} :
        /\ op = "execute" <=> e = None
        /\ cmd' = [cmd EXCEPT ![c].stage = "waiting", ![c].op = op,
                              ![c].id = e, ![c].topo = Snapshot]
  BY DEF Request
<1>4. cmd[c] = NoCommand /\ cmd[c] \in Command
  BY <1>1 DEF CommandInv, CommandFits, Fits, CommandTypeOK
<1>5. Snapshot \in [Targets -> Twin] /\ op \in Ops
  BY SnapshotType, CallersAssumption DEF RegistryInv, TypeInv
<1>6. /\ \A d \in Callers : d # c => cmd'[d] = cmd[d]
      /\ cmd'[c] = [cmd[c] EXCEPT !.stage = "waiting", !.op = op, !.id = e,
                                  !.topo = Snapshot]
  BY <1>3 DEF CommandInv, CommandTypeOK
<1>7. /\ cmd'[c].stage = "waiting" /\ cmd'[c].op = op /\ cmd'[c].id = e
      /\ cmd'[c].writes = <<>> /\ cmd'[c].follow = None /\ cmd'[c] \in Command
      /\ cmd[c].writes = <<>> /\ cmd[c].follow = None
  <2>1. cmd[c].writes = <<>> /\ cmd[c].follow = None  BY <1>4 DEF NoCommand
  <2> QED  BY <1>4, <1>5, <1>6, <2>1 DEF Command
<1>8. CommandTypeOK'  BY <1>1, <1>3, <1>7 DEF CommandInv, CommandTypeOK
<1>9. Fits(cmd'[c])  BY <1>3, <1>7 DEF Fits
<1>10. RowsOf(cmd'[c]) = {} /\ RowsOf(cmd[c]) = {}  BY <1>7, RowsLists
<1>11. RowsArePast'  BY <1>1, <1>2, <1>6, <1>7, <1>8, <1>10, PastRows
<1>12. Pending(c) = {None}  BY <1>7, <1>10, PendingRows
<1>13. \A x \in ExecIds : x # None  BY IdsAssumption
<1> QED
  BY <1>1, <1>2, <1>6, <1>7, <1>8, <1>9, <1>10, <1>11, <1>12, <1>13, CommandAside, Races

LEMMA RefuseStep ==
    ASSUME StoreInv, NoteRaces, NEW c \in Callers, Refuse(c) PROVE StoreInv'
<1> USE DEF StoreInv
<1>1. /\ UNCHANGED <<exec, call, ran, minted, confirms>> /\ UNCHANGED <<vars, store>>
      /\ cmd[c].stage = "waiting"
      /\ cmd' = [cmd EXCEPT ![c] = NoCommand]
  BY DEF Refuse, vars, envVars
<1>2. RegistryInv' /\ Advances
  <2>1. TypeInv'  BY <1>1, TypeStep DEF RegistryInv
  <2> QED  BY <1>1, <2>1, RegistryUnchanged
<1>3. /\ \A d \in Callers : d # c => cmd'[d] = cmd[d]
      /\ cmd'[c] = NoCommand
  BY <1>1 DEF CommandInv, CommandTypeOK
<1>4. /\ NoCommand \in Command /\ NoCommand.stage = "idle"
      /\ NoCommand.writes = <<>> /\ NoCommand.follow = None
  BY NoTwinType DEF NoCommand, Command
<1>5. CommandTypeOK'  BY <1>1, <1>4 DEF CommandInv, CommandTypeOK
<1>6. Fits(cmd'[c])  BY <1>3, <1>4 DEF Fits
<1>7. cmd[c].writes = <<>> /\ cmd[c].follow = None
  BY <1>1 DEF CommandInv, CommandFits, Fits
<1>8. RowsOf(cmd'[c]) = {} /\ RowsOf(cmd[c]) = {}  BY <1>3, <1>4, <1>7, RowsLists
<1>9. RowsArePast'  BY <1>1, <1>2, <1>3, <1>4, <1>5, <1>8, PastRows
<1>10. Pending(c) = {None}  BY <1>7, <1>8, PendingRows
<1>11. \A x \in ExecIds : x # None  BY IdsAssumption
<1> QED
  BY <1>1, <1>2, <1>3, <1>4, <1>5, <1>6, <1>8, <1>9, <1>10, <1>11, CommandAside, Races

LEMMA UpsertStep ==
    ASSUME StoreInv, NoteRaces, NEW c \in Callers, Upsert(c) PROVE StoreInv'
<1> USE DEF StoreInv
<1>1. /\ UNCHANGED <<exec, call, ran, minted, confirms>> /\ UNCHANGED vars
      /\ cmd[c].stage = "persist" /\ cmd[c].writes # <<>>
  BY DEF Upsert, vars, envVars
<1>2. RegistryInv' /\ Advances
  <2>1. TypeInv'  BY <1>1, TypeStep DEF RegistryInv
  <2> QED  BY <1>1, <2>1, RegistryUnchanged
<1>3. PICK row : row = Head(cmd[c].writes)  OBVIOUS
<1>4. PICK k : k = IF Len(cmd[c].writes) = 1 /\ cmd[c].follow = None THEN NoCommand
                   ELSE [cmd[c] EXCEPT !.writes = Tail(@)]
  OBVIOUS
<1>5. /\ \A d \in Callers : d # c => cmd'[d] = cmd[d]
      /\ cmd'[c] = k
      /\ cmd' = [cmd EXCEPT ![c] = k]
      /\ store' = [store EXCEPT ![row.id] = row.exec]
  <2>1. store' = [store EXCEPT ![row.id] = row.exec]  BY <1>3 DEF Upsert
  <2>2. cmd' = [cmd EXCEPT ![c] =
            IF Len(cmd[c].writes) = 1 /\ cmd[c].follow = None THEN NoCommand
            ELSE [cmd[c] EXCEPT !.writes = Tail(@)]]
    BY DEF Upsert
  <2>3. cmd \in [Callers -> Command]  BY DEF CommandInv, CommandTypeOK
  <2>4. cmd' = [cmd EXCEPT ![c] = k]  BY <1>4, <2>2
  <2> QED  BY <2>1, <2>3, <2>4
<1>6. cmd[c] \in Command /\ cmd[c].writes \in Seq(Row)
  BY DEF CommandInv, CommandTypeOK, Command
<1>7. PICK l : l = [cmd[c] EXCEPT !.writes = Tail(@)]  OBVIOUS
<1>8. /\ l.writes = Tail(cmd[c].writes) /\ l.stage = "persist"
      /\ l.follow = cmd[c].follow
  BY <1>1, <1>6, <1>7 DEF Command
<1>9. /\ RowsOf(cmd[c]) = {row} \cup RowsOf(l)
      /\ row \in Row /\ l.writes \in Seq(Row)
      /\ Len(cmd[c].writes) # 1 => l.writes # <<>>
      /\ Len(cmd[c].writes) = 1 => RowsOf(l) = {}
  BY <1>1, <1>3, <1>6, <1>8, RowsLists
<1>10. l \in Command  BY <1>6, <1>7, <1>9 DEF Command
<1>11. /\ NoCommand \in Command /\ NoCommand.stage = "idle"
       /\ RowsOf(NoCommand) = {} /\ NoCommand.follow = None
  BY NoTwinType, RowsLists DEF NoCommand, Command
<1>12. /\ k \in Command /\ k.stage # "running" /\ Fits(k)
       /\ k.follow = cmd[c].follow /\ RowsOf(k) = RowsOf(l)
  <2>1. CASE Len(cmd[c].writes) = 1 /\ cmd[c].follow = None
    BY <2>1, <1>4, <1>9, <1>11 DEF Fits
  <2>2. CASE ~(Len(cmd[c].writes) = 1 /\ cmd[c].follow = None)
    <3>1. k = l  BY <2>2, <1>4, <1>7
    <3> QED  BY <2>2, <3>1, <1>8, <1>9, <1>10 DEF Fits
  <2> QED  BY <2>1, <2>2
<1>13. /\ row.id \in ExecIds /\ row.exec \in Execution
       /\ store'[row.id] = row.exec
       /\ \A x \in ExecIds : x # row.id => store'[x] = store[x]
  BY <1>5, <1>9 DEF Row, CommandInv, CommandTypeOK
<1>14. CommandTypeOK'
  BY <1>5, <1>12, <1>13 DEF CommandInv, CommandTypeOK
<1>15. RowsArePast'
  <2>1. \A d \in Callers : cmd'[d].follow = cmd[d].follow  BY <1>5, <1>12
  <2>2. \A d \in Callers : \A w \in RowsOf(cmd'[d]) : \E g \in Callers : w \in RowsOf(cmd[g])
    BY <1>5, <1>9, <1>12
  <2>3. \A x \in ExecIds : \/ store'[x] = store[x]
                            \/ \E d \in Callers : \E w \in RowsOf(cmd[d]) :
                                    w.id = x /\ store'[x] = w.exec
    BY <1>9, <1>13
  <2> QED  BY <1>1, <1>2, <1>14, <2>1, <2>2, <2>3, PastRows
<1>16. row.id \in loose \/ row.exec = exec[row.id] \/ Touched(row.id)
  BY <1>9, <1>13 DEF CommandInv, RowsFollow
<1>17. \A x \in ExecIds : \/ store'[x] = store[x] \/ store'[x] = exec[x]
                           \/ x \in loose \/ Touched(x)
  BY <1>13, <1>16
<1>18. \A x \in ExecIds : x \in Pending(c) =>
            x \in Pending(c)' \/ store'[x] = exec[x] \/ x \in loose \/ Touched(x)
  <2>1. Pending(c) = {cmd[c].follow} \cup {w.id : w \in RowsOf(cmd[c])}
    BY PendingRows
  <2>2. Pending(c)' = {k.follow} \cup {w.id : w \in RowsOf(k)}
    BY <1>5 DEF Pending, RowsOf
  <2> QED  BY <2>1, <2>2, <1>9, <1>12, <1>13, <1>16
<1> QED
  BY <1>1, <1>2, <1>5, <1>9, <1>12, <1>14, <1>15, <1>17, <1>18, CommandAside, Races

\* What the command had to write is given up.
LEMMA UpsertFailsStep ==
    ASSUME StoreInv, NEW c \in Callers, UpsertFails(c) PROVE StoreInv'
<1> USE DEF StoreInv
<1>1. /\ UNCHANGED <<exec, call, ran, minted, confirms>> /\ UNCHANGED <<vars, store>>
      /\ cmd[c].stage = "persist"
      /\ cmd' = [cmd EXCEPT ![c] = NoCommand]
      /\ loose' = loose \cup (Pending(c) \ {None})
  BY DEF UpsertFails, vars, envVars
<1>2. RegistryInv' /\ Advances
  <2>1. TypeInv'  BY <1>1, TypeStep DEF RegistryInv
  <2> QED  BY <1>1, <2>1, RegistryUnchanged
<1>3. /\ \A d \in Callers : d # c => cmd'[d] = cmd[d]
      /\ cmd'[c] = NoCommand
  BY <1>1 DEF CommandInv, CommandTypeOK
<1>4. /\ NoCommand \in Command /\ NoCommand.stage = "idle"
      /\ NoCommand.writes = <<>> /\ NoCommand.follow = None
  BY NoTwinType DEF NoCommand, Command
<1>5. CommandTypeOK'  BY <1>1, <1>4 DEF CommandInv, CommandTypeOK
<1>6. Fits(cmd'[c])  BY <1>3, <1>4 DEF Fits
<1>7. RowsOf(cmd'[c]) = {}  BY <1>3, <1>4, RowsLists
<1>8. RowsArePast'
  <2>1. \A d \in Callers : cmd'[d].follow # None => cmd'[d].follow = cmd[d].follow
    BY <1>3, <1>4
  <2>2. \A d \in Callers : \A w \in RowsOf(cmd'[d]) : \E g \in Callers : w \in RowsOf(cmd[g])
    BY <1>3, <1>7
  <2> QED  BY <1>1, <1>2, <1>5, <2>1, <2>2, PastRows
<1>9. \A x \in ExecIds : x # None  BY IdsAssumption
<1>10. /\ \A x \in ExecIds : x \notin Pending(c)'
       /\ \A d \in Callers : d # c => Pending(d)' = Pending(d)
  BY <1>3, <1>4, <1>9 DEF Pending
<1>11. \A x \in ExecIds \ loose' : \A b, d \in Callers :
           x \in Pending(b)' /\ x \in Pending(d)' => b = d
  BY <1>1, <1>10 DEF CommandInv, RowsFollow
<1>12. \A x \in ExecIds : x \in Pending(c) => x \in loose'
  BY <1>1, <1>9
<1> QED
  BY <1>1, <1>2, <1>3, <1>4, <1>5, <1>6, <1>7, <1>8, <1>11, <1>12, CommandAside

LEMMA FollowUpStep ==
    ASSUME StoreInv, NoteRaces, NEW c \in Callers, FollowUp(c) PROVE StoreInv'
<1> USE DEF StoreInv
<1>1. /\ UNCHANGED <<exec, call, ran, minted, confirms>> /\ UNCHANGED <<vars, store>>
      /\ cmd[c].stage = "persist" /\ cmd[c].writes = <<>> /\ Idle
  BY DEF FollowUp, vars, envVars
<1>2. RegistryInv' /\ Advances
  <2>1. TypeInv'  BY <1>1, TypeStep DEF RegistryInv
  <2> QED  BY <1>1, <2>1, RegistryUnchanged
<1>3. PICK r \in ExecIds : r = cmd[c].follow /\ exec[r].status # "absent"
  BY <1>1 DEF CommandInv, CommandFits, Fits, CommandTypeOK, Command, RowsArePast
<1>4. PICK row : row = [id |-> r, exec |-> exec[r]]  OBVIOUS
<1>5. /\ \A d \in Callers : d # c => cmd'[d] = cmd[d]
      /\ cmd'[c] = [cmd[c] EXCEPT !.writes = <<row>>, !.follow = None]
      /\ cmd' = [cmd EXCEPT ![c].writes = <<row>>, ![c].follow = None]
  BY <1>3, <1>4 DEF FollowUp, CommandInv, CommandTypeOK
<1>6. row \in Row /\ row.id = r /\ row.exec = exec[r]
  BY <1>4, Typed DEF Row, RegistryInv
<1>7. <<row>> \in Seq(Row) /\ <<row>> # <<>>  BY <1>6
<1>8. /\ cmd'[c].stage = "persist" /\ cmd'[c].writes = <<row>>
      /\ cmd'[c].follow = None /\ cmd'[c] \in Command
  BY ZenonT(40), <1>1, <1>5, <1>7 DEF CommandInv, CommandTypeOK, Command
<1>9. CommandTypeOK'  BY <1>1, <1>5, <1>8 DEF CommandInv, CommandTypeOK
<1>10. Fits(cmd'[c])  BY <1>7, <1>8 DEF Fits
<1>11. RowsOf(cmd'[c]) = {row} /\ RowsOf(cmd[c]) = {}  BY <1>1, <1>8, RowsLists
<1>12. exec[r].status # "executing"
  BY <1>1 DEF RegistryInv, OnlyTheCallExecutes, Idle
<1>13. RowsArePast'
  <2>1. \A d \in Callers : cmd'[d].follow # None => cmd'[d].follow = cmd[d].follow
    BY <1>5, <1>8
  <2>2. \A d \in Callers : \A w \in RowsOf(cmd'[d]) :
            \/ \E g \in Callers : w \in RowsOf(cmd[g])
            \/ /\ w.id \in ExecIds /\ w.exec = exec'[w.id]
               /\ exec'[w.id].status \notin {"absent", "executing"}
    BY <1>1, <1>3, <1>5, <1>6, <1>11, <1>12
  <2> QED  BY <1>1, <1>2, <1>9, <2>1, <2>2, PastRows
<1>14. Pending(c) = {r}  BY <1>3, <1>11, PendingRows
<1>15. r \in Pending(c)'
  <2>1. Pending(c)' = {cmd'[c].follow} \cup {w.id : w \in RowsOf(cmd'[c])}
    BY DEF Pending, RowsOf
  <2> QED  BY <2>1, <1>6, <1>11
<1> QED
  BY <1>1, <1>2, <1>5, <1>6, <1>8, <1>9, <1>10, <1>11, <1>13, <1>14, <1>15, CommandAside, Races

\* Nothing of a command, of the rows or of the registry changes.
LEMMA AsideStep ==
    ASSUME StoreInv, NoteRaces, TypeInv',
           UNCHANGED <<exec, call, ran, minted, confirms, cmd, store>>
    PROVE  StoreInv'
<1> USE DEF StoreInv, CommandInv
<1>1. RegistryInv'  BY RegistryUnchanged
<1>2. CommandTypeOK' /\ CommandFits' /\ RunFits'
  BY DEF CommandTypeOK, CommandFits, RunFits, Idle
<1>3. RowsArePast'
  BY DEF RowsArePast, Past
<1>4. RowsFollow'
  <2>1. /\ \A e : Touched(e)' <=> Touched(e)
        /\ \A c \in Callers : Pending(c)' = Pending(c)
    BY DEF Touched, Pending
  <2> QED  BY <2>1, Races DEF RowsFollow
<1> QED  BY <1>1, <1>2, <1>3, <1>4

LEMMA EnterStep ==
    ASSUME StoreInv, NoteRaces, NEW c \in Callers, Enter(c) PROVE StoreInv'
<1> USE DEF StoreInv
<1>1. cmd[c] \in Command /\ cmd[c].topo \in [Targets -> Twin]
  BY DEF CommandInv, CommandTypeOK, Command
<1>2. cmd[c].stage = "waiting" /\ cmd[c].op # "execute" => cmd[c].id \in ExecIds
  BY <1>1 DEF CommandInv, CommandFits, Fits, Command
<1>3. CASE EnterExecute(c)
  <2>1. PICK e \in ExecIds, a \in UsedActions, t \in Targets :
            /\ Mints(e)
            /\ \E d \in DeltasOf(a) : Execute(e, a, t, d, cmd[c].topo)
            /\ IF NeedsApproval(a) THEN Saves(c, e) ELSE Runs(c, e)
    BY <1>3 DEF EnterExecute
  <2>2. PICK d \in DeltasOf(a) :
            \/ ExecuteGated(e, a, t, d, cmd[c].topo)
            \/ ExecuteNow(e, a, t, d, cmd[c].topo)
    BY <2>1 DEF Execute
  <2>3. /\ cmd[c].stage = "waiting" /\ cmd[c].op = "execute"
        /\ store' = store /\ confirms' = confirms
    BY <1>3 DEF EnterExecute, Asks
  <2>4. minted' = minted \cup {e} /\ HistoryTypeOK'
    BY <2>1, <2>3 DEF Mints, RegistryInv, HistoryTypeOK
  <2>5. RegistryInv' /\ Advances
    BY <1>1, <2>1, <2>2, <2>3, <2>4, RegistryExecute
  <2>6. CASE ExecuteGated(e, a, t, d, cmd[c].topo)
    <3>1. /\ Idle /\ call' = call /\ NeedsApproval(a)
          /\ exec' = [exec EXCEPT ![e] = Fresh(a, t, d, "awaiting_approval")]
      BY <2>6 DEF ExecuteGated
    <3>2. /\ exec'[e].status = "awaiting_approval"
          /\ \A x \in ExecIds : x # e => exec'[x] = exec[x]
      BY <3>1 DEF Fresh, RegistryInv, TypeInv, TypeOK
    <3> QED  BY <2>1, <2>3, <2>4, <2>5, <3>1, <3>2, CommandSaves
  <2>7. CASE ExecuteNow(e, a, t, d, cmd[c].topo)
    <3>1. /\ Idle /\ call' = RunCall(e) /\ ~NeedsApproval(a)
          /\ exec' = [exec EXCEPT ![e] = Fresh(a, t, d, "executing")]
      BY <2>7 DEF ExecuteNow
    <3>2. /\ exec'[e].status = "executing"
          /\ \A x \in ExecIds : x # e => exec'[x] = exec[x]
      BY <3>1 DEF Fresh, RegistryInv, TypeInv, TypeOK
    <3>3. call'.stage = "handler" /\ call'.id = e /\ call'.orig = None
      BY <3>1 DEF RunCall
    <3> QED  BY <2>1, <2>3, <2>4, <2>5, <3>1, <3>2, <3>3, CommandBegins
  <2> QED  BY <2>2, <2>6, <2>7
<1>4. CASE EnterConfirm(c)
  <2>1. PICK e \in ExecIds : e = cmd[c].id
    BY <1>2, <1>4 DEF EnterConfirm, Asks
  <2>2. /\ cmd[c].stage = "waiting" /\ cmd[c].op = "confirm"
        /\ store' = store /\ minted' = minted /\ Runs(c, e)
        /\ Confirm(e, cmd[c].topo)
        /\ confirms' = [confirms EXCEPT ![e] = @ + 1]
    BY <1>4, <2>1 DEF EnterConfirm, Asks
  <2>3. RegistryInv' /\ Advances  BY <1>1, <2>2, RegistryConfirm
  <2>4. /\ Idle /\ call' = RunCall(e)
        /\ exec[e].status = "awaiting_approval"
        /\ exec' = [exec EXCEPT ![e].approved = TRUE]
    BY <2>2 DEF Confirm
  <2>5. /\ exec'[e].status = "awaiting_approval"
        /\ \A x \in ExecIds : x # e => exec'[x] = exec[x]
    BY <2>4, Typed DEF RegistryInv, TypeInv, TypeOK, Execution
  <2>6. call'.stage = "handler" /\ call'.id = e /\ call'.orig = None
    BY <2>4 DEF RunCall
  <2> QED  BY <2>2, <2>3, <2>4, <2>5, <2>6, CommandBegins
<1>5. CASE EnterCancel(c)
  <2>1. PICK e \in ExecIds : e = cmd[c].id
    BY <1>2, <1>5 DEF EnterCancel, Asks
  <2>2. /\ cmd[c].stage = "waiting" /\ store' = store /\ minted' = minted
        /\ confirms' = confirms /\ Saves(c, e) /\ Cancel(e)
    BY <1>5, <2>1 DEF EnterCancel, Asks
  <2>3. RegistryInv' /\ Advances  BY <2>2, RegistryCancel
  <2>4. /\ Idle /\ call' = call
        /\ exec' = [exec EXCEPT ![e].status = "rejected"]
    BY <2>2 DEF Cancel
  <2>5. /\ exec'[e].status = "rejected"
        /\ \A x \in ExecIds : x # e => exec'[x] = exec[x]
    BY <2>4, Typed DEF RegistryInv, TypeInv, TypeOK, Execution
  <2> QED  BY <2>2, <2>3, <2>4, <2>5, CommandSaves
<1>6. CASE EnterRollback(c)
  <2>1. PICK e \in ExecIds : e = cmd[c].id
    BY <1>2, <1>6 DEF EnterRollback, Asks
  <2>2. PICK r \in ExecIds : Mints(r) /\ Rollback(e, r, cmd[c].topo)
    BY <1>6, <2>1 DEF EnterRollback
  <2>3. /\ cmd[c].stage = "waiting" /\ cmd[c].op = "rollback"
        /\ store' = store /\ confirms' = confirms /\ Runs(c, e)
    BY <1>6, <2>1 DEF EnterRollback, Asks
  <2>4. minted' = minted \cup {r} /\ HistoryTypeOK'
    BY <2>2, <2>3 DEF Mints, RegistryInv, HistoryTypeOK
  <2>5. RegistryInv' /\ Advances
    BY <1>1, <2>2, <2>3, <2>4, RegistryRollback
  <2>6. /\ Idle /\ call' = ReverseCall(r, r, e, FALSE)
        /\ exec' = [exec EXCEPT ![r] = Reversal(e, FALSE)]
    BY <2>2 DEF Rollback
  <2>7. \A x \in ExecIds : x # r => exec'[x] = exec[x]
    BY <2>6 DEF RegistryInv, TypeInv, TypeOK
  <2>8. /\ call'.stage = "handler" /\ call'.id = r /\ call'.orig = e
        /\ call'.top = r /\ ~call'.auto
    BY <2>6 DEF ReverseCall
  <2> QED  BY <2>3, <2>4, <2>5, <2>6, <2>7, <2>8, CommandBegins
<1>7. CASE EnterReverify(c)
  <2>1. PICK e \in ExecIds : e = cmd[c].id
    BY <1>2, <1>7 DEF EnterReverify, Asks
  <2>2. /\ cmd[c].stage = "waiting" /\ cmd[c].op = "reverify"
        /\ store' = store /\ minted' = minted /\ confirms' = confirms
        /\ Runs(c, e) /\ Reverify(e, cmd[c].topo)
    BY <1>7, <2>1 DEF EnterReverify, Asks
  <2>3. RegistryInv' /\ Advances  BY <1>1, <2>2, RegistryReverify
  <2>4. /\ Idle /\ exec' = exec
        /\ call'.stage = "verify" /\ call'.id = e /\ call'.orig = None /\ ~call'.auto
    BY <2>2 DEF Reverify, NoCall
  <2> QED  BY <2>2, <2>3, <2>4, CommandBegins
<1>8. CASE Refuse(c)  BY <1>8, RefuseStep
<1> QED  BY <1>3, <1>4, <1>5, <1>6, <1>7, <1>8 DEF Enter

LEMMA LeaveStep ==
    ASSUME StoreInv, NoteRaces, NEW c \in Callers, Leave(c) PROVE StoreInv'
<1>1. minted' = minted /\ confirms' = confirms /\ Return  BY DEF Leave
<1> QED  BY <1>1, RegistryReturn, CommandLeaves DEF StoreInv

LEMMA WorkStep ==
    ASSUME StoreInv, NoteRaces, Work PROVE StoreInv'
<1> USE DEF StoreInv
<1>1. CASE /\ HandlerRefused \/ HandlerSucceeds \/ HandlerUpstreamError \/ VerifySettles
           /\ UNCHANGED storeVars
  <2>1. UNCHANGED <<minted, confirms, cmd, store>>  BY <1>1 DEF storeVars
  <2>2. /\ RegistryInv' /\ Advances
        /\ ~Idle /\ call'.stage # "idle"
        /\ call' = [call EXCEPT !.stage = call'.stage]
        /\ exec'[call.id].auto = exec[call.id].auto
        /\ exec'[call.id].status = "rolled_back" =>
              exec[call.id].status = "rolled_back"
        /\ \A x \in ExecIds : x # call.id => exec'[x] = exec[x]
    BY <1>1, <2>1, RegistryEngine
  <2> QED  BY <2>1, <2>2, CommandWork
<1>2. ASSUME NEW r \in ExecIds, Mints(r), VerifyRollsBack(r),
             UNCHANGED <<cmd, store, confirms, faults>>
      PROVE  StoreInv'
  <2>1. r \notin minted /\ minted' = minted \cup {r} /\ HistoryTypeOK'
    BY <1>2 DEF Mints, RegistryInv, HistoryTypeOK
  <2>2. /\ RegistryInv' /\ Advances
        /\ ~Idle /\ call.auto /\ call' = ReverseCall(r, call.top, call.id, TRUE)
        /\ r # call.id /\ exec'[r].auto
        /\ exec'[call.id].status = exec[call.id].status
        /\ \A x \in ExecIds : x # call.id /\ x # r => exec'[x] = exec[x]
    BY <1>2, <2>1, RegistryVerifyRollsBack
  <2>3. call'.stage # "idle" /\ call'.id = r  BY <2>2 DEF ReverseCall
  <2> QED  BY <1>2, <2>1, <2>2, <2>3, CommandWork
<1> QED  BY <1>1, <1>2 DEF Work

\* After a restart the registry is the rows, and nobody works on them.
LEMMA RestartStep ==
    ASSUME StoreInv, NoteRaces, Restart PROVE StoreInv'
<1> USE DEF StoreInv
<1>1. /\ exec' = store /\ call' = NoCall /\ twin' = NoTwin
      /\ cmd' = [c \in Callers |-> NoCommand]
      /\ UNCHANGED <<cluster, mat, proxyUp, ran, store, minted, confirms>>
  BY DEF Restart, envVars
<1>2. store \in [ExecIds -> Execution]  BY DEF CommandInv, CommandTypeOK
<1>3. \A e \in ExecIds : /\ store[e] \in Execution
                         /\ store[e].status \in Statuses /\ ran[e] \in Nat
                         /\ Past(store[e], e)
  BY <1>2, Typed DEF CommandInv, RowsArePast, RegistryInv, Execution
<1>4. Idle' /\ call'.orig = None  BY <1>1 DEF Idle, NoCall
<1>5. TypeInv'
  BY <1>1, <1>2, <1>4, NoTwinType DEF RegistryInv, TypeInv, TypeOK, CallHasId, NoCall, Call
<1>6. \A e \in ExecIds : Rank(store[e]) = 0 <=> store[e].status = "absent"
  BY <1>3 DEF Rank, Statuses
<1>7. \A e \in ExecIds : exec[e].status = "absent" => store[e].status = "absent"
  BY <1>3, <1>6, Typed DEF Past, Rank, RegistryInv, Statuses
<1>8. RegistryInv'
  <2>1. HistoryTypeOK' /\ LinkFits'
    BY <1>1, <1>3 DEF RegistryInv, HistoryTypeOK, LinkFits, Past
  <2>2. CallFits' /\ ConfirmedFirst'
    BY <1>1, <1>4 DEF CallFits, ConfirmedFirst, Idle, NoCall
  <2>3. OnlyTheCallExecutes'
    BY <1>1, <1>3 DEF OnlyTheCallExecutes, Past
  <2>4. DoneRan'  BY <1>1, <1>3 DEF DoneRan, Done, Past
  <2>5. MintedFirst'
    BY <1>1, <1>3 DEF RegistryInv, MintedFirst, Past
  <2>6. ConfirmedEachTime'
    BY <1>1, <1>3, <1>7 DEF RegistryInv, ConfirmedEachTime, Past
  <2> QED  BY <1>5, <2>1, <2>2, <2>3, <2>4, <2>5, <2>6 DEF RegistryInv
<1>9. /\ NoCommand \in Command /\ NoCommand.stage = "idle"
      /\ NoCommand.writes = <<>> /\ NoCommand.follow = None
  BY NoTwinType DEF NoCommand, Command
<1>10. /\ \A c \in Callers : /\ cmd'[c] = NoCommand /\ cmd'[c].stage = "idle"
                             /\ cmd'[c].follow = None
                             /\ RowsOf(cmd'[c]) = {}
  BY <1>1, <1>9, RowsLists
<1>11. CommandTypeOK'  BY <1>1, <1>2, <1>9 DEF CommandTypeOK
<1>12. CommandFits' /\ RunFits'
  BY <1>4, <1>9, <1>10 DEF CommandFits, Fits, RunFits
<1>13. RowsArePast'
  <2>1. ASSUME NEW e \in ExecIds PROVE Past(store[e], e)'
    <3>1. exec'[e].status # "executing"  BY <1>1, <1>3 DEF Past
    <3>2. Past(exec[e], e)'  BY <1>8, <3>1, PresentIsPast
    <3> QED  BY <3>2, <1>1
  <2> QED  BY <2>1, <1>10 DEF RowsArePast
<1>14. RowsFollow'
  <2>1. \A e \in ExecIds : store'[e] = exec'[e]  BY <1>1
  <2> QED  BY <2>1, <1>10, Races DEF RowsFollow
<1> QED  BY <1>8, <1>11, <1>12, <1>13, <1>14 DEF CommandInv

LEMMA StoreStep == StoreInv /\ [StoreNext]_allVars => StoreInv'
<1> SUFFICES ASSUME StoreInv, [StoreNext]_allVars PROVE StoreInv'  OBVIOUS
<1>1. CASE UNCHANGED allVars
  <2>1. /\ UNCHANGED vars /\ UNCHANGED <<exec, call, ran, minted, confirms, cmd, store>>
        /\ loose' = loose
    BY <1>1 DEF allVars, vars, envVars, storeVars
  <2>2. TypeInv'  BY <2>1, TypeStep DEF StoreInv, RegistryInv
  <2>3. /\ RegistryInv'
        /\ CommandTypeOK' /\ CommandFits' /\ RunFits' /\ RowsArePast'
    BY <2>1, <2>2, RegistryUnchanged
    DEF StoreInv, CommandInv, CommandTypeOK, CommandFits, RunFits, RowsArePast, Past, Idle
  <2>4. RowsFollow'
    BY <2>1 DEF StoreInv, CommandInv, RowsFollow, Touched, Pending
  <2> QED  BY <2>3, <2>4 DEF StoreInv, CommandInv
<1>2. ASSUME NEW c \in Callers, Request(c) \/ Proceed(c), NoteRaces PROVE StoreInv'
  BY <1>2, RequestStep, EnterStep, LeaveStep, UpsertStep, FollowUpStep DEF Proceed
<1>6. ASSUME NEW c \in Callers, UpsertFails(c) PROVE StoreInv'
  BY <1>6, UpsertFailsStep
<1>3. CASE Work /\ NoteRaces  BY <1>3, WorkStep
<1>4. CASE Restart /\ NoteRaces  BY <1>4, RestartStep
<1>5. CASE Environment /\ UNCHANGED storeVars /\ NoteRaces
  <2>1. TypeInv'  BY <1>5, EnvironmentType DEF StoreInv, RegistryInv
  <2>2. UNCHANGED <<exec, call>>
    BY <1>5 DEF Environment, Sync, Vanish, Drift, ProxyFlips
  <2>3. ran' = ran
    BY <1>5 DEF Environment, Sync, Vanish, Drift, ProxyFlips
  <2> QED  BY <1>5, <2>1, <2>2, <2>3, AsideStep DEF storeVars
<1> QED  BY <1>1, <1>2, <1>3, <1>4, <1>5, <1>6 DEF StoreNext

LEMMA StoreStart == StoreInit => StoreInv
<1> SUFFICES ASSUME StoreInit PROVE StoreInv  OBVIOUS
<1>1. TypeInv  BY TypeInit DEF StoreInit
<1>2. /\ exec = [e \in ExecIds |-> Unused] /\ store = exec
      /\ call = NoCall /\ ran = [e \in ExecIds |-> 0]
      /\ cmd = [c \in Callers |-> NoCommand]
      /\ minted = {} /\ confirms = [e \in ExecIds |-> 0]
  BY DEF StoreInit, Init
<1>3. Unused.status = "absent" /\ Unused.rollbackBy = None
  BY DEF Unused, Fresh
<1>4. Idle /\ call.orig = None /\ call.stage = "idle"  BY <1>2 DEF NoCall, Idle
<1>5. \A e \in ExecIds : /\ exec[e].status = "absent" /\ exec[e].rollbackBy = None
                         /\ ran[e] = 0 /\ confirms[e] = 0
  BY <1>2, <1>3
<1>6. RegistryInv
  BY <1>1, <1>2, <1>4, <1>5
  DEF RegistryInv, HistoryTypeOK, LinkFits, CallFits, OnlyTheCallExecutes, DoneRan,
      MintedFirst, ConfirmedEachTime, ConfirmedFirst, Done
<1>7. /\ NoCommand \in Command /\ NoCommand.stage = "idle"
      /\ NoCommand.writes = <<>> /\ NoCommand.follow = None
  BY NoTwinType DEF NoCommand, Command
<1>8. \A c \in Callers : /\ cmd[c] = NoCommand /\ RowsOf(cmd[c]) = {}
                         /\ Pending(c) = {None}
  <2>1. \A c \in Callers : cmd[c] = NoCommand /\ RowsOf(cmd[c]) = {}
    BY <1>2, <1>7, RowsLists
  <2> QED  BY <2>1, <1>7, PendingRows
<1>9. CommandTypeOK /\ CommandFits
  BY <1>1, <1>2, <1>7, <1>8 DEF CommandTypeOK, CommandFits, Fits, TypeInv, TypeOK
<1>10. RunFits  BY <1>4, <1>7, <1>8 DEF RunFits
<1>11. RowsArePast
  <2>1. Rank(Unused) = 0  BY <1>3 DEF Rank
  <2> QED  BY <1>2, <1>3, <1>7, <1>8, <2>1 DEF RowsArePast, Past
<1>12. RowsFollow  BY <1>2, <1>7, <1>8, IdsAssumption DEF RowsFollow
<1> QED  BY <1>6, <1>9, <1>10, <1>11, <1>12 DEF StoreInv, CommandInv

\* The registry, the commands and the rows fit together at every moment: while
\* commands overlap outside the lock, and across restarts at any of their steps.
THEOREM StoreConsistent == StoreSpec => []StoreInv
BY StoreStart, StoreStep, PTL DEF StoreSpec

\* A row never tells of more than happened: it is a past of what the registry
\* knows, and one that says an execution succeeded is about a handler that ran.
THEOREM RowsTellThePast == StoreSpec => []StoreIsPast
<1>1. StoreInv => StoreIsPast
  BY DEF StoreInv, CommandInv, RowsArePast, Past, StoreIsPast
<1> QED  BY <1>1, StoreConsistent, PTL

\* Whatever a restart forgets, a handler that needs an approval runs at most as
\* often as its execution was confirmed.
THEOREM RestartKeepsTheGate == StoreSpec => []ConfirmedEachTime
<1>1. StoreInv => ConfirmedEachTime  BY DEF StoreInv, RegistryInv
<1> QED  BY <1>1, StoreConsistent, PTL

\* With no command in flight the rows are the registry, but for the executions two
\* commands wrote at once, those whose write failed and the automatic reverse
\* executions that failed.
THEOREM RowsCatchUp == StoreSpec => []StoreFollows
<1>1. StoreInv => StoreFollows
  <2> SUFFICES ASSUME StoreInv, Quiet, NEW e \in ExecIds \ loose
               PROVE  store[e] = exec[e] \/ (exec[e].auto /\ exec[e].status = "failed")
    BY DEF StoreFollows
  <2>1. \A c \in Callers : cmd[c] = NoCommand
    BY DEF StoreInv, CommandInv, CommandFits, Fits, Quiet
  <2>2. NoCommand.writes = <<>> /\ NoCommand.follow = None  BY DEF NoCommand
  <2>3. \A c \in Callers : Pending(c) = {None}
    <3>1. \A c \in Callers : RowsOf(cmd[c]) = {}  BY <2>1, <2>2, RowsLists
    <3> QED  BY <2>1, <2>2, <3>1, PendingRows
  <2>4. ~Touched(e)  BY DEF Touched, Quiet
  <2>5. \/ store[e] = exec[e]
        \/ exec[e].auto /\ exec[e].status = "failed"
        \/ Touched(e)
        \/ \E c \in Callers : e \in Pending(c)
    BY DEF StoreInv, CommandInv, RowsFollow
  <2>6. e # None  BY IdsAssumption
  <2> QED  BY <2>3, <2>4, <2>5, <2>6
<1> QED  BY <1>1, StoreConsistent, PTL

=============================================================================
