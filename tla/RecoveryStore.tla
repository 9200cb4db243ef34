----------------------------- MODULE RecoveryStore -----------------------------
(***************************************************************************)
(* The recovery commands of the desktop application (commands/recovery.rs) *)
(* around the engine: what a command does before it has the registry and   *)
(* after it has given it back, the SQLite rows it leaves, and a restart,   *)
(* which rebuilds the registry from those rows.                            *)
(*                                                                         *)
(* A command reads the materialized topology, waits for the registry, runs *)
(* one engine call under the lock, clones the executions it is to return,  *)
(* unlocks, and upserts the clones one await at a time. persist_exec takes *)
(* the lock once more to clone the reverse execution its own clone names.  *)
(* Commands of different windows and clicks overlap freely outside the     *)
(* lock; nothing orders their upserts.                                     *)
(***************************************************************************)
EXTENDS Recovery, Sequences

CONSTANTS
    Asked,       \* bound on the operations asked for
    Callers,     \* the commands that can be in flight at once
    MaxFaults    \* bound on restarts and failed upserts

Ops == {"execute", "confirm", "cancel", "rollback", "reverify"}

ASSUME CallersAssumption ==
    /\ Asked \subseteq Ops
    /\ MaxFaults \in Nat

VARIABLES
    cmd,       \* each command's progress
    store,     \* table recovery_executions
    minted,    \* ids given out so far, restarts included (history)
    confirms,  \* confirmations given to each execution (history)
    faults,    \* restarts and failed upserts so far (bound)
    loose      \* executions whose row need not follow the registry (history)

storeVars == <<cmd, store, minted, confirms, faults>>
allVars == <<vars, storeVars, loose>>

\* waiting: topology read, registry not yet locked; running: inside the engine;
\* persist: writes are the upserts left to do, follow the reverse execution
\* persist_exec will read back once they are done.
NoCommand ==
    [stage |-> "idle", op |-> "none", id |-> None, topo |-> NoTwin,
     writes |-> <<>>, follow |-> None]

StoreInit ==
    /\ Init
    /\ cmd = [c \in Callers |-> NoCommand]
    /\ store = [e \in ExecIds |-> Unused]
    /\ minted = {}
    /\ confirms = [e \in ExecIds |-> 0]
    /\ faults = 0
    /\ loose = {}

-----------------------------------------------------------------------------
(* Into the engine *)

\* The operator clicks. Everything but execute names an execution the operator
\* saw in the list; it may have moved on by the time the lock is taken.
Request(c) ==
    /\ cmd[c].stage = "idle"
    /\ \E op \in Asked, e \in ExecIds \cup {None} :
        /\ op = "execute" <=> e = None
        /\ e # None => exec[e].status # "absent"
        /\ cmd' = [cmd EXCEPT ![c].stage = "waiting", ![c].op = op,
                              ![c].id = e, ![c].topo = Snapshot]
    /\ UNCHANGED <<vars, store, minted, confirms, faults>>

Asks(c, op) == cmd[c].stage = "waiting" /\ cmd[c].op = op

\* The engine call runs on under the lock for execution e.
Runs(c, e) == cmd' = [cmd EXCEPT ![c].stage = "running", ![c].id = e]

\* The engine call is over at once; the clone of e is to be upserted.
Saves(c, e) ==
    cmd' = [cmd EXCEPT ![c].stage = "persist",
                       ![c].writes = <<[id |-> e, exec |-> exec'[e]]>>]

Mints(e) == e \notin minted /\ minted' = minted \cup {e}

\* Bound: with the ids used up, a command that may mint one is turned away.
OutOfIds(op) ==
    \/ op \in {"execute", "rollback"} /\ Cardinality(ExecIds \ minted) < 2
    \/ op = "confirm" /\ Cardinality(ExecIds \ minted) < 1

EnterExecute(c) ==
    /\ Asks(c, "execute")
    /\ \E e \in ExecIds, a \in UsedActions, t \in Targets :
        /\ Mints(e)
        /\ NeedsApproval(a) \/ ~OutOfIds("execute")
        /\ \E delta \in DeltasOf(a) : Execute(e, a, t, delta, cmd[c].topo)
        /\ IF NeedsApproval(a) THEN Saves(c, e) ELSE Runs(c, e)
    /\ UNCHANGED <<store, confirms, faults>>

EnterConfirm(c) ==
    /\ Asks(c, "confirm")
    /\ ~OutOfIds("confirm")
    /\ Confirm(cmd[c].id, cmd[c].topo)
    /\ Runs(c, cmd[c].id)
    /\ confirms' = [confirms EXCEPT ![cmd[c].id] = @ + 1]
    /\ UNCHANGED <<store, minted, faults>>

EnterCancel(c) ==
    /\ Asks(c, "cancel")
    /\ Cancel(cmd[c].id)
    /\ Saves(c, cmd[c].id)
    /\ UNCHANGED <<store, minted, confirms, faults>>

EnterRollback(c) ==
    /\ Asks(c, "rollback")
    /\ \E r \in ExecIds : Mints(r) /\ Rollback(cmd[c].id, r, cmd[c].topo)
    /\ Runs(c, cmd[c].id)
    /\ UNCHANGED <<store, confirms, faults>>

EnterReverify(c) ==
    /\ Asks(c, "reverify")
    /\ Reverify(cmd[c].id, cmd[c].topo)
    /\ Runs(c, cmd[c].id)
    /\ UNCHANGED <<store, minted, confirms, faults>>

\* The 400 and 409 answers, given under the lock.
Refusable(op, e, topo) ==
    CASE op = "execute" -> \E a \in UsedActions, t \in Targets :
                                ~ValidTarget(a, t, topo)
      [] op \in {"confirm", "cancel"} -> exec[e].status # "awaiting_approval"
      [] op = "rollback" -> \/ exec[e].status # "succeeded"
                            \/ exec[e].rollbackBy # None
                            \/ ~Reversible(exec[e].action)
      [] op = "reverify" -> exec[e].status \notin {"succeeded", "rolled_back"}

Refuse(c) ==
    /\ cmd[c].stage = "waiting"
    /\ Idle
    /\ \/ Refusable(cmd[c].op, cmd[c].id, cmd[c].topo)
       \/ OutOfIds(cmd[c].op)
    /\ cmd' = [cmd EXCEPT ![c] = NoCommand]
    /\ UNCHANGED <<vars, store, minted, confirms, faults>>

Enter(c) ==
    \/ EnterExecute(c) \/ EnterConfirm(c) \/ EnterCancel(c)
    \/ EnterRollback(c) \/ EnterReverify(c) \/ Refuse(c)

\* Inside the engine, for whichever command holds the registry.
Work ==
    \/ /\ HandlerRefused \/ HandlerSucceeds \/ HandlerUpstreamError \/ VerifySettles
       /\ UNCHANGED storeVars
    \/ /\ \E r \in ExecIds : Mints(r) /\ VerifyRollsBack(r)
       /\ UNCHANGED <<cmd, store, confirms, faults>>

-----------------------------------------------------------------------------
(* Out of the engine *)

\* The rows a command has yet to upsert, and the executions it works on.
Pending(c) ==
    {cmd[c].follow} \cup {cmd[c].writes[i].id : i \in DOMAIN cmd[c].writes}

RowAfter(e) == [id |-> e, exec |-> exec'[e]]

\* Mutant: rollback upserts the reverse execution and not the original.
LeaveReverseOnly(c) ==
    /\ cmd[c].stage = "running"
    /\ Return
    /\ LET e == cmd[c].id IN
       cmd' = [cmd EXCEPT
            ![c].stage = "persist",
            ![c].writes = IF cmd[c].op = "rollback"
                          THEN <<RowAfter(call.top)>> ELSE <<RowAfter(e)>>,
            ![c].follow = IF cmd[c].op \in {"execute", "confirm"}
                          THEN exec'[e].rollbackBy ELSE None]
    /\ UNCHANGED <<store, minted, confirms, faults>>

\* Mutant: the rows are written with the registry still locked.
LeaveLocked(c) ==
    /\ cmd[c].stage = "running"
    /\ call.stage = "return"
    /\ exec' = Settled
    /\ UNCHANGED <<call, twin, envVars>>
    /\ cmd' = [cmd EXCEPT ![c].stage = "persist",
                          ![c].writes = <<RowAfter(cmd[c].id)>>,
                          ![c].follow = exec'[cmd[c].id].rollbackBy]
    /\ UNCHANGED <<store, minted, confirms, faults>>

\* rollback clones the reverse execution and the original; the others clone the
\* execution they were asked for, and execute and confirm go through
\* persist_exec, which follows rollback_execution_id. reverify does not.
Leave(c) ==
    /\ cmd[c].stage = "running"
    /\ Return
    /\ LET e == cmd[c].id IN
       cmd' = [cmd EXCEPT
            ![c].stage = "persist",
            ![c].writes = IF cmd[c].op = "rollback"
                          THEN <<RowAfter(call.top), RowAfter(e)>>
                          ELSE <<RowAfter(e)>>,
            ![c].follow = IF cmd[c].op \in {"execute", "confirm"}
                          THEN exec'[e].rollbackBy ELSE None]
    /\ UNCHANGED <<store, minted, confirms, faults>>

Upsert(c) ==
    /\ cmd[c].stage = "persist"
    /\ cmd[c].writes # <<>>
    /\ LET row == Head(cmd[c].writes) IN
       store' = [store EXCEPT ![row.id] = row.exec]
    /\ cmd' = [cmd EXCEPT ![c] =
            IF Len(@.writes) = 1 /\ @.follow = None THEN NoCommand
            ELSE [cmd[c] EXCEPT !.writes = Tail(@)]]
    /\ UNCHANGED <<vars, minted, confirms, faults>>

\* The storage answers an error, the command returns it, and what it had left to
\* upsert is not.
UpsertFails(c) ==
    /\ cmd[c].stage = "persist"
    /\ cmd[c].writes # <<>>
    /\ faults < MaxFaults /\ faults' = faults + 1
    /\ cmd' = [cmd EXCEPT ![c] = NoCommand]
    /\ loose' = loose \cup (Pending(c) \ {None})
    /\ UNCHANGED <<vars, store, minted, confirms>>

\* persist_exec locks the registry again for a clone of the reverse execution.
FollowUp(c) ==
    /\ cmd[c].stage = "persist"
    /\ cmd[c].writes = <<>>
    /\ Idle
    /\ LET r == cmd[c].follow IN
       cmd' = [cmd EXCEPT ![c].writes = <<[id |-> r, exec |-> exec[r]]>>,
                          ![c].follow = None]
    /\ UNCHANGED <<vars, store, minted, confirms, faults>>

\* Mutant: the registry is not filled from the rows.
RestartEmpty ==
    /\ faults < MaxFaults
    /\ faults' = faults + 1
    /\ exec' = [e \in ExecIds |-> Unused]
    /\ call' = NoCall
    /\ twin' = NoTwin
    /\ cmd' = [c \in Callers |-> NoCommand]
    /\ UNCHANGED <<envVars, store, minted, confirms>>

\* The process ends and is started again: the registry is what the rows say,
\* commands in flight are gone, the cluster keeps what was done to it.
Restart ==
    /\ faults < MaxFaults
    /\ faults' = faults + 1
    /\ exec' = store
    /\ call' = NoCall
    /\ twin' = NoTwin
    /\ cmd' = [c \in Callers |-> NoCommand]
    /\ UNCHANGED <<envVars, store, minted, confirms>>

-----------------------------------------------------------------------------

\* Two commands have upserts pending for one execution.
NoteRaces ==
    loose' = loose \cup
        {e \in ExecIds : \E c, d \in Callers :
            c # d /\ e \in Pending(c)' /\ e \in Pending(d)'}

\* The steps of a command once the operator has asked for it.
Proceed(c) == Enter(c) \/ Leave(c) \/ Upsert(c) \/ FollowUp(c)

StoreNext ==
    \/ \E c \in Callers : (Request(c) \/ Proceed(c)) /\ NoteRaces
    \/ \E c \in Callers : UpsertFails(c)
    \/ (Work \/ Restart \/ (Environment /\ UNCHANGED storeVars)) /\ NoteRaces

StoreSpec == StoreInit /\ [][StoreNext]_allVars

\* tokio's mutex hands the lock out in the order it was asked for, so a waiting
\* command gets it although others keep taking it; upserts and awaits end.
StoreFairSpec ==
    /\ StoreSpec
    /\ WF_allVars(Work /\ NoteRaces)
    /\ \A c \in Callers : SF_allVars(Proceed(c) /\ NoteRaces)

-----------------------------------------------------------------------------
(* Properties *)

Quiet == \A c \in Callers : cmd[c].stage = "idle"

\* list_recovery_executions reads the registry and says it agrees with the rows
\* by upsert after each mutation. It does once no command is in flight, but for
\* three kinds of row: those two commands upserted at the same time, those an
\* upsert that failed left behind, and those of automatic reverse executions that
\* failed, which persist_exec never stores.
StoreFollows ==
    Quiet => \A e \in ExecIds \ loose :
        \/ store[e] = exec[e]
        \/ exec[e].auto /\ exec[e].status = "failed"

Rank(x) ==
    CASE x.status = "absent" -> 0
      [] x.status = "awaiting_approval" -> 1
      [] x.status = "rolled_back" -> 3
      [] OTHER -> 2

\* A row is a past of the registry, never ahead of it, and a row that says an
\* execution succeeded is about one whose handler did run: a restart can forget
\* what was done, not make up what was not.
StoreIsPast ==
    \A e \in ExecIds :
        /\ Rank(store[e]) <= Rank(exec[e])
        /\ Rank(store[e]) = Rank(exec[e]) => store[e].status = exec[e].status
        /\ store[e].status \in {"succeeded", "rolled_back"} => ran[e] > 0

\* Whatever a restart forgets, nothing that needs approval runs again without
\* being confirmed again.
ConfirmedEachTime ==
    \A e \in ExecIds :
        /\ exec[e].status # "absent"
        /\ exec[e].reverses = None
        /\ NeedsApproval(exec[e].action)
        => ran[e] <= confirms[e]

\* Every command answers: the registry is asked for a second time only when it
\* is not held, so no command waits for itself or for one that waits for it.
CommandsAnswer ==
    \A c \in Callers : cmd[c].stage = "waiting" ~> cmd[c].stage = "idle"

=============================================================================
