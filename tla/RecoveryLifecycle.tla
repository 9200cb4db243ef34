-------------------------- MODULE RecoveryLifecycle --------------------------
(***************************************************************************)
(* What the registry of recovery executions promises an operator, without  *)
(* saying how handlers, verifiers and automatic rollbacks bring it about:  *)
(* an execution passes its gate, runs, and ends; one that succeeded can be *)
(* undone by one other execution; and one execution runs at a time.        *)
(* models.rs draws the same diagram beside RecoveryExecution.              *)
(***************************************************************************)
CONSTANTS Ids, None

VARIABLES
    phase,   \* where each execution is
    kind,    \* "gated", "open" (no approval needed) or "reverse"
    undoes   \* the execution a reverse execution undoes

vars == <<phase, kind, undoes>>

Init ==
    /\ phase = [e \in Ids |-> "none"]
    /\ kind = [e \in Ids |-> "none"]
    /\ undoes = [e \in Ids |-> None]

NothingRuns == \A e \in Ids : phase[e] # "running"

Submit(e) ==
    /\ phase[e] = "none"
    /\ NothingRuns
    /\ phase' = [phase EXCEPT ![e] = "waiting"]
    /\ kind' = [kind EXCEPT ![e] = "gated"]
    /\ UNCHANGED undoes

StartOpen(e) ==
    /\ phase[e] = "none"
    /\ NothingRuns
    /\ phase' = [phase EXCEPT ![e] = "running"]
    /\ kind' = [kind EXCEPT ![e] = "open"]
    /\ UNCHANGED undoes

Approve(e) ==
    /\ phase[e] = "waiting"
    /\ NothingRuns
    /\ phase' = [phase EXCEPT ![e] = "running"]
    /\ UNCHANGED <<kind, undoes>>

Reject(e) ==
    /\ phase[e] = "waiting"
    /\ phase' = [phase EXCEPT ![e] = "rejected"]
    /\ UNCHANGED <<kind, undoes>>

Finish(e) ==
    /\ phase[e] = "running"
    /\ \E p \in {"done", "failed"} : phase' = [phase EXCEPT ![e] = p]
    /\ UNCHANGED <<kind, undoes>>

\* A failed attempt to undo may be followed by another, a successful one not.
StartUndo(r, o) ==
    /\ phase[o] = "done"
    /\ phase[r] = "none"
    /\ NothingRuns
    /\ \A q \in Ids : undoes[q] = o => phase[q] = "failed"
    /\ phase' = [phase EXCEPT ![r] = "running"]
    /\ kind' = [kind EXCEPT ![r] = "reverse"]
    /\ undoes' = [undoes EXCEPT ![r] = o]

Undone(o) ==
    /\ phase[o] = "done"
    /\ \E r \in Ids : undoes[r] = o /\ phase[r] = "done"
    /\ phase' = [phase EXCEPT ![o] = "undone"]
    /\ UNCHANGED <<kind, undoes>>

Next ==
    \/ \E e \in Ids : \/ Submit(e) \/ StartOpen(e) \/ Approve(e)
                      \/ Reject(e) \/ Finish(e) \/ Undone(e)
    \/ \E r, o \in Ids : StartUndo(r, o)

Spec == Init /\ [][Next]_vars

=============================================================================
