------------------------------ MODULE KubectlProxy ------------------------------
(***************************************************************************)
(* The kubectl proxy the desktop application starts and stops for the user *)
(* (commands/proxy.rs): one child process, whose handle AppState.proxy     *)
(* holds, and start, stop and status commands that overlap, since none of  *)
(* them keeps the lock while it waits.                                     *)
(*                                                                         *)
(* All use one port.  A process accepts on the port once it has bound it,  *)
(* and a child that finds the port taken exits.  The port may be taken by  *)
(* a proxy the user runs in a terminal.  Killing a child, and dropping its *)
(* handle (kill_on_drop), only sends it the signal: it goes on until it    *)
(* ends, and only wait() tells when that is.                               *)
(***************************************************************************)
EXTENDS Naturals, FiniteSets

CONSTANTS
    Callers,      \* commands that can be in flight at once
    Children,     \* bound on the child processes spawned
    Foreigners,   \* whether the user may run a proxy by hand: a set of Booleans
    None

ASSUME ProxyAssumption == None \notin Children /\ Foreigners \subseteq BOOLEAN

VARIABLES
    appUp,      \* the application runs
    proxy,      \* AppState.proxy: the child it holds, or None
    child,      \* each child's state
    killed,     \* children sent SIGKILL, which may not have ended yet
    foreign,    \* a process that is not ours has the port
    cmd,        \* each command's progress
    answer,     \* what the last command of each caller answered
    stranded    \* children of starts that the end of the application cut off (history)

vars == <<appUp, proxy, child, killed, foreign, cmd, answer, stranded>>

NoCommand == [stage |-> "idle", child |-> None]

Alive(k) == child[k] \in {"starting", "serving"}
PortTaken == foreign \/ \E k \in Children : child[k] = "serving"
Starting(c) == cmd[c].stage = "probing"
Stages == {"idle", "probing", "failing", "burying", "killing", "reaping"}

\* The command has the child to itself and has not killed it yet.
Owns(c) == cmd[c].stage \in {"probing", "failing", "killing"}
Held == {cmd[c].child : c \in Callers} \ {None}

ProxyTypeOK ==
    /\ appUp \in BOOLEAN /\ foreign \in BOOLEAN
    /\ proxy \in Children \cup {None}
    /\ child \in [Children -> {"unborn", "starting", "serving", "exited"}]
    /\ killed \subseteq Children
    /\ cmd \in [Callers -> [stage : Stages, child : Children \cup {None}]]
    /\ answer \in [Callers -> {"none", "already running", "ready", "failed",
                               "stopped", "running", "not running"}]
    /\ stranded \subseteq Children
    /\ \A c \in Callers : cmd[c].child # None => cmd[c].child # proxy
    /\ \A c, d \in Callers : c # d /\ cmd[c].child = cmd[d].child => cmd[c].child = None

Init ==
    /\ appUp = TRUE
    /\ proxy = None
    /\ child = [k \in Children |-> "unborn"]
    /\ killed = {}
    /\ foreign \in Foreigners
    /\ cmd = [c \in Callers |-> NoCommand]
    /\ answer = [c \in Callers |-> "none"]
    /\ stranded = {}

-----------------------------------------------------------------------------
(* Processes *)

Becomes(k, state) ==
    /\ child' = [child EXCEPT ![k] = state]
    /\ UNCHANGED <<appUp, proxy, killed, foreign, cmd, answer, stranded>>

ChildBinds(k) == child[k] = "starting" /\ ~PortTaken /\ Becomes(k, "serving")

ChildFindsPortTaken(k) == child[k] = "starting" /\ PortTaken /\ Becomes(k, "exited")

\* A wrong kubeconfig, the signal, or any other end.
ChildDies(k) == Alive(k) /\ Becomes(k, "exited")

ForeignMoves ==
    /\ foreign' \in Foreigners
    /\ foreign' # foreign
    /\ foreign' => ~PortTaken
    /\ UNCHANGED <<appUp, proxy, child, killed, cmd, answer, stranded>>

Kill(ks) == killed' = killed \cup (ks \ {None})

-----------------------------------------------------------------------------
(* start_proxy *)

Idle(c) == appUp /\ cmd[c] = NoCommand

Finish(c, result) ==
    /\ cmd' = [cmd EXCEPT ![c] = NoCommand]
    /\ answer' = [answer EXCEPT ![c] = result]

\* A handle is enough: its child is not asked whether it lives.
StartFindsHandle(c) ==
    /\ Idle(c)
    /\ proxy # None
    /\ Finish(c, "already running")
    /\ UNCHANGED <<appUp, proxy, child, killed, foreign, stranded>>

\* The lock is released before the child is spawned.
StartSpawns(c) ==
    /\ Idle(c)
    /\ proxy = None
    /\ \E k \in Children :
         /\ child[k] = "unborn"
         /\ child' = [child EXCEPT ![k] = "starting"]
         /\ cmd' = [cmd EXCEPT ![c] = [stage |-> "probing", child |-> k]]
    /\ UNCHANGED <<appUp, proxy, killed, foreign, answer, stranded>>

\* Mutant: the handle that is replaced is forgotten and its child lives on.
ProbeConnectsLeaks(c) ==
    /\ appUp
    /\ Starting(c)
    /\ PortTaken
    /\ proxy' = cmd[c].child
    /\ Finish(c, "ready")
    /\ UNCHANGED <<appUp, child, killed, foreign, stranded>>

\* Whoever accepts on the port; the handle that is replaced is dropped.
ProbeConnects(c) ==
    /\ appUp
    /\ Starting(c)
    /\ PortTaken
    /\ proxy' = cmd[c].child
    /\ Kill({proxy})
    /\ Finish(c, "ready")
    /\ UNCHANGED <<appUp, child, foreign, stranded>>

\* Mutant: the wait for the port has no time limit.
ProbeFailsUntimed(c) ==
    /\ appUp
    /\ Starting(c)
    /\ ~PortTaken
    /\ ~Alive(cmd[c].child)
    /\ cmd' = [cmd EXCEPT ![c].stage = "failing"]
    /\ UNCHANGED <<appUp, proxy, child, killed, foreign, answer, stranded>>

\* Nothing accepts, and the child has exited or the ten seconds are over.  What it
\* wrote to stderr is read, for half a second at most, before it is killed.
ProbeFails(c) ==
    /\ appUp
    /\ Starting(c)
    /\ ~PortTaken
    /\ cmd' = [cmd EXCEPT ![c].stage = "failing"]
    /\ UNCHANGED <<appUp, proxy, child, killed, foreign, answer, stranded>>

\* start_kill, then wait().await.
Kills(c, before, after) ==
    /\ appUp
    /\ cmd[c].stage = before
    /\ Kill({cmd[c].child})
    /\ cmd' = [cmd EXCEPT ![c].stage = after]
    /\ UNCHANGED <<appUp, proxy, child, foreign, answer, stranded>>

Reaps(c, stage, result) ==
    /\ appUp
    /\ cmd[c].stage = stage
    /\ ~Alive(cmd[c].child)
    /\ Finish(c, result)
    /\ UNCHANGED <<appUp, proxy, child, killed, foreign, stranded>>

StartKills(c) == Kills(c, "failing", "burying")
StartFails(c) == Reaps(c, "burying", "failed")

-----------------------------------------------------------------------------
(* stop_proxy, status_proxy, RunEvent::Exit *)

\* Mutant: the handle is taken and dropped, and its child is not killed.
StopTakesOnly(c) ==
    /\ Idle(c)
    /\ proxy' = None
    /\ Finish(c, "stopped")
    /\ UNCHANGED <<appUp, child, killed, foreign, stranded>>

\* The lock is released before the child is killed.
StopTakes(c) ==
    /\ Idle(c)
    /\ proxy' = None
    /\ IF proxy = None THEN Finish(c, "stopped")
       ELSE cmd' = [cmd EXCEPT ![c] = [stage |-> "killing", child |-> proxy]] /\ UNCHANGED answer
    /\ UNCHANGED <<appUp, child, killed, foreign, stranded>>

StopKills(c) == Kills(c, "killing", "reaping")
StopReaps(c) == Reaps(c, "reaping", "stopped")

\* The one place where a child that has exited by itself is noticed.
Status(c) ==
    /\ Idle(c)
    /\ proxy' = IF proxy # None /\ ~Alive(proxy) THEN None ELSE proxy
    /\ Finish(c, IF proxy' = None THEN "not running" ELSE "running")
    /\ UNCHANGED <<appUp, child, killed, foreign, stranded>>

\* The child AppState holds is killed; a command that is under way ends with the
\* process, before its future, and with it the child, is dropped.
Exit ==
    /\ appUp
    /\ appUp' = FALSE
    /\ proxy' = None
    /\ stranded' = {k \in Held \ killed : Alive(k)}
    /\ Kill({proxy})
    /\ cmd' = [c \in Callers |-> NoCommand]
    /\ UNCHANGED <<child, foreign, answer>>

-----------------------------------------------------------------------------
Probe(c) == ProbeConnects(c) \/ ProbeFails(c) \/ StartKills(c) \/ StartFails(c)
Stop(c) == StopKills(c) \/ StopReaps(c)

Command(c) ==
    \/ StartFindsHandle(c)
    \/ StartSpawns(c)
    \/ Probe(c)
    \/ StopTakes(c)
    \/ Stop(c)
    \/ Status(c)

Next ==
    \/ \E k \in Children : ChildBinds(k) \/ ChildFindsPortTaken(k) \/ ChildDies(k)
    \/ ForeignMoves
    \/ \E c \in Callers : Command(c)
    \/ Exit

Spec == Init /\ [][Next]_vars

\* The runtime polls each command, and the system ends a process sent SIGKILL.
FairSpec ==
    /\ Spec
    /\ \A c \in Callers : WF_vars(Probe(c)) /\ WF_vars(Stop(c))
    /\ \A k \in Children : WF_vars(k \in killed /\ ChildDies(k))

-----------------------------------------------------------------------------
(* Properties *)

\* Every living child is held by AppState, or has been killed, or belongs to a start
\* or a stop that will store or kill it; only the end of the application in the middle
\* of one leaves a child behind.  Overlapping starts replace each other's handle, and
\* a stop runs between a spawn and its store.
NoStray ==
    \A k \in Children :
        Alive(k) =>
            \/ k = proxy \/ k \in killed \/ k \in stranded
            \/ \E c \in Callers : Owns(c) /\ cmd[c].child = k

AnswersNow(c, result) == appUp' /\ cmd[c] # NoCommand /\ cmd'[c] = NoCommand /\ answer'[c] = result
Dying == {k \in killed : Alive(k)}

\* While no other command is under way, a start that answers "ready" and replaces no
\* handle has stored the child that serves the port, unless the user runs a proxy of
\* their own or the child of a replaced handle, which nobody waits for, is still
\* dying; and a stop leaves no living child but such a one behind.
AnswersAreTrue ==
    [][\A c \in Callers :
        (\A d \in Callers \ {c} : cmd[d] = NoCommand) /\ proxy = None =>
            /\ AnswersNow(c, "ready") /\ ~foreign /\ Dying = {} => child'[proxy'] = "serving"
            /\ AnswersNow(c, "stopped") =>
                 \A k \in Children : Alive(k) => k \in Dying \ {cmd[c].child}]_vars

\* Every start and every stop is answered while the application lives.
CommandsEnd == \A c \in Callers : cmd[c] # NoCommand ~> cmd[c] = NoCommand
===============================================================================
