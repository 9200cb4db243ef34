--------------------------- MODULE KubectlProxyProofs ---------------------------
(***************************************************************************)
(* Proofs about KubectlProxy, for any number of commands and children.     *)
(*                                                                         *)
(* NoStray needs to know whose a child is: that AppState and the commands  *)
(* hold different children, that a held child has been spawned, so that a  *)
(* new one is held by nobody else, and that nothing is stranded before the *)
(* application ends.                                                       *)
(***************************************************************************)
EXTENDS KubectlProxy, TLAPS

HandlesMeanChildren ==
    /\ appUp => stranded = {}
    /\ proxy # None => child[proxy] # "unborn"
    /\ \A c \in Callers : cmd[c].child # None => child[cmd[c].child] # "unborn"
    /\ \A c \in Callers : cmd[c].child = None <=> cmd[c].stage = "idle"

\* Somebody can end the child, or has.
Reached(k) ==
    \/ k = proxy \/ k \in killed \/ k \in stranded
    \/ \E c \in Callers : Owns(c) /\ cmd[c].child = k

IInv == ProxyTypeOK /\ HandlesMeanChildren /\ NoStray

LEMMA InitHolds == Init => IInv
<1> SUFFICES ASSUME Init PROVE IInv  OBVIOUS
<1>1. ProxyTypeOK
  BY ProxyAssumption DEF Init, ProxyTypeOK, NoCommand, Stages
<1>2. HandlesMeanChildren
  BY DEF Init, HandlesMeanChildren, NoCommand
<1>3. NoStray
  BY DEF Init, NoStray, Alive
<1> QED  BY <1>1, <1>2, <1>3 DEF IInv

\* What a child does by itself leaves the handles as they are.
LEMMA ChildMoves ==
    ASSUME IInv, NEW k \in Children, NEW s \in {"serving", "exited"},
           Alive(k), Becomes(k, s)
    PROVE  IInv'
<1>1. ProxyTypeOK'
  BY DEF IInv, ProxyTypeOK, Becomes
<1>2. HandlesMeanChildren'
  BY DEF IInv, ProxyTypeOK, HandlesMeanChildren, Becomes
<1>3. NoStray'
  BY DEF IInv, ProxyTypeOK, NoStray, Becomes, Alive, Owns
<1> QED  BY <1>1, <1>2, <1>3 DEF IInv

\* A step that leaves the children as they are, kills no fewer and keeps the handle in
\* AppState or kills it strands nothing but what the command owned.
LEMMA OthersKeepTheirs ==
    ASSUME IInv, NEW c \in Callers, cmd' = [cmd EXCEPT ![c] = cmd'[c]],
           child' = child, stranded' = stranded, killed \subseteq killed',
           proxy' # proxy => proxy = None \/ proxy \in killed' \/ (Owns(c)' /\ cmd'[c].child = proxy),
           Owns(c) => LET k == cmd[c].child IN
                        k = proxy' \/ k \in killed' \/ (Owns(c)' /\ cmd'[c].child = k)
    PROVE  NoStray'
<1> SUFFICES ASSUME NEW j \in Children, Alive(j)' PROVE Reached(j)'
  BY DEF NoStray, Reached
<1>1. Alive(j)  BY DEF Alive
<1>2. Reached(j)  BY <1>1 DEF IInv, NoStray, Reached
<1>3. CASE j = proxy
  BY <1>3, ProxyAssumption DEF Reached
<1>4. CASE j \in killed \/ j \in stranded
  BY <1>4 DEF Reached
<1>5. ASSUME NEW d \in Callers, Owns(d), cmd[d].child = j PROVE Reached(j)'
  <2>1. CASE d = c  BY <1>5, <2>1 DEF Reached
  <2>2. CASE d # c
    <3>1. cmd'[d] = cmd[d]  BY <2>2 DEF IInv, ProxyTypeOK
    <3> QED  BY <1>5, <3>1 DEF Reached, Owns
  <2> QED  BY <2>1, <2>2
<1> QED  BY <1>2, <1>3, <1>4, <1>5 DEF Reached

LEMMA StartSteps ==
    ASSUME IInv, NEW c \in Callers,
           StartFindsHandle(c) \/ StartSpawns(c) \/ ProbeConnects(c) \/ ProbeFails(c)
    PROVE  IInv'
<1> USE ProxyAssumption DEF IInv
<1>1. CASE StartFindsHandle(c)
  <2>1. ProxyTypeOK'
    BY <1>1 DEF StartFindsHandle, Finish, Idle, NoCommand, ProxyTypeOK, Stages
  <2>2. HandlesMeanChildren'
    BY <1>1 DEF StartFindsHandle, Finish, Idle, NoCommand, ProxyTypeOK, HandlesMeanChildren
  <2>3. cmd' = [cmd EXCEPT ![c] = cmd'[c]] /\ ~Owns(c)
    <3>1. cmd \in [Callers -> [stage : Stages, child : Children \cup {None}]]  BY DEF ProxyTypeOK
    <3>2. cmd' = [cmd EXCEPT ![c] = NoCommand]  BY <1>1 DEF StartFindsHandle, Finish
    <3>3. cmd'[c] = NoCommand  BY <3>1, <3>2
    <3>4. cmd[c] = NoCommand  BY <1>1 DEF StartFindsHandle, Idle
    <3>5. ~Owns(c)  BY <3>4 DEF NoCommand, Owns
    <3> QED  BY <3>2, <3>3, <3>5
  <2>4. NoStray'
    BY <1>1, <2>3, OthersKeepTheirs DEF StartFindsHandle
  <2> QED  BY <2>1, <2>2, <2>4
<1>2. CASE StartSpawns(c)
  <2> PICK k \in Children :
        /\ child[k] = "unborn"
        /\ child' = [child EXCEPT ![k] = "starting"]
        /\ cmd' = [cmd EXCEPT ![c] = [stage |-> "probing", child |-> k]]
    BY <1>2 DEF StartSpawns
  <2>1. k # proxy /\ \A d \in Callers : cmd[d].child # k
    BY DEF HandlesMeanChildren
  <2>2. ProxyTypeOK'
    BY <1>2, <2>1 DEF StartSpawns, ProxyTypeOK, Stages
  <2>3. HandlesMeanChildren'
    BY <1>2, <2>1 DEF StartSpawns, ProxyTypeOK, HandlesMeanChildren, Idle
  <2>4. NoStray'
    <3> SUFFICES ASSUME NEW j \in Children, Alive(j)'
                 PROVE  Reached(j)'
      BY DEF NoStray, Reached
    <3>1. CASE j = k
      BY <3>1 DEF Reached, Owns, ProxyTypeOK
    <3>2. CASE j # k
      <4>1. Alive(j) /\ Reached(j)
        BY <3>2 DEF Alive, ProxyTypeOK, NoStray, Reached
      <4>2. ASSUME NEW d \in Callers, Owns(d), cmd[d].child = j
            PROVE  Owns(d)' /\ cmd'[d].child = j
        <5>1. d # c  BY <1>2, <4>2 DEF StartSpawns, Idle, NoCommand, Owns
        <5>2. cmd'[d] = cmd[d]  BY <5>1 DEF ProxyTypeOK
        <5> QED  BY <4>2, <5>2 DEF Owns
      <4> QED  BY <1>2, <4>1, <4>2 DEF StartSpawns, Reached
    <3> QED  BY <3>1, <3>2
  <2> QED  BY <2>2, <2>3, <2>4
<1>3. CASE ProbeConnects(c)
  <2> DEFINE k == cmd[c].child
  <2>0. /\ appUp /\ appUp' /\ proxy' = k /\ k \in Children
        /\ child' = child /\ killed' = killed \cup ({proxy} \ {None})
        /\ cmd' = [cmd EXCEPT ![c] = NoCommand]
        /\ foreign' = foreign /\ stranded' = stranded
        /\ answer' = [answer EXCEPT ![c] = "ready"]
    BY <1>3 DEF ProbeConnects, Finish, Starting, Kill, ProxyTypeOK, HandlesMeanChildren
  <2>2. ProxyTypeOK'
    BY <2>0 DEF ProxyTypeOK, NoCommand, Stages
  <2>3. HandlesMeanChildren'
    BY <2>0 DEF ProxyTypeOK, HandlesMeanChildren, NoCommand
  <2>4. cmd' = [cmd EXCEPT ![c] = cmd'[c]]
    BY <2>0 DEF ProxyTypeOK
  <2>5. NoStray'
    BY <2>0, <2>4, OthersKeepTheirs
  <2> QED  BY <2>2, <2>3, <2>5
<1>4. CASE ProbeFails(c)
  <2> DEFINE Commands == [stage : Stages, child : Children \cup {None}]
  <2>t. cmd \in [Callers -> Commands]  BY DEF ProxyTypeOK
  <2>u. "failing" \in Stages  BY DEF Stages
  <2>v. cmd' = [cmd EXCEPT ![c].stage = "failing"]  BY <1>4 DEF ProbeFails
  <2>w. cmd'[c].stage = "failing" /\ cmd'[c].child = cmd[c].child  BY <2>t, <2>v
  <2>x. cmd' \in [Callers -> Commands] /\ \A d \in Callers \ {c} : cmd'[d] = cmd[d]
    BY <2>t, <2>u, <2>v
  <2>1. ProxyTypeOK'
    <3>1. /\ appUp' = appUp /\ proxy' = proxy /\ child' = child /\ killed' = killed
          /\ foreign' = foreign /\ answer' = answer /\ stranded' = stranded
      BY <1>4 DEF ProbeFails
    <3>2. \A d \in Callers : cmd'[d].child = cmd[d].child  BY <2>w, <2>x
    <3> QED  BY <2>x, <3>1, <3>2 DEF ProxyTypeOK
  <2>2. HandlesMeanChildren'
    BY <1>4, <2>w, <2>x DEF ProbeFails, Starting, HandlesMeanChildren
  <2>3. cmd' = [cmd EXCEPT ![c] = cmd'[c]] /\ Owns(c)' /\ cmd'[c].child = cmd[c].child
    <3>1. cmd' = [cmd EXCEPT ![c] = cmd'[c]]  BY <2>t, <2>v
    <3> QED  BY <2>w, <3>1 DEF Owns
  <2>4. NoStray'
    BY <1>4, <2>3, OthersKeepTheirs DEF ProbeFails
  <2> QED  BY <2>1, <2>2, <2>4
<1> QED  BY <1>1, <1>2, <1>3, <1>4

\* Both commands end a child of theirs in the same two steps.
LEMMA KillSteps ==
    ASSUME IInv, NEW c \in Callers,
           \/ Kills(c, "failing", "burying") \/ Kills(c, "killing", "reaping")
           \/ \E r \in {"failed", "stopped"}, s \in {"burying", "reaping"} : Reaps(c, s, r)
    PROVE  IInv'
<1> USE ProxyAssumption DEF IInv
<1>1. ASSUME NEW b \in {"failing", "killing"}, NEW a \in {"burying", "reaping"}, Kills(c, b, a)
      PROVE  IInv'
  <2> DEFINE k == cmd[c].child
  <2>0. /\ appUp /\ appUp' /\ proxy' = proxy /\ k \in Children
        /\ child' = child /\ killed' = killed \cup {k}
        /\ cmd' = [cmd EXCEPT ![c].stage = a]
        /\ foreign' = foreign /\ stranded' = stranded /\ answer' = answer
    BY <1>1 DEF Kills, Kill, ProxyTypeOK, HandlesMeanChildren
  <2>1. cmd'[c].stage = a /\ cmd'[c].child = k
    BY <2>0 DEF ProxyTypeOK
  <2>2. ProxyTypeOK'
    BY <2>0 DEF ProxyTypeOK, Stages
  <2>3. HandlesMeanChildren'
    <3>1. \A d \in Callers \ {c} : cmd'[d] = cmd[d]  BY <2>0 DEF ProxyTypeOK
    <3>2. k # None  BY <1>1 DEF Kills, HandlesMeanChildren
    <3> QED  BY <2>0, <2>1, <3>1, <3>2 DEF HandlesMeanChildren
  <2>4. cmd' = [cmd EXCEPT ![c] = cmd'[c]]
    BY <2>0 DEF ProxyTypeOK
  <2>5. NoStray'
    BY <2>0, <2>4, OthersKeepTheirs
  <2> QED  BY <2>2, <2>3, <2>5
<1>2. ASSUME NEW r \in {"failed", "stopped"}, NEW s \in {"burying", "reaping"}, Reaps(c, s, r)
      PROVE  IInv'
  <2>1. ProxyTypeOK'
    BY <1>2 DEF Reaps, Finish, NoCommand, ProxyTypeOK, Stages
  <2>2. HandlesMeanChildren'
    BY <1>2 DEF Reaps, Finish, NoCommand, ProxyTypeOK, HandlesMeanChildren
  <2>3. cmd' = [cmd EXCEPT ![c] = cmd'[c]] /\ ~Owns(c)
    BY <1>2 DEF Reaps, Finish, Owns, ProxyTypeOK
  <2>4. NoStray'
    BY <1>2, <2>3, OthersKeepTheirs DEF Reaps
  <2> QED  BY <2>1, <2>2, <2>4
<1> QED  BY <1>1, <1>2

LEMMA StopSteps ==
    ASSUME IInv, NEW c \in Callers, StopTakes(c) \/ Status(c)
    PROVE  IInv'
<1> USE ProxyAssumption DEF IInv
<1>1. CASE StopTakes(c)
  <2>0. /\ appUp /\ appUp' /\ proxy' = None /\ cmd[c] = NoCommand
        /\ child' = child /\ killed' = killed
        /\ IF proxy = None
           THEN /\ cmd' = [cmd EXCEPT ![c] = NoCommand]
                /\ answer' = [answer EXCEPT ![c] = "stopped"]
           ELSE /\ cmd' = [cmd EXCEPT ![c] = [stage |-> "killing", child |-> proxy]]
                /\ answer' = answer
        /\ foreign' = foreign /\ stranded' = stranded
    BY <1>1 DEF StopTakes, Finish, Idle
  <2>1. CASE proxy = None
    <3>1. cmd' = cmd
      BY <2>0, <2>1 DEF ProxyTypeOK
    <3>2. answer' \in [Callers -> {"none", "already running", "ready", "failed",
                                   "stopped", "running", "not running"}]
      BY <2>0, <2>1 DEF ProxyTypeOK
    <3>3. NoStray'
      BY <2>0, <2>1, <3>1 DEF NoStray, Alive, Owns
    <3> QED  BY <2>0, <2>1, <3>1, <3>2, <3>3 DEF ProxyTypeOK, HandlesMeanChildren
  <2>2. CASE proxy # None
    <3>1. \A d \in Callers \ {c} : cmd'[d] = cmd[d]
      BY <2>0, <2>2 DEF ProxyTypeOK
    <3>2. cmd'[c] = [stage |-> "killing", child |-> proxy]
      BY <2>0, <2>2 DEF ProxyTypeOK
    <3>3. ProxyTypeOK'
      <4> DEFINE Commands == [stage : Stages, child : Children \cup {None}]
      <4>1. [stage |-> "killing", child |-> proxy] \in Commands
        BY <2>2 DEF ProxyTypeOK, Stages
      <4>2. cmd \in [Callers -> Commands]
        BY DEF ProxyTypeOK
      <4> HIDE DEF Commands
      <4>3. cmd' \in [Callers -> Commands]
        BY <2>0, <2>2, <4>1, <4>2
      <4>4. \A d \in Callers : cmd'[d].child # None => cmd'[d].child # proxy'
        BY <2>0, <2>2
      <4>5. \A d, e \in Callers :
               d # e /\ cmd'[d].child = cmd'[e].child => cmd'[d].child = None
        <5>1. \A e \in Callers : cmd[e].child # proxy
          BY <2>2 DEF ProxyTypeOK
        <5>2. \A d, e \in Callers :
                 d # e /\ cmd[d].child = cmd[e].child => cmd[d].child = None
          BY DEF ProxyTypeOK
        <5>3. cmd'[c].child = proxy
          BY <3>2
        <5> QED  BY <3>1, <5>1, <5>2, <5>3
      <4> QED  BY <2>0, <2>2, <4>3, <4>4, <4>5 DEF ProxyTypeOK, Commands
    <3>4. HandlesMeanChildren'
      <4>1. \A d \in Callers : cmd'[d].child # None => child'[cmd'[d].child] # "unborn"
        <5>1. proxy \in Children /\ child[proxy] # "unborn"
          BY <2>2 DEF ProxyTypeOK, HandlesMeanChildren
        <5>2. \A d \in Callers : cmd[d].child # None => child[cmd[d].child] # "unborn"
          BY DEF HandlesMeanChildren
        <5>3. cmd'[c].child = proxy
          BY <3>2
        <5> QED  BY <2>0, <3>1, <5>1, <5>2, <5>3
      <4>2. \A d \in Callers : cmd'[d].child = None <=> cmd'[d].stage = "idle"
        BY <2>2, <3>1, <3>2 DEF HandlesMeanChildren
      <4> QED  BY <2>0, <4>1, <4>2 DEF HandlesMeanChildren
    <3>5. cmd' = [cmd EXCEPT ![c] = cmd'[c]] /\ Owns(c)' /\ cmd'[c].child = proxy /\ ~Owns(c)
      <4>1. cmd' = [cmd EXCEPT ![c] = cmd'[c]]  BY <2>0, <2>2, <3>2
      <4>2. ~Owns(c)  BY <2>0 DEF Owns, NoCommand
      <4> QED  BY <3>2, <4>1, <4>2 DEF Owns
    <3>6. NoStray'
      BY <2>0, <3>5, OthersKeepTheirs
    <3> QED  BY <3>3, <3>4, <3>6
  <2> QED  BY <2>1, <2>2
<1>2. CASE Status(c)
  <2>1. ProxyTypeOK'
    BY <1>2 DEF Status, Finish, Idle, NoCommand, Alive, ProxyTypeOK, Stages
  <2>2. HandlesMeanChildren'
    BY <1>2 DEF Status, Finish, Idle, NoCommand, Alive, ProxyTypeOK, HandlesMeanChildren
  <2>3. NoStray'
    <3> SUFFICES ASSUME NEW j \in Children, Alive(j)'
                 PROVE  Reached(j)'
      BY DEF NoStray, Reached
    <3>1. Alive(j) /\ Reached(j)
      BY <1>2 DEF Status, Finish, Idle, NoCommand, Alive, NoStray, Reached
    <3>2. cmd' = cmd
      BY <1>2 DEF Status, Finish, Idle, ProxyTypeOK
    <3> QED  BY <1>2, <3>1, <3>2 DEF Status, Alive, Reached, Owns
  <2> QED  BY <2>1, <2>2, <2>3
<1> QED  BY <1>1, <1>2

LEMMA ExitStep == ASSUME IInv, Exit PROVE IInv'
<1> USE ProxyAssumption DEF IInv
<1>h. Held \subseteq Children
  <2>1. \A c \in Callers : cmd[c].child \in Children \cup {None}
    BY DEF ProxyTypeOK
  <2> QED  BY <2>1 DEF Held
<1>2. ProxyTypeOK'
  BY <1>h DEF Exit, Kill, ProxyTypeOK, NoCommand, Stages
<1>3. HandlesMeanChildren'
  BY DEF Exit, HandlesMeanChildren, NoCommand
<1>4. NoStray'
  <2> SUFFICES ASSUME NEW j \in Children, Alive(j)', j \notin killed' PROVE j \in stranded'
    BY DEF NoStray
  <2>1. Alive(j) /\ j # proxy /\ j \notin killed
    BY DEF Alive, Exit, Kill
  <2>2. j \in Held
    BY <2>1 DEF Exit, NoStray, HandlesMeanChildren, Held
  <2> QED  BY <2>1, <2>2 DEF Exit
<1> QED  BY <1>2, <1>3, <1>4

LEMMA NextHolds == IInv /\ [Next]_vars => IInv'
<1> SUFFICES ASSUME IInv, [Next]_vars PROVE IInv'  OBVIOUS
<1>1. ASSUME NEW k \in Children, ChildBinds(k) \/ ChildFindsPortTaken(k) \/ ChildDies(k)
      PROVE  IInv'
  BY <1>1, ChildMoves DEF ChildBinds, ChildFindsPortTaken, ChildDies, Alive
<1>2. CASE ForeignMoves
  BY <1>2, ProxyAssumption DEF ForeignMoves, IInv, ProxyTypeOK, HandlesMeanChildren, NoStray, Alive,
     Owns
<1>3. ASSUME NEW c \in Callers, Command(c) PROVE IInv'
  BY <1>3, StartSteps, StopSteps, KillSteps
     DEF Command, Probe, Stop, StartKills, StartFails, StopKills, StopReaps
<1>4. CASE Exit
  BY <1>4, ExitStep
<1>5. CASE UNCHANGED vars
  BY ZenonT(40), <1>5 DEF vars, IInv, ProxyTypeOK, HandlesMeanChildren, NoStray, Alive, Owns
<1> QED  BY <1>1, <1>2, <1>3, <1>4, <1>5 DEF Next

\* The strengthened invariant holds whatever the fairness.
THEOREM ProxyInvariance == Spec => []IInv
<1> QED  BY InitHolds, NextHolds, PTL DEF Spec

\* Types, and no two holders of one child.
THEOREM ProxyTypeCorrect == Spec => []ProxyTypeOK
<1>1. IInv => ProxyTypeOK  BY DEF IInv
<1> QED  BY <1>1, ProxyInvariance, PTL

\* No living child is out of reach of a stop or an exit, but one of a start that the
\* end of the application cut off (start_proxy, stop_proxy, kill_on_drop).
THEOREM NothingStrays == Spec => []NoStray
<1>1. IInv => NoStray  BY DEF IInv
<1> QED  BY <1>1, ProxyInvariance, PTL

\* The commands that end are the three that clear their handle.
LEMMA EndingCommands ==
    ASSUME IInv, [Next]_vars, NEW c \in Callers, appUp',
           cmd[c] # NoCommand, cmd'[c] = NoCommand
    PROVE  ProbeConnects(c) \/ StartFails(c) \/ StopReaps(c)
<1>1. CASE UNCHANGED cmd  BY <1>1
<1>2. ASSUME NEW d \in Callers, Command(d), d # c PROVE FALSE
  BY <1>2 DEF Command, Probe, Stop, StartFindsHandle, StartSpawns, ProbeConnects, ProbeFails,
     StartKills, StartFails, StopTakes, StopKills, StopReaps, Kills, Reaps, Status, Finish,
     IInv, ProxyTypeOK
<1>3. ASSUME Command(c) PROVE ProbeConnects(c) \/ StartFails(c) \/ StopReaps(c)
  <2>1. ~ProbeFails(c) /\ ~StartKills(c) /\ ~StopKills(c)
    <3> SUFFICES ASSUME ProbeFails(c) \/ StartKills(c) \/ StopKills(c) PROVE FALSE  OBVIOUS
    <3>1. cmd'[c].stage # "idle"
      BY DEF ProbeFails, StartKills, StopKills, Kills, IInv, ProxyTypeOK
    <3> QED  BY <3>1 DEF NoCommand
  <2> QED
    BY <1>3, <2>1 DEF Command, Probe, Stop, StartFindsHandle, StartSpawns, StopTakes, Status, Idle
<1> QED
  BY <1>1, <1>2, <1>3 DEF Next, vars, ChildBinds, ChildFindsPortTaken, ChildDies, Becomes,
     ForeignMoves, Exit

\* While no other command is under way and none has succeeded before, "ready" means that
\* the child that was stored serves the port, and "stopped" that the child has ended;
\* only what was killed and never waited for may still live (start_proxy, stop_proxy).
THEOREM AnswersTrue == Spec => AnswersAreTrue
<1> DEFINE Holds(c) ==
        (\A d \in Callers \ {c} : cmd[d] = NoCommand) /\ proxy = None =>
            /\ AnswersNow(c, "ready") /\ ~foreign /\ Dying = {} => child'[proxy'] = "serving"
            /\ AnswersNow(c, "stopped") =>
                 \A k \in Children : Alive(k) => k \in Dying \ {cmd[c].child}
<1>1. IInv /\ [Next]_vars => [\A c \in Callers : Holds(c)]_vars
  <2> SUFFICES ASSUME IInv, [Next]_vars, NEW c \in Callers,
                      \A d \in Callers \ {c} : cmd[d] = NoCommand, proxy = None, appUp',
                      cmd[c] # NoCommand, cmd'[c] = NoCommand
               PROVE  /\ answer'[c] = "ready" /\ ~foreign /\ Dying = {} => child'[proxy'] = "serving"
                      /\ answer'[c] = "stopped" =>
                           \A k \in Children : Alive(k) => k \in Dying \ {cmd[c].child}
    BY DEF AnswersNow
  <2>1. ProbeConnects(c) \/ StartFails(c) \/ StopReaps(c)
    BY EndingCommands
  <2>0. appUp /\ stranded = {}
    BY <2>1 DEF ProbeConnects, StartFails, StopReaps, Reaps, IInv, HandlesMeanChildren
  <2>2. ASSUME NEW k \in Children, Alive(k)
        PROVE  k \in Dying \/ (Owns(c) /\ cmd[c].child = k)
    <3>1. k \in killed \/ \E d \in Callers : Owns(d) /\ cmd[d].child = k
      BY <2>0, <2>2, ProxyAssumption DEF IInv, NoStray
    <3>2. \A d \in Callers : Owns(d) => d = c
      BY DEF Owns, NoCommand
    <3> QED  BY <2>2, <3>1, <3>2 DEF Dying
  <2>3. CASE ProbeConnects(c)
    <3>1. answer'[c] = "ready" /\ proxy' = cmd[c].child /\ child' = child
      BY <2>3 DEF ProbeConnects, Finish, IInv, ProxyTypeOK
    <3>2. ~foreign => \E k \in Children : child[k] = "serving"
      BY <2>3 DEF ProbeConnects, PortTaken
    <3>3. ASSUME NEW k \in Children, child[k] = "serving", Dying = {}
          PROVE  child'[proxy'] = "serving"
      <4>1. k = cmd[c].child  BY <2>2, <3>3 DEF Alive
      <4> QED  BY <3>1, <3>3, <4>1
    <3> QED  BY <3>1, <3>2, <3>3
  <2>4. CASE StartFails(c)
    BY <2>4 DEF StartFails, Reaps, Finish, IInv, ProxyTypeOK
  <2>5. CASE StopReaps(c)
    BY <2>2, <2>5 DEF StopReaps, Reaps, Finish, Owns, IInv, ProxyTypeOK
  <2> QED  BY <2>1, <2>3, <2>4, <2>5
<1> QED  BY <1>1, ProxyInvariance, PTL DEF Spec, AnswersAreTrue

===============================================================================
