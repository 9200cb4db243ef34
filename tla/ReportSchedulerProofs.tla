------------------------- MODULE ReportSchedulerProofs -------------------------
(***************************************************************************)
(* Proofs about ReportScheduler, for any subscriptions, schedules and      *)
(* bounds.                                                                 *)
(*                                                                         *)
(* RowsFollow needs to know what each outstanding write of a row is about  *)
(* to do (RowsMean).  FiredOnce needs to know that a mail is no newer than *)
(* the last run on record, or than the run that is about to be recorded    *)
(* (LastMeans), that what is left of a tick comes after it (TickMeans),    *)
(* and that a subscription which takes the id of a deleted one is newer    *)
(* than what is still done for that one (CreateMeans).                     *)
(***************************************************************************)
EXTENDS ReportScheduler, TLAPS

\* Who works, works on a subscription.
JobsMean == \A a \in Actors : job[a].stage # "idle" => job[a].sub \in Subs

\* What a write of a row that is outstanding is about to do.
RowsMean ==
    \A s \in Subs \ loose :
        /\ ~(Writing(Loop, s) /\ Writing(Command, s))
        /\ \A a \in Actors : job[a].sub = s =>
             /\ job[a].stage = "store" /\ job[a].purpose # "create" => job[a].snap = subs[s]
             /\ job[a].stage = "store" /\ job[a].purpose = "create" => subs[s] = None /\ rows[s] = None
             /\ job[a].stage = "register" => subs[s] = None /\ rows[s] = job[a].snap
             /\ job[a].stage = "unstore" => subs[s] = None

IInv == SchedTypeOK /\ JobsMean /\ RowsMean /\ RowsFollow

-----------------------------------------------------------------------------
(* The operators *)

LEMMA NextFiringIsNear ==
    ASSUME NEW p \in Crons, NEW l \in Int, minute \in Int
    PROVE  NextFiring(p, l) \in l + 1 .. l + p
<1> DEFINE r == (minute + l) % p
           t == l + p - r
<1>1. p \in Nat \ {0}
  BY SchedulerAssumption
<1>2. r \in 0 .. p - 1 /\ minute + l = p * ((minute + l) \div p) + r
  BY <1>1, SMTT(20)
<1>3. (minute + l) \div p \in Int
  BY <1>1, SMTT(20)
<1> HIDE DEF r
<1>4. minute + t = p * ((minute + l) \div p + 1)
  BY <1>1, <1>2, <1>3, SMTT(20)
<1>5. (p * ((minute + l) \div p + 1)) % p = 0
  BY <1>1, <1>3, SMTT(20)
<1>6. t \in l + 1 .. l + p
  BY <1>1, <1>2
<1>7. (minute + t) % p = 0
  BY <1>4, <1>5
<1> HIDE DEF t
<1> QED  BY <1>6, <1>7 DEF NextFiring

LEMMA OlderType ==
    /\ \A t \in Times : Older(t) \in Times
    /\ \A r \in Subscription \cup {None} : OlderSub(r) \in Subscription \cup {None}
<1>1. \A t \in Times : Older(t) \in Times
  BY SchedulerAssumption DEF Times, Older
<1>2. ASSUME NEW r \in Subscription
      PROVE  OlderSub(r) \in Subscription \cup {None}
  BY <1>1 DEF OlderSub, Subscription
<1> QED  BY <1>1, <1>2 DEF OlderSub

LEMMA OtherIs == Other(Loop) = Command /\ Other(Command) = Loop
  BY DEF Other, Actors, Loop, Command

LEMMA TimesAreInts == \A t \in Times : t \in Int /\ t <= t
  BY SchedulerAssumption DEF Times

LEMMA LagIsPositive == -MaxLag \in Times /\ 0 \in Times /\ MaxLag > 0
  BY SchedulerAssumption DEF Times

-----------------------------------------------------------------------------
(* What many steps have in common *)

\* Who writes no row goes on writing none.
LEMMA Elsewhere ==
    ASSUME IInv, NEW a \in Actors,
           job[a].stage \notin {"store", "register", "unstore"},
           job'[a].stage \notin {"store", "register", "unstore"},
           \A b \in Actors \ {a} : job'[b] = job[b],
           UNCHANGED <<subs, rows, loose>>
    PROVE  RowsMean' /\ RowsFollow'
<1>1. \A b \in Actors, s \in Subs : Writing(b, s)' <=> Writing(b, s)
  BY DEF Writing
<1>2. \A b \in Actors, s \in Subs :
        job'[b].sub = s /\ job'[b].stage \in {"store", "register", "unstore"} => job'[b] = job[b]
  OBVIOUS
<1>3. RowsMean'
  BY <1>1, <1>2 DEF IInv, RowsMean, Actors
<1>4. RowsFollow'
  BY <1>1 DEF IInv, RowsFollow
<1> QED  BY <1>3, <1>4

\* s is changed by who writes no row.
LEMMA Changed ==
    ASSUME IInv, NEW a \in Actors, NEW s \in Subs, NEW r, NEW purpose, purpose # "create",
           job[a].stage \notin {"store", "register", "unstore"},
           Change(a, s, r, purpose), UNCHANGED rows
    PROVE  RowsMean' /\ RowsFollow'
<1>1. /\ job'[a].stage = "store" /\ job'[a].purpose = purpose /\ job'[a].sub = s /\ job'[a].snap = r
      /\ \A b \in Actors \ {a} : job'[b] = job[b]
      /\ subs'[s] = r
      /\ \A q \in Subs \ {s} : subs'[q] = subs[q]
  BY DEF Change, Work, IInv, SchedTypeOK, Job
<1>2. loose \subseteq loose' /\ (s \notin loose' => ~Writing(Other(a), s))
  BY DEF Change, Loosened
<1>3. \A q \in Subs : /\ ~Writing(a, q)
                      /\ Writing(a, q)' <=> q = s
                      /\ Writing(Other(a), q)' <=> Writing(Other(a), q)
  BY <1>1, OtherIs DEF Writing, Actors, Loop, Command
<1>4. a \in {Loop, Command} /\ Actors = {a, Other(a)} /\ a # Other(a)
  BY OtherIs DEF Actors, Loop, Command
<1>5. RowsMean'
  <2> SUFFICES ASSUME NEW q \in Subs \ loose'
               PROVE  /\ ~(Writing(a, q)' /\ Writing(Other(a), q)')
                      /\ \A b \in Actors : job'[b].sub = q =>
                           /\ job'[b].stage = "store" /\ job'[b].purpose # "create" => job'[b].snap = subs'[q]
                           /\ job'[b].stage = "store" /\ job'[b].purpose = "create" => subs'[q] = None /\ rows'[q] = None
                           /\ job'[b].stage = "register" => subs'[q] = None /\ rows'[q] = job'[b].snap
                           /\ job'[b].stage = "unstore" => subs'[q] = None
    BY <1>4, OtherIs DEF RowsMean
  <2>1. CASE q = s
    BY <2>1, <1>1, <1>2, <1>3, <1>4 DEF Writing
  <2>2. CASE q # s
    BY <2>2, <1>1, <1>2, <1>3, <1>4 DEF IInv, RowsMean
  <2> QED  BY <2>1, <2>2
<1>6. RowsFollow'
  BY <1>1, <1>2, <1>3, <1>4 DEF IInv, RowsFollow
<1> QED  BY <1>5, <1>6

LEMMA ChangedTypes ==
    ASSUME IInv, NEW a \in Actors, NEW s \in Subs, NEW r \in Subscription, NEW purpose \in Purposes,
           job[a].stage \notin {"executions", "mail"},
           Change(a, s, r, purpose)
    PROVE  /\ job' \in [Actors -> Job]
           /\ \A b \in Actors : /\ job'[b].stage \in {"executions", "mail"} <=> job[b].stage \in {"executions", "mail"}
                                /\ job'[b].stage = "mail" <=> job[b].stage = "mail"
           /\ subs' \in [Subs -> Subscription \cup {None}]
           /\ loose' \subseteq Subs
           /\ JobsMean'
<1> DEFINE at == IF purpose = "run" THEN job[a].at ELSE 0
           new == [stage |-> "store", purpose |-> purpose, sub |-> s, at |-> at, snap |-> r]
<1>1. at \in Times
  BY LagIsPositive DEF IInv, SchedTypeOK, Job
<1>2. new \in Job
  BY <1>1 DEF Job, Stages
<1> HIDE DEF at
<1>3. job' = [job EXCEPT ![a] = new]
  BY DEF Change, Work, at
<1>4. job' \in [Actors -> Job]
  BY <1>2, <1>3 DEF IInv, SchedTypeOK
<1>5. /\ job'[a].stage = "store" /\ job'[a].sub = s
      /\ \A b \in Actors \ {a} : job'[b] = job[b]
  BY <1>3 DEF IInv, SchedTypeOK
<1>6. subs' \in [Subs -> Subscription \cup {None}] /\ loose' \subseteq Subs
  BY DEF Change, Loosened, IInv, SchedTypeOK
<1>7. JobsMean'
  BY <1>5 DEF IInv, JobsMean
<1> QED  BY <1>4, <1>5, <1>6, <1>7

-----------------------------------------------------------------------------
(* The initial states and the passing of time *)

LEMMA InitHolds == Init => IInv
<1> SUFFICES ASSUME Init PROVE IInv  OBVIOUS
<1>1. SchedTypeOK
  <2>1. subs \in [Subs -> Subscription \cup {None}]
    BY SchedulerAssumption DEF Init, Subscription, Times
  <2>2. up \in BOOLEAN /\ minute \in 0 .. Cycle - 1 /\ due \in 0 .. MaxDue /\ faults \in 0 .. MaxFaults
    BY SchedulerAssumption DEF Init
  <2>3. job \in [Actors -> Job]
    BY LagIsPositive DEF Init, Idle, Work, Job, Stages, Purposes
  <2>4. \A a \in Actors : /\ (changes = a) <=> job[a].stage \in {"executions", "mail"}
                          /\ (execs = a) <=> job[a].stage = "mail"
    BY SchedulerAssumption DEF Init, Idle, Work, Actors, Loop, Command
  <2> QED  BY <2>1, <2>2, <2>3, <2>4, LagIsPositive DEF Init, SchedTypeOK, NoTick
<1>2. JobsMean /\ RowsMean /\ RowsFollow
  <2>1. \A a \in Actors : job[a].stage = "idle"
    BY DEF Init, Idle, Work
  <2>2. JobsMean
    BY <2>1 DEF JobsMean
  <2>3. RowsMean
    BY <2>1 DEF RowsMean, Writing, Actors
  <2>4. RowsFollow
    BY DEF Init, RowsFollow
  <2> QED  BY <2>2, <2>3, <2>4
<1> QED  BY <1>1, <1>2 DEF IInv

LEMMA MinuteStep == IInv /\ Minute => IInv'
<1> SUFFICES ASSUME IInv, Minute PROVE IInv'  OBVIOUS
<1> USE DEF IInv
<1>1. \A a \in Actors : /\ job'[a].stage = job[a].stage /\ job'[a].purpose = job[a].purpose
                        /\ job'[a].sub = job[a].sub /\ job'[a].snap = OlderSub(job[a].snap)
                        /\ job'[a].at \in Times
                        /\ job'[a] \in Job
  BY ZenonT(40), OlderType, LagIsPositive DEF Minute, SchedTypeOK, Job
<1>2. SchedTypeOK'
  <2>1. minute' \in 0 .. Cycle - 1 /\ due' \in 0 .. MaxDue
    <3>1. Cycle \in Nat \ {0} /\ minute \in Int
      BY SchedulerAssumption DEF SchedTypeOK
    <3>2. (minute + 1) % Cycle \in 0 .. Cycle - 1
      BY <3>1, SMTT(20)
    <3>3. due' \in 0 .. MaxDue
      <4>1. due \in 0 .. MaxDue /\ MaxDue \in Nat
        BY SchedulerAssumption DEF SchedTypeOK
      <4>2. (due < MaxDue /\ due' = due + 1) \/ due' = due
        BY DEF Minute
      <4> QED  BY <4>1, <4>2
    <3> QED  BY <3>2, <3>3 DEF Minute
  <2>2. /\ subs' \in [Subs -> Subscription \cup {None}]
        /\ rows' \in [Subs -> Subscription \cup {None}]
    BY OlderType DEF Minute, SchedTypeOK
  <2>3. tick'.at \in Times
    BY OlderType, LagIsPositive DEF Minute, SchedTypeOK, NoTick
  <2>4. tick'.todo \subseteq [sub : Subs, firing : Times, fire : BOOLEAN]
    <3>1. \A x \in tick.todo :
            [x EXCEPT !.firing = Older(@)] \in [sub : Subs, firing : Times, fire : BOOLEAN]
      BY OlderType DEF SchedTypeOK
    <3> QED  BY <3>1 DEF Minute, NoTick
  <2>5. \A x, y \in tick'.todo : x.sub = y.sub => x = y
    <3>1. CASE tick.todo = {}
      BY <3>1 DEF Minute, NoTick
    <3>2. CASE tick.todo # {}
      <4> SUFFICES ASSUME NEW x \in tick.todo, NEW y \in tick.todo,
                          [x EXCEPT !.firing = Older(@)].sub = [y EXCEPT !.firing = Older(@)].sub
                   PROVE  x = y
        <5> DEFINE Aged(x) == [x EXCEPT !.firing = Older(@)]
        <5>1. tick'.todo = {Aged(x) : x \in tick.todo}
          BY <3>2 DEF Minute
        <5> QED  BY <5>1
      <4>1. x.sub = y.sub
        BY DEF SchedTypeOK
      <4> QED  BY <4>1 DEF SchedTypeOK
    <3> QED  BY <3>1, <3>2
  <2>6. job' \in [Actors -> Job]
    BY <1>1 DEF Minute
  <2>7. upto' \in [Subs -> Times]
    <3> SUFFICES ASSUME NEW s \in Subs
                 PROVE  (IF upto[s] <= -MaxOverdue THEN -MaxLag ELSE upto[s] - 1) \in Times
      BY DEF Minute
    <3>1. upto[s] \in Times
      BY DEF SchedTypeOK
    <3> QED  BY <3>1, SchedulerAssumption DEF Times, MaxOverdue
  <2> QED  BY <1>1, <2>1, <2>2, <2>3, <2>4, <2>5, <2>6, <2>7 DEF Minute, SchedTypeOK, locks
<1>3. JobsMean'
  BY <1>1 DEF JobsMean
<1>4. \A a \in Actors, s \in Subs : Writing(a, s)' <=> Writing(a, s)
  BY <1>1 DEF Writing
<1>5. /\ \A s \in Subs : subs'[s] = OlderSub(subs[s]) /\ rows'[s] = OlderSub(rows[s])
      /\ loose' = loose /\ OlderSub(None) = None
  BY DEF Minute, OlderSub
<1>6. RowsMean'
  BY <1>1, <1>4, <1>5 DEF RowsMean, Actors
<1>7. RowsFollow'
  BY <1>4, <1>5 DEF RowsFollow
<1> QED  BY <1>2, <1>3, <1>6, <1>7

-----------------------------------------------------------------------------
(* The tick *)

LEMMA TickStartsStep == IInv /\ TickStarts => IInv'
<1> SUFFICES ASSUME IInv, TickStarts PROVE IInv'  OBVIOUS
<1>1. SchedTypeOK'
  <2>1. due' \in 0 .. MaxDue
    BY SchedulerAssumption DEF TickStarts, IInv, SchedTypeOK
  <2>2. ASSUME NEW x \in Actions
        PROVE  x \in [sub : Subs, firing : Times, fire : BOOLEAN]
    <3>1. PICK s \in Subs : /\ subs[s] # None /\ NextFiring(subs[s].cron, subs[s].last) <= 0
                            /\ x = [sub |-> s, firing |-> NextFiring(subs[s].cron, subs[s].last),
                                    fire |-> NextFiring(subs[s].cron, subs[s].last) >= -Grace]
      BY <2>2 DEF Actions
    <3>2. subs[s].cron \in Crons /\ subs[s].last \in Times /\ minute \in Int
      BY <3>1, SchedulerAssumption DEF IInv, SchedTypeOK, Subscription
    <3>3. subs[s].last \in Int /\ subs[s].last >= -MaxLag
      BY <3>2, SchedulerAssumption DEF Times
    <3> DEFINE f == NextFiring(subs[s].cron, subs[s].last)
    <3>4. f \in subs[s].last + 1 .. subs[s].last + subs[s].cron
      BY <3>2, <3>3, NextFiringIsNear
    <3>5. f <= 0
      BY <3>1
    <3> HIDE DEF f
    <3>6. f \in Times
      <4>1. subs[s].cron \in Nat
        BY <3>2, SchedulerAssumption
      <4> QED  BY <4>1, <3>3, <3>4, <3>5, SchedulerAssumption DEF Times
    <3> QED  BY <3>1, <3>6 DEF f
  <2>3. \A x, y \in Actions : x.sub = y.sub => x = y
    BY DEF Actions
  <2> QED  BY <2>1, <2>2, <2>3, LagIsPositive DEF TickStarts, IInv, SchedTypeOK, locks, history
<1>2. JobsMean' /\ RowsMean' /\ RowsFollow'
  BY DEF TickStarts, IInv, JobsMean, RowsMean, RowsFollow, Writing, history
<1> QED  BY <1>1, <1>2 DEF IInv

LEMMA TakenType ==
    ASSUME IInv, NEW x \in tick.todo, Taken(x)
    PROVE  /\ tick'.at \in Times
           /\ tick'.todo \subseteq tick.todo
           /\ tick'.todo \subseteq [sub : Subs, firing : Times, fire : BOOLEAN]
           /\ \A v, w \in tick'.todo : v.sub = w.sub => v = w
<1>1. tick'.at \in Times /\ tick'.todo \subseteq tick.todo
  BY LagIsPositive DEF Taken, NoTick, IInv, SchedTypeOK
<1> QED  BY <1>1 DEF IInv, SchedTypeOK

LEMMA TickTakesStep == IInv /\ TickTakes => IInv'
<1> SUFFICES ASSUME IInv, job[Loop] = Idle, NEW x \in tick.todo, Advance(x) \/ Fire(x)
             PROVE  IInv'
  BY DEF TickTakes
<1>1. Loop \in Actors /\ job[Loop].stage = "idle"
  BY DEF Actors, Idle, Work
<1>2. x.sub \in Subs /\ x.firing \in Times
  BY DEF IInv, SchedTypeOK
<1>3. CASE Advance(x) /\ subs[x.sub] # None
  <2>1. Change(Loop, x.sub, [subs[x.sub] EXCEPT !.last = x.firing], "advance") /\ Taken(x)
    BY <1>3 DEF Advance
  <2>2. [subs[x.sub] EXCEPT !.last = x.firing] \in Subscription
    BY <1>2, <1>3 DEF IInv, SchedTypeOK, Subscription
  <2>3. RowsMean' /\ RowsFollow'
    BY <1>1, <1>2, <1>3, <2>1, Changed DEF Advance
  <2>4. SchedTypeOK'
    BY <1>1, <1>2, <1>3, <2>1, <2>2, TakenType, ChangedTypes DEF Advance, IInv, SchedTypeOK, clock, locks, Purposes
  <2>5. JobsMean'
    BY <1>1, <1>2, <2>1, <2>2, ChangedTypes DEF Purposes
  <2> QED  BY <2>3, <2>4, <2>5 DEF IInv
<1>4. CASE Advance(x) /\ subs[x.sub] = None
  <2>1. SchedTypeOK'
    BY <1>4, TakenType DEF Advance, IInv, SchedTypeOK, clock, locks
  <2>2. JobsMean' /\ RowsMean' /\ RowsFollow'
    BY <1>4 DEF Advance, IInv, JobsMean, RowsMean, RowsFollow, Writing
  <2> QED  BY <2>1, <2>2 DEF IInv
<1>5. CASE Fire(x)
  <2>1. /\ job'[Loop].stage = "gather" /\ job'[Loop].sub = x.sub
        /\ \A b \in Actors \ {Loop} : job'[b] = job[b]
    BY <1>1, <1>5 DEF Fire, Work, IInv, SchedTypeOK
  <2>2. SchedTypeOK'
    <3>1. job' \in [Actors -> Job]
      BY <1>2, <1>5 DEF Fire, Work, IInv, SchedTypeOK, Job, Stages, Purposes
    <3> QED  BY <1>1, <1>5, <2>1, <3>1, TakenType DEF Fire, IInv, SchedTypeOK, clock, locks, history
  <2>3. RowsMean' /\ RowsFollow'
    BY <1>1, <1>5, <2>1, Elsewhere DEF Fire, history
  <2>4. JobsMean'
    BY <1>2, <2>1 DEF IInv, JobsMean
  <2> QED  BY <2>2, <2>3, <2>4 DEF IInv
<1> QED  BY <1>3, <1>4, <1>5

-----------------------------------------------------------------------------
(* A run, whoever makes it *)

\* A run goes from one stage to another, before it writes anything back.
LEMMA StageTypes ==
    ASSUME IInv, NEW a \in Actors, NEW stage \in Stages,
           job[a].stage # "idle", stage # "idle",
           job' = [job EXCEPT ![a].stage = stage]
    PROVE  /\ job' \in [Actors -> Job] /\ JobsMean'
           /\ job'[a].stage = stage
           /\ \A b \in Actors \ {a} : job'[b] = job[b]
  BY DEF IInv, SchedTypeOK, JobsMean, Job

LEMMA DoneTypes ==
    ASSUME IInv, NEW a \in Actors, Done(a)
    PROVE  /\ job' \in [Actors -> Job] /\ JobsMean'
           /\ job'[a].stage = "idle"
           /\ \A b \in Actors \ {a} : job'[b] = job[b]
<1>1. Idle \in Job /\ Idle.stage = "idle"
  BY LagIsPositive DEF Idle, Work, Job, Stages, Purposes
<1>2. /\ job' \in [Actors -> Job]
      /\ job'[a].stage = "idle"
      /\ \A b \in Actors \ {a} : job'[b] = job[b]
  BY <1>1 DEF Done, IInv, SchedTypeOK
<1>3. JobsMean'
  BY <1>2 DEF IInv, JobsMean
<1> QED  BY <1>2, <1>3

LEMMA FailedTypes ==
    ASSUME IInv, NEW a \in Actors, job[a].stage # "idle", Failed(a)
    PROVE  /\ job' \in [Actors -> Job] /\ JobsMean'
           /\ job'[a].stage \in {"idle", "mark failed"}
           /\ \A b \in Actors \ {a} : job'[b] = job[b]
<1>1. CASE a = Loop
  <2>1. job' = [job EXCEPT ![a].stage = "mark failed"]
    BY <1>1 DEF Failed
  <2> QED  BY <2>1, StageTypes DEF Stages
<1>2. CASE a # Loop
  <2>1. Done(a)
    BY <1>2 DEF Failed, Done
  <2> QED  BY <2>1, DoneTypes
<1> QED  BY <1>1, <1>2

\* The types, of whom the locks follow.
LEMMA OtherTypes ==
    ASSUME IInv, NEW a \in Actors,
           job' \in [Actors -> Job],
           \A b \in Actors \ {a} : job'[b] = job[b],
           {changes', execs'} \subseteq Actors \cup {None, "recovery"},
           \A b \in Actors \ {a} : (changes' = b <=> changes = b) /\ (execs' = b <=> execs = b),
           (changes' = a) <=> job'[a].stage \in {"executions", "mail"},
           (execs' = a) <=> job'[a].stage = "mail",
           faults' \in 0 .. MaxFaults,
           subs' \in [Subs -> Subscription \cup {None}],
           rows' \in [Subs -> Subscription \cup {None}],
           upto' \in [Subs -> Times], rewound' \subseteq Subs, loose' \subseteq Subs,
           UNCHANGED <<up, minute, due, tick>>
    PROVE  SchedTypeOK'
<1>1. \A b \in Actors : /\ (changes' = b) <=> job'[b].stage \in {"executions", "mail"}
                        /\ (execs' = b) <=> job'[b].stage = "mail"
  BY DEF IInv, SchedTypeOK
<1> QED  BY <1>1 DEF IInv, SchedTypeOK

\* The row of s is written, or left as it was; the job goes on with it or ends.
LEMMA StoreOkStep ==
    ASSUME IInv, NEW a \in Actors, StoreOk(a)
    PROVE  IInv'
<1> DEFINE s == job[a].sub
<1>0. s \in Subs /\ job[a] \in Job /\ job[a].stage = "store" /\ rows' = [rows EXCEPT ![s] = job[a].snap]
  BY DEF StoreOk, IInv, JobsMean, SchedTypeOK
<1> HIDE DEF s
<1>1. a \in {Loop, Command} /\ Actors = {a, Other(a)} /\ a # Other(a)
  BY OtherIs DEF Actors, Loop, Command
<1>2. /\ job' \in [Actors -> Job] /\ JobsMean'
      /\ \A b \in Actors \ {a} : job'[b] = job[b]
      /\ \/ job[a].purpose # "create" /\ job'[a].stage = "idle"
         \/ /\ job[a].purpose = "create" /\ job'[a].stage = "register"
            /\ job'[a].sub = s /\ job'[a].snap = job[a].snap
  <2>1. CASE job[a].purpose = "create"
    <3>1. job' = [job EXCEPT ![a].stage = "register"]
      BY <2>1 DEF StoreOk
    <3>2. job'[a].sub = job[a].sub /\ job'[a].snap = job[a].snap
      BY <3>1 DEF IInv, SchedTypeOK, Job
    <3> QED  BY <1>0, <2>1, <3>1, <3>2, StageTypes DEF Stages, s
  <2>2. CASE job[a].purpose # "create"
    <3>1. Done(a)
      BY <2>2 DEF StoreOk, Done
    <3> QED  BY <2>2, <3>1, DoneTypes
  <2> QED  BY <2>1, <2>2
<1>3. SchedTypeOK'
  <2>1. rows' \in [Subs -> Subscription \cup {None}]
    BY <1>0 DEF IInv, SchedTypeOK, Job
  <2> QED  BY <1>0, <1>2, <2>1, OtherTypes DEF StoreOk, IInv, SchedTypeOK, clock, locks, history
<1>4. \A q \in Subs : Writing(a, q) <=> q = s
  BY <1>0 DEF Writing, s
<1>5. ASSUME NEW q \in Subs \ loose, q = s
      PROVE  ~Writing(Other(a), q) /\ job'[Other(a)] = job[Other(a)] /\ subs' = subs /\ rows'[q] = job[a].snap
  BY <1>0, <1>1, <1>2, <1>4, <1>5, OtherIs DEF StoreOk, IInv, RowsMean, SchedTypeOK
<1>6. RowsMean'
  <2> SUFFICES ASSUME NEW q \in Subs \ loose
               PROVE  /\ ~(Writing(a, q)' /\ Writing(Other(a), q)')
                      /\ \A b \in Actors : job'[b].sub = q =>
                           /\ job'[b].stage = "store" /\ job'[b].purpose # "create" => job'[b].snap = subs[q]
                           /\ job'[b].stage = "store" /\ job'[b].purpose = "create" => subs[q] = None /\ rows'[q] = None
                           /\ job'[b].stage = "register" => subs[q] = None /\ rows'[q] = job'[b].snap
                           /\ job'[b].stage = "unstore" => subs[q] = None
    BY <1>1, OtherIs DEF RowsMean, StoreOk, history
  <2>1. CASE q = s
    <3>1. job[a].purpose = "create" => subs[q] = None
      BY <2>1, <1>0 DEF IInv, RowsMean, s
    <3> QED  BY <2>1, <3>1, <1>1, <1>2, <1>5 DEF Writing
  <2>2. CASE q # s
    <3>1. rows'[q] = rows[q] /\ (job'[a].stage = "idle" \/ job'[a].sub # q)
      BY <2>2, <1>0, <1>2 DEF IInv, SchedTypeOK
    <3>2. job'[Other(a)] = job[Other(a)]
      BY <1>1, <1>2
    <3> QED  BY <3>1, <3>2, <1>1 DEF IInv, RowsMean, Writing
  <2> QED  BY <2>1, <2>2
<1>7. RowsFollow'
  <2> SUFFICES ASSUME NEW q \in Subs \ loose, \A b \in Actors : ~Writing(b, q)'
               PROVE  rows'[q] = subs[q]
    BY DEF RowsFollow, StoreOk, history
  <2>1. CASE q = s
    <3>1. job[a].purpose # "create"
      BY <2>1, <1>2 DEF Writing
    <3> QED  BY <2>1, <3>1, <1>0, <1>5 DEF IInv, RowsMean, s
  <2>2. CASE q # s
    <3>1. rows'[q] = rows[q] /\ ~Writing(a, q)
      BY <2>2, <1>0, <1>4 DEF IInv, SchedTypeOK
    <3>2. ~Writing(Other(a), q)
      BY <1>1, <1>2 DEF Writing
    <3> QED  BY <3>1, <3>2, <1>1 DEF IInv, RowsFollow
  <2> QED  BY <2>1, <2>2
<1> QED  BY <1>2, <1>3, <1>6, <1>7 DEF IInv

LEMMA StoreFailsStep ==
    ASSUME IInv, NEW a \in Actors, StoreFails(a)
    PROVE  IInv'
<1> DEFINE s == job[a].sub
<1>0. s \in Subs /\ job[a] \in Job /\ job[a].stage = "store"
  BY DEF StoreFails, IInv, JobsMean, SchedTypeOK
<1>1. a \in {Loop, Command} /\ Actors = {a, Other(a)} /\ a # Other(a)
  BY OtherIs DEF Actors, Loop, Command
<1>2. /\ job' \in [Actors -> Job] /\ JobsMean'
      /\ \A b \in Actors \ {a} : job'[b] = job[b]
      /\ job'[a].stage \in {"idle", "mark failed"}
  <2>1. CASE a = Loop /\ job[a].purpose = "run"
    <3>1. job' = [job EXCEPT ![a] = [job[a] EXCEPT !.stage = "mark failed", !.snap = None]]
      BY <2>1 DEF StoreFails
    <3>2. /\ [job[a] EXCEPT !.stage = "mark failed", !.snap = None] \in Job
          /\ [job[a] EXCEPT !.stage = "mark failed", !.snap = None].stage = "mark failed"
          /\ [job[a] EXCEPT !.stage = "mark failed", !.snap = None].sub = s
      BY <1>0 DEF Job, Stages
    <3> HIDE DEF s
    <3> QED  BY <1>0, <3>1, <3>2 DEF IInv, SchedTypeOK, JobsMean
  <2>2. CASE ~(a = Loop /\ job[a].purpose = "run")
    <3>1. Done(a)
      BY <2>2 DEF StoreFails, Done
    <3> QED  BY <3>1, DoneTypes
  <2> QED  BY <2>1, <2>2
<1>3. /\ loose' \subseteq Subs /\ loose \subseteq loose'
      /\ job[a].purpose # "create" => s \in loose'
  BY <1>0 DEF StoreFails, IInv, SchedTypeOK
<1>4. SchedTypeOK'
  <2>1. /\ tick'.at \in Times
        /\ tick'.todo \subseteq [sub : Subs, firing : Times, fire : BOOLEAN]
        /\ \A x, y \in tick'.todo : x.sub = y.sub => x = y
    BY LagIsPositive DEF StoreFails, IInv, SchedTypeOK, NoTick
  <2>2. faults' \in 0 .. MaxFaults
    BY SchedulerAssumption DEF StoreFails, IInv, SchedTypeOK
  <2>3. \A b \in Actors : /\ (changes' = b) <=> job'[b].stage \in {"executions", "mail"}
                          /\ (execs' = b) <=> job'[b].stage = "mail"
    BY <1>0, <1>2 DEF StoreFails, IInv, SchedTypeOK, locks
  <2> QED  BY <1>2, <1>3, <2>1, <2>2, <2>3 DEF StoreFails, IInv, SchedTypeOK, clock, locks
<1>5. \A q \in Subs \ loose' : /\ q \in Subs \ loose
                               /\ q = s => job[a].purpose = "create"
                               /\ Writing(a, q) <=> q = s
                               /\ ~Writing(a, q)'
                               /\ Writing(Other(a), q)' <=> Writing(Other(a), q)
  BY <1>0, <1>1, <1>2, <1>3 DEF Writing
<1> HIDE DEF s
<1>6. RowsMean'
  <2> SUFFICES ASSUME NEW q \in Subs \ loose'
               PROVE  /\ ~(Writing(a, q)' /\ Writing(Other(a), q)')
                      /\ \A b \in Actors : job'[b].sub = q =>
                           /\ job'[b].stage = "store" /\ job'[b].purpose # "create" => job'[b].snap = subs[q]
                           /\ job'[b].stage = "store" /\ job'[b].purpose = "create" => subs[q] = None /\ rows[q] = None
                           /\ job'[b].stage = "register" => subs[q] = None /\ rows[q] = job'[b].snap
                           /\ job'[b].stage = "unstore" => subs[q] = None
    BY <1>1, OtherIs DEF RowsMean, StoreFails
  <2>1. job'[Other(a)] = job[Other(a)]
    BY <1>1, <1>2
  <2>2. ~(Writing(a, q)' /\ Writing(Other(a), q)')
    BY <1>5
  <2>3. q \in Subs \ loose /\ Other(a) \in Actors
    BY <1>1, <1>5
  <2>4. job[Other(a)].sub = q =>
          /\ job[Other(a)].stage = "store" /\ job[Other(a)].purpose # "create" => job[Other(a)].snap = subs[q]
          /\ job[Other(a)].stage = "store" /\ job[Other(a)].purpose = "create" => subs[q] = None /\ rows[q] = None
          /\ job[Other(a)].stage = "register" => subs[q] = None /\ rows[q] = job[Other(a)].snap
          /\ job[Other(a)].stage = "unstore" => subs[q] = None
    BY <2>3 DEF IInv, RowsMean
  <2> QED  BY <1>1, <1>2, <2>1, <2>2, <2>4
<1>7. RowsFollow'
  <2> SUFFICES ASSUME NEW q \in Subs \ loose', \A b \in Actors : ~Writing(b, q)'
               PROVE  rows[q] = subs[q]
    BY DEF RowsFollow, StoreFails
  <2>1. CASE q = s
    BY <2>1, <1>0, <1>5 DEF IInv, RowsMean, s
  <2>2. CASE q # s
    BY <2>2, <1>1, <1>5 DEF IInv, RowsFollow
  <2> QED  BY <2>1, <2>2
<1> QED  BY <1>2, <1>4, <1>6, <1>7 DEF IInv

LEMMA RunStep ==
    ASSUME IInv, NEW a \in Actors, Run(a)
    PROVE  IInv'
<1> USE DEF clock, locks, history
<1>0. /\ a # None /\ job[a] \in Job /\ {changes, execs} \subseteq Actors \cup {None, "recovery"}
      /\ subs \in [Subs -> Subscription \cup {None}] /\ rows \in [Subs -> Subscription \cup {None}]
      /\ upto \in [Subs -> Times] /\ rewound \subseteq Subs /\ loose \subseteq Subs
      /\ faults \in 0 .. MaxFaults
      /\ (changes = a) <=> job[a].stage \in {"executions", "mail"}
      /\ (execs = a) <=> job[a].stage = "mail"
  BY SchedulerAssumption DEF IInv, SchedTypeOK, Actors, Loop, Command
<1>00. faults < MaxFaults => faults + 1 \in 0 .. MaxFaults
  BY <1>0, SchedulerAssumption
<1>1. CASE TopologyRead(a)
  <2>1. /\ job' \in [Actors -> Job] /\ JobsMean' /\ job'[a].stage = "changes"
        /\ \A b \in Actors \ {a} : job'[b] = job[b]
    BY <1>1, StageTypes DEF TopologyRead, Stage, Stages
  <2>2. SchedTypeOK'
    BY <1>0, <1>1, <2>1, OtherTypes DEF TopologyRead, Stage
  <2>3. RowsMean' /\ RowsFollow'
    BY <1>1, <2>1, Elsewhere DEF TopologyRead, Stage
  <2> QED  BY <2>1, <2>2, <2>3 DEF IInv
<1>2. CASE TopologyFails(a)
  <2>1. /\ job' \in [Actors -> Job] /\ JobsMean' /\ job'[a].stage \in {"idle", "mark failed"}
        /\ \A b \in Actors \ {a} : job'[b] = job[b]
    BY <1>2, FailedTypes DEF TopologyFails
  <2>2. SchedTypeOK'
    BY <1>0, <1>00, <1>2, <2>1, OtherTypes DEF TopologyFails
  <2>3. RowsMean' /\ RowsFollow'
    BY <1>2, <2>1, Elsewhere DEF TopologyFails
  <2> QED  BY <2>1, <2>2, <2>3 DEF IInv
<1>3. CASE LockChanges(a)
  <2>1. /\ job' \in [Actors -> Job] /\ JobsMean' /\ job'[a].stage = "executions"
        /\ \A b \in Actors \ {a} : job'[b] = job[b]
    BY <1>3, StageTypes DEF LockChanges, Stage, Stages
  <2>2. SchedTypeOK'
    <3>1. \A b \in Actors \ {a} : b # None
      BY SchedulerAssumption DEF Actors, Loop, Command
    <3> QED  BY <1>0, <1>3, <2>1, <3>1, OtherTypes DEF LockChanges, Stage
  <2>3. RowsMean' /\ RowsFollow'
    BY <1>3, <2>1, Elsewhere DEF LockChanges, Stage
  <2> QED  BY <2>1, <2>2, <2>3 DEF IInv
<1>4. CASE LockExecutions(a)
  <2>1. /\ job' \in [Actors -> Job] /\ JobsMean' /\ job'[a].stage = "mail"
        /\ \A b \in Actors \ {a} : job'[b] = job[b]
    BY <1>4, StageTypes DEF LockExecutions, Stage, Stages
  <2>2. SchedTypeOK'
    <3>1. \A b \in Actors \ {a} : b # None
      BY SchedulerAssumption DEF Actors, Loop, Command
    <3> QED  BY <1>0, <1>4, <2>1, <3>1, OtherTypes DEF LockExecutions, Stage
  <2>3. RowsMean' /\ RowsFollow'
    BY <1>4, <2>1, Elsewhere DEF LockExecutions, Stage
  <2> QED  BY <2>1, <2>2, <2>3 DEF IInv
<1>5. CASE Mailed(a)
  <2>1. /\ job' \in [Actors -> Job] /\ JobsMean' /\ job'[a].stage = "report"
        /\ \A b \in Actors \ {a} : job'[b] = job[b]
    BY <1>5, StageTypes DEF Mailed, Stage, Stages
  <2>2. SchedTypeOK'
    <3>1. (\A b \in Actors : b # None) /\ job[a].stage = "mail"
      BY <1>5, SchedulerAssumption DEF Actors, Loop, Command, Mailed, Stage
    <3>2. upto' \in [Subs -> Times]
      BY <1>0, <1>5 DEF Mailed, Sent, Job
    <3> QED  BY <1>0, <1>5, <2>1, <3>1, <3>2, OtherTypes DEF Mailed
  <2>3. RowsMean' /\ RowsFollow'
    BY <1>5, <2>1, Elsewhere DEF Mailed, Stage
  <2> QED  BY <2>1, <2>2, <2>3 DEF IInv
<1>6. CASE MailFails(a)
  <2>1. /\ job' \in [Actors -> Job] /\ JobsMean' /\ job'[a].stage \in {"idle", "mark failed"}
        /\ \A b \in Actors \ {a} : job'[b] = job[b]
    BY <1>6, FailedTypes DEF MailFails
  <2>2. SchedTypeOK'
    <3>1. (\A b \in Actors : b # None) /\ job[a].stage = "mail"
      BY <1>6, SchedulerAssumption DEF Actors, Loop, Command, MailFails
    <3>2. upto' \in [Subs -> Times]
      BY <1>0, <1>6 DEF MailFails, Sent, Job
    <3> QED  BY <1>0, <1>6, <2>1, <3>1, <3>2, OtherTypes DEF MailFails
  <2>3. RowsMean' /\ RowsFollow'
    BY <1>6, <2>1, Elsewhere DEF MailFails
  <2> QED  BY <2>1, <2>2, <2>3 DEF IInv
<1>7. CASE ReportStored(a)
  <2>1. /\ job' \in [Actors -> Job] /\ JobsMean' /\ job'[a].stage = "write back"
        /\ \A b \in Actors \ {a} : job'[b] = job[b]
    BY <1>7, StageTypes DEF ReportStored, Stage, Stages
  <2>2. SchedTypeOK'
    BY <1>0, <1>7, <2>1, OtherTypes DEF ReportStored, Stage
  <2>3. RowsMean' /\ RowsFollow'
    BY <1>7, <2>1, Elsewhere DEF ReportStored, Stage
  <2> QED  BY <2>1, <2>2, <2>3 DEF IInv
<1>8. CASE ReportNotStored(a)
  <2>1. /\ job' \in [Actors -> Job] /\ JobsMean' /\ job'[a].stage \in {"idle", "write back"}
        /\ \A b \in Actors \ {a} : job'[b] = job[b]
    <3>1. \/ job' = [job EXCEPT ![a].stage = "write back"]
          \/ Done(a)
      BY <1>8 DEF ReportNotStored, Done
    <3> QED  BY <1>8, <3>1, StageTypes, DoneTypes DEF ReportNotStored, Stages
  <2>2. SchedTypeOK'
    BY <1>0, <1>00, <1>8, <2>1, OtherTypes DEF ReportNotStored
  <2>3. RowsMean' /\ RowsFollow'
    BY <1>8, <2>1, Elsewhere DEF ReportNotStored
  <2> QED  BY <2>1, <2>2, <2>3 DEF IInv
<1>9. CASE WriteBack(a) \/ MarkFailed(a)
  <2> DEFINE s == job[a].sub
  <2>1. PICK purpose \in {"run", "mark"} :
          /\ job[a].stage \in {"write back", "mark failed"}
          /\ subs[s] # None
          /\ Change(a, s, [subs[s] EXCEPT !.last = job[a].at], purpose)
          /\ rewound' \in {rewound, rewound \cup {s}}
          /\ UNCHANGED <<up, minute, due, rows, tick, changes, execs, faults, upto>>
    BY <1>9 DEF WriteBack, MarkFailed, Rewound
  <2>2. s \in Subs
    BY <2>1 DEF IInv, JobsMean
  <2>3. [subs[s] EXCEPT !.last = job[a].at] \in Subscription
    BY ZenonT(40), <1>0, <2>1, <2>2 DEF Subscription, Job
  <2> HIDE DEF s
  <2>4. /\ job' \in [Actors -> Job] /\ JobsMean'
        /\ subs' \in [Subs -> Subscription \cup {None}] /\ loose' \subseteq Subs
        /\ \A b \in Actors : /\ job'[b].stage \in {"executions", "mail"} <=> job[b].stage \in {"executions", "mail"}
                             /\ job'[b].stage = "mail" <=> job[b].stage = "mail"
    BY <2>1, <2>2, <2>3, ChangedTypes DEF Purposes
  <2>5. RowsMean' /\ RowsFollow'
    BY <2>1, <2>2, <2>3, Changed
  <2>6. SchedTypeOK'
    BY <1>0, <2>1, <2>2, <2>4 DEF IInv, SchedTypeOK
  <2> QED  BY <2>4, <2>5, <2>6 DEF IInv
<1>10. CASE Gone(a)
  <2>1. /\ job' \in [Actors -> Job] /\ JobsMean' /\ job'[a].stage = "idle"
        /\ \A b \in Actors \ {a} : job'[b] = job[b]
    BY <1>10, DoneTypes DEF Gone
  <2>2. SchedTypeOK'
    BY <1>0, <1>10, <2>1, OtherTypes DEF Gone
  <2>3. RowsMean' /\ RowsFollow'
    BY <1>10, <2>1, Elsewhere DEF Gone
  <2> QED  BY <2>1, <2>2, <2>3 DEF IInv
<1>11. CASE StoreOk(a)
  BY <1>11, StoreOkStep
<1>12. CASE StoreFails(a)
  BY <1>12, StoreFailsStep
<1> QED  BY <1>1, <1>2, <1>3, <1>4, <1>5, <1>6, <1>7, <1>8, <1>9, <1>10, <1>11, <1>12 DEF Run, TakesLocks

-----------------------------------------------------------------------------
(* Commands *)

\* A command begins a job, or has none.
LEMMA CommandTypes ==
    ASSUME IInv, NEW s \in Subs, NEW new \in Job,
           new.stage \notin {"idle", "executions", "mail"}, new.sub = s,
           job[Command].stage \notin {"executions", "mail"},
           job' = [job EXCEPT ![Command] = new]
    PROVE  /\ job' \in [Actors -> Job] /\ JobsMean'
           /\ job'[Command] = new /\ job'[Loop] = job[Loop]
           /\ \A b \in Actors : /\ job'[b].stage \in {"executions", "mail"} <=> job[b].stage \in {"executions", "mail"}
                                /\ job'[b].stage = "mail" <=> job[b].stage = "mail"
<1>1. Command \in Actors /\ Loop \in Actors /\ Loop # Command
  BY DEF Actors, Loop, Command
<1> QED  BY <1>1 DEF IInv, SchedTypeOK, JobsMean, Actors

LEMMA RegisterStep == IInv /\ Register => IInv'
<1> SUFFICES ASSUME IInv, Register PROVE IInv'  OBVIOUS
<1> DEFINE s == job[Command].sub
<1>0. /\ Command \in Actors /\ Loop \in Actors /\ Loop # Command /\ Actors = {Loop, Command}
  BY DEF Actors, Loop, Command
<1>1. s \in Subs /\ job[Command] \in Job /\ job[Command].stage = "register" /\ subs' = [subs EXCEPT ![s] = job[Command].snap]
  BY <1>0 DEF Register, IInv, JobsMean, SchedTypeOK
<1>2. /\ job' \in [Actors -> Job] /\ JobsMean'
      /\ job'[Command].stage = "idle" /\ job'[Loop] = job[Loop]
  BY <1>0, DoneTypes DEF Register
<1>3. SchedTypeOK'
  <2>1. subs' \in [Subs -> Subscription \cup {None}]
    BY <1>1 DEF IInv, SchedTypeOK, Job
  <2> QED  BY <1>0, <1>1, <1>2, <2>1 DEF Register, IInv, SchedTypeOK, clock, locks, history
<1>4. \A q \in Subs : /\ Writing(Command, q) <=> q = s
                      /\ ~Writing(Command, q)'
                      /\ Writing(Loop, q)' <=> Writing(Loop, q)
  BY <1>1, <1>2 DEF Writing
<1>5. s \notin loose => ~Writing(Loop, s) /\ rows[s] = job[Command].snap
  BY <1>0, <1>1, <1>4 DEF IInv, RowsMean
<1>6. subs'[s] = job[Command].snap /\ \A q \in Subs \ {s} : subs'[q] = subs[q]
  BY <1>1 DEF IInv, SchedTypeOK
<1> HIDE DEF s
<1>7. RowsMean'
  <2> SUFFICES ASSUME NEW q \in Subs \ loose
               PROVE  /\ ~(Writing(Loop, q)' /\ Writing(Command, q)')
                      /\ \A b \in Actors : job'[b].sub = q =>
                           /\ job'[b].stage = "store" /\ job'[b].purpose # "create" => job'[b].snap = subs'[q]
                           /\ job'[b].stage = "store" /\ job'[b].purpose = "create" => subs'[q] = None /\ rows[q] = None
                           /\ job'[b].stage = "register" => subs'[q] = None /\ rows[q] = job'[b].snap
                           /\ job'[b].stage = "unstore" => subs'[q] = None
    BY DEF RowsMean, Register, history
  <2>1. CASE q = s
    BY <1>0, <1>2, <1>4, <1>5, <2>1 DEF Writing
  <2>2. CASE q # s
    BY <1>0, <1>2, <1>4, <1>6, <2>2 DEF IInv, RowsMean
  <2> QED  BY <2>1, <2>2
<1>8. RowsFollow'
  BY <1>0, <1>4, <1>5, <1>6 DEF Register, IInv, RowsFollow, history
<1> QED  BY <1>2, <1>3, <1>7, <1>8 DEF IInv

LEMMA UnstoreStep == IInv /\ Unstore => IInv'
<1> SUFFICES ASSUME IInv, Unstore PROVE IInv'  OBVIOUS
<1> DEFINE s == job[Command].sub
<1>0. /\ Command \in Actors /\ Loop \in Actors /\ Loop # Command /\ Actors = {Loop, Command}
  BY DEF Actors, Loop, Command
<1>1. s \in Subs /\ job[Command] \in Job /\ job[Command].stage = "unstore"
  BY <1>0 DEF Unstore, IInv, JobsMean, SchedTypeOK
<1>2. /\ job' \in [Actors -> Job] /\ JobsMean'
      /\ job'[Command].stage = "idle" /\ job'[Loop] = job[Loop]
  BY <1>0, DoneTypes DEF Unstore
<1>3. /\ rows' \in [Subs -> Subscription \cup {None}]
      /\ \A q \in Subs \ {s} : rows'[q] = rows[q]
      /\ rows'[s] = None \/ s \in loose'
      /\ loose \subseteq loose' /\ loose' \subseteq Subs
      /\ faults' \in 0 .. MaxFaults
  <2>1. CASE rows' = [rows EXCEPT ![s] = None] /\ UNCHANGED <<faults, loose>>
    BY <1>1, <2>1 DEF IInv, SchedTypeOK
  <2>2. CASE /\ faults < MaxFaults /\ faults' = faults + 1
             /\ loose' = loose \cup {s}
             /\ UNCHANGED rows
    BY <1>1, <2>2, SchedulerAssumption DEF IInv, SchedTypeOK
  <2> QED  BY <2>1, <2>2 DEF Unstore
<1>4. SchedTypeOK'
  BY <1>0, <1>1, <1>2, <1>3 DEF Unstore, IInv, SchedTypeOK, clock, locks
<1>5. \A q \in Subs : /\ Writing(Command, q) <=> q = s
                      /\ ~Writing(Command, q)'
                      /\ Writing(Loop, q)' <=> Writing(Loop, q)
  BY <1>1, <1>2 DEF Writing
<1>6. s \notin loose => ~Writing(Loop, s) /\ subs[s] = None
  BY <1>0, <1>1, <1>5 DEF IInv, RowsMean
<1> HIDE DEF s
<1>7. RowsMean'
  <2> SUFFICES ASSUME NEW q \in Subs \ loose'
               PROVE  /\ ~(Writing(Loop, q)' /\ Writing(Command, q)')
                      /\ \A b \in Actors : job'[b].sub = q =>
                           /\ job'[b].stage = "store" /\ job'[b].purpose # "create" => job'[b].snap = subs[q]
                           /\ job'[b].stage = "store" /\ job'[b].purpose = "create" => subs[q] = None /\ rows'[q] = None
                           /\ job'[b].stage = "register" => subs[q] = None /\ rows'[q] = job'[b].snap
                           /\ job'[b].stage = "unstore" => subs[q] = None
    BY DEF RowsMean, Unstore
  <2>1. CASE q = s
    BY <1>0, <1>2, <1>3, <1>5, <1>6, <2>1 DEF Writing
  <2>2. CASE q # s
    BY <1>0, <1>2, <1>3, <1>5, <2>2 DEF IInv, RowsMean
  <2> QED  BY <2>1, <2>2
<1>8. RowsFollow'
  BY <1>0, <1>3, <1>5, <1>6 DEF Unstore, IInv, RowsFollow
<1> QED  BY <1>2, <1>4, <1>7, <1>8 DEF IInv

LEMMA CommandStep == IInv /\ Commands => IInv'
<1> SUFFICES ASSUME IInv, Commands PROVE IInv'  OBVIOUS
<1> USE DEF clock, locks, history
<1>0. /\ Command \in Actors /\ Loop \in Actors /\ Loop # Command /\ Actors = {Loop, Command}
      /\ Idle.stage = "idle"
  BY DEF Actors, Loop, Command, Idle, Work
<1>00. /\ job \in [Actors -> Job] /\ subs \in [Subs -> Subscription \cup {None}]
       /\ rows \in [Subs -> Subscription \cup {None}] /\ loose \subseteq Subs
  BY DEF IInv, SchedTypeOK
<1>1. ASSUME NEW s \in Subs, Create(s) PROVE IInv'
  <2>1. PICK cron \in Crons, enabled \in BOOLEAN :
          job' = [job EXCEPT ![Command] = [stage |-> "store", purpose |-> "create", sub |-> s, at |-> 0,
                      snap |-> [cron |-> cron, enabled |-> enabled, last |-> 0]]]
    BY <1>1 DEF Create, Work
  <2> DEFINE new == [stage |-> "store", purpose |-> "create", sub |-> s, at |-> 0,
                     snap |-> [cron |-> cron, enabled |-> enabled, last |-> 0]]
  <2>2. new \in Job /\ new.stage = "store" /\ new.sub = s /\ new.purpose = "create"
    BY LagIsPositive DEF Job, Stages, Purposes, Subscription
  <2>3. job' = [job EXCEPT ![Command] = new]
    BY <2>1
  <2> HIDE DEF new
  <2>4. job[Command].stage = "idle"
    BY <1>0, <1>1 DEF Create
  <2>5. /\ job' \in [Actors -> Job] /\ JobsMean'
        /\ job'[Command] = new /\ job'[Loop] = job[Loop]
        /\ \A b \in Actors : /\ job'[b].stage \in {"executions", "mail"} <=> job[b].stage \in {"executions", "mail"}
                             /\ job'[b].stage = "mail" <=> job[b].stage = "mail"
    BY <2>2, <2>3, <2>4, CommandTypes
  <2>6. SchedTypeOK'
    BY <1>1, <2>5 DEF Create, IInv, SchedTypeOK
  <2>7. /\ \A q \in Subs : /\ ~Writing(Command, q)
                           /\ Writing(Command, q)' <=> q = s
                           /\ Writing(Loop, q)' <=> Writing(Loop, q)
        /\ ~Writing(Loop, s)
    BY <1>0, <1>1, <2>2, <2>4, <2>5 DEF Writing, Create
  <2>8. RowsMean'
    <3> SUFFICES ASSUME NEW q \in Subs \ loose
                 PROVE  /\ ~(Writing(Loop, q)' /\ Writing(Command, q)')
                        /\ \A b \in Actors : job'[b].sub = q =>
                             /\ job'[b].stage = "store" /\ job'[b].purpose # "create" => job'[b].snap = subs[q]
                             /\ job'[b].stage = "store" /\ job'[b].purpose = "create" => subs[q] = None /\ rows[q] = None
                             /\ job'[b].stage = "register" => subs[q] = None /\ rows[q] = job'[b].snap
                             /\ job'[b].stage = "unstore" => subs[q] = None
      BY <1>1 DEF RowsMean, Create
    <3>1. CASE q = s
      BY <1>0, <1>1, <2>2, <2>5, <2>7, <3>1 DEF Create
    <3>2. CASE q # s
      BY <1>0, <2>2, <2>5, <2>7, <3>2 DEF IInv, RowsMean
    <3> QED  BY <3>1, <3>2
  <2>9. RowsFollow'
    BY <1>0, <1>1, <2>7 DEF Create, IInv, RowsFollow
  <2> QED  BY <2>5, <2>6, <2>8, <2>9 DEF IInv
<1>2. ASSUME NEW s \in Subs, Update(s) PROVE IInv'
  <2>1. PICK cron \in Crons, enabled \in BOOLEAN :
          Change(Command, s, [subs[s] EXCEPT !.cron = cron, !.enabled = enabled], "edit")
    BY <1>2 DEF Update
  <2>2. [subs[s] EXCEPT !.cron = cron, !.enabled = enabled] \in Subscription
    BY <1>00, <1>2 DEF Update, Asks, Subscription
  <2>3. job[Command].stage = "idle"
    BY <1>0, <1>2 DEF Update, Asks
  <2>4. RowsMean' /\ RowsFollow'
    BY <1>0, <1>2, <2>1, <2>3, Changed DEF Update
  <2>5. /\ job' \in [Actors -> Job] /\ JobsMean'
        /\ subs' \in [Subs -> Subscription \cup {None}] /\ loose' \subseteq Subs
        /\ \A b \in Actors : /\ job'[b].stage \in {"executions", "mail"} <=> job[b].stage \in {"executions", "mail"}
                             /\ job'[b].stage = "mail" <=> job[b].stage = "mail"
    BY <1>0, <2>1, <2>2, <2>3, ChangedTypes DEF Purposes
  <2>6. SchedTypeOK'
    BY <1>2, <2>5 DEF Update, IInv, SchedTypeOK
  <2> QED  BY <2>4, <2>5, <2>6 DEF IInv
<1>3. ASSUME NEW s \in Subs, UpdateRefused(s) PROVE IInv'
  <2>1. \A cron \in Crons : [subs[s] EXCEPT !.cron = cron] \in Subscription
    BY <1>00, <1>3 DEF UpdateRefused, Asks, Subscription
  <2>2. subs' \in [Subs -> Subscription \cup {None}] /\ \A q \in Subs \ {s} : subs'[q] = subs[q]
    BY <1>00, <1>3, <2>1 DEF UpdateRefused
  <2>3. SchedTypeOK'
    BY <1>3, <2>2 DEF UpdateRefused, IInv, SchedTypeOK
  <2>4. \A a \in Actors, q \in Subs : Writing(a, q)' <=> Writing(a, q)
    BY <1>3 DEF UpdateRefused, Writing
  <2>5. JobsMean' /\ RowsMean' /\ RowsFollow'
    <3>1. JobsMean' /\ RowsFollow'
      BY <1>3, <2>2, <2>4 DEF UpdateRefused, IInv, JobsMean, RowsFollow
    <3>2. RowsMean'
      BY <1>0, <1>3, <2>2, <2>4 DEF UpdateRefused, IInv, RowsMean
    <3> QED  BY <3>1, <3>2
  <2> QED  BY <2>3, <2>5 DEF IInv
<1>4. ASSUME NEW s \in Subs, Delete(s) PROVE IInv'
  <2> DEFINE new == [stage |-> "unstore", purpose |-> "edit", sub |-> s, at |-> 0, snap |-> None]
  <2>1. new \in Job /\ new.stage = "unstore" /\ new.sub = s
    BY LagIsPositive DEF Job, Stages, Purposes
  <2>2. job' = [job EXCEPT ![Command] = new]
    BY <1>4 DEF Delete, Work
  <2> HIDE DEF new
  <2>3. job[Command].stage = "idle"
    BY <1>0, <1>4 DEF Delete, Asks
  <2>4. /\ job' \in [Actors -> Job] /\ JobsMean'
        /\ job'[Command] = new /\ job'[Loop] = job[Loop]
        /\ \A b \in Actors : /\ job'[b].stage \in {"executions", "mail"} <=> job[b].stage \in {"executions", "mail"}
                             /\ job'[b].stage = "mail" <=> job[b].stage = "mail"
    BY <2>1, <2>2, <2>3, CommandTypes
  <2>5. /\ subs' \in [Subs -> Subscription \cup {None}] /\ subs'[s] = None
        /\ \A q \in Subs \ {s} : subs'[q] = subs[q]
        /\ loose' \subseteq Subs /\ loose \subseteq loose'
        /\ s \notin loose' => ~Writing(Loop, s)
    BY <1>00, <1>4, OtherIs DEF Delete, Loosened
  <2>6. SchedTypeOK'
    BY <1>4, <2>4, <2>5 DEF Delete, IInv, SchedTypeOK
  <2>7. \A q \in Subs : /\ ~Writing(Command, q)
                        /\ Writing(Command, q)' <=> q = s
                        /\ Writing(Loop, q)' <=> Writing(Loop, q)
    BY <1>0, <2>1, <2>3, <2>4 DEF Writing
  <2>8. RowsMean'
    <3> SUFFICES ASSUME NEW q \in Subs \ loose'
                 PROVE  /\ ~(Writing(Loop, q)' /\ Writing(Command, q)')
                        /\ \A b \in Actors : job'[b].sub = q =>
                             /\ job'[b].stage = "store" /\ job'[b].purpose # "create" => job'[b].snap = subs'[q]
                             /\ job'[b].stage = "store" /\ job'[b].purpose = "create" => subs'[q] = None /\ rows[q] = None
                             /\ job'[b].stage = "register" => subs'[q] = None /\ rows[q] = job'[b].snap
                             /\ job'[b].stage = "unstore" => subs'[q] = None
      BY <1>4 DEF RowsMean, Delete
    <3>1. CASE q = s
      BY <1>0, <2>1, <2>4, <2>5, <2>7, <3>1 DEF Writing
    <3>2. CASE q # s
      BY <1>0, <2>1, <2>4, <2>5, <2>7, <3>2 DEF IInv, RowsMean
    <3> QED  BY <3>1, <3>2
  <2>9. RowsFollow'
    BY <1>0, <1>4, <2>5, <2>7 DEF Delete, IInv, RowsFollow
  <2> QED  BY <2>4, <2>6, <2>8, <2>9 DEF IInv
<1>5. ASSUME NEW s \in Subs, Trigger(s) PROVE IInv'
  <2> DEFINE new == [stage |-> "gather", purpose |-> "run", sub |-> s, at |-> 0, snap |-> None]
  <2>1. new \in Job /\ new.stage = "gather" /\ new.sub = s
    BY LagIsPositive DEF Job, Stages, Purposes
  <2>2. job' = [job EXCEPT ![Command] = new]
    BY <1>5 DEF Trigger, Work
  <2> HIDE DEF new
  <2>3. job[Command].stage = "idle"
    BY <1>0, <1>5 DEF Trigger, Asks
  <2>4. /\ job' \in [Actors -> Job] /\ JobsMean'
        /\ job'[Command] = new /\ job'[Loop] = job[Loop]
        /\ \A b \in Actors : /\ job'[b].stage \in {"executions", "mail"} <=> job[b].stage \in {"executions", "mail"}
                             /\ job'[b].stage = "mail" <=> job[b].stage = "mail"
    BY <2>1, <2>2, <2>3, CommandTypes
  <2>5. SchedTypeOK'
    BY <1>5, <2>4 DEF Trigger, IInv, SchedTypeOK
  <2>6. RowsMean' /\ RowsFollow'
    BY <1>0, <1>5, <2>1, <2>3, <2>4, Elsewhere DEF Trigger
  <2> QED  BY <2>4, <2>5, <2>6 DEF IInv
<1>6. CASE Register
  BY <1>6, RegisterStep
<1>7. CASE Unstore
  BY <1>7, UnstoreStep
<1> QED  BY <1>1, <1>2, <1>3, <1>4, <1>5, <1>6, <1>7 DEF Commands

-----------------------------------------------------------------------------
(* Recovery commands, crashes and restarts *)

LEMMA OtherStep == IInv /\ (RecoveryEnters \/ RecoveryLeaves \/ Stop \/ Start) => IInv'
<1> SUFFICES ASSUME IInv, RecoveryEnters \/ RecoveryLeaves \/ Stop \/ Start PROVE IInv'
  OBVIOUS
<1> USE DEF clock, locks, history
<1>0. \A a \in Actors : a # None /\ a # "recovery"
  BY SchedulerAssumption DEF Actors, Loop, Command
<1>1. CASE RecoveryEnters \/ RecoveryLeaves
  <2>1. SchedTypeOK'
    BY <1>0, <1>1 DEF RecoveryEnters, RecoveryLeaves, IInv, SchedTypeOK
  <2>2. JobsMean' /\ RowsMean' /\ RowsFollow'
    BY <1>1 DEF RecoveryEnters, RecoveryLeaves, IInv, JobsMean, RowsMean, RowsFollow, Writing
  <2> QED  BY <2>1, <2>2 DEF IInv
<1>2. CASE Stop
  <2>1. Idle \in Job /\ Idle.stage = "idle"
    BY LagIsPositive DEF Idle, Work, Job, Stages, Purposes
  <2>2. \A a \in Actors : job'[a] \in Job /\ job'[a].stage = "idle"
    BY <1>2, <2>1 DEF Stop
  <2>3. SchedTypeOK'
    <3>1. job' \in [Actors -> Job]
      BY <1>2, <2>1 DEF Stop
    <3>2. faults' \in 0 .. MaxFaults /\ due' \in 0 .. MaxDue
      BY <1>2, SchedulerAssumption DEF Stop, IInv, SchedTypeOK
    <3> QED  BY <1>0, <1>2, <2>2, <3>1, <3>2, LagIsPositive DEF Stop, IInv, SchedTypeOK, NoTick
  <2>4. JobsMean'
    BY <2>2 DEF JobsMean
  <2>5. RowsMean'
    BY <2>2 DEF RowsMean, Writing, Actors
  <2>6. RowsFollow'
    BY <1>2 DEF Stop, RowsFollow
  <2> QED  BY <2>3, <2>4, <2>5, <2>6 DEF IInv
<1>3. CASE Start
  <2>1. SchedTypeOK'
    BY <1>3, SchedulerAssumption DEF Start, IInv, SchedTypeOK
  <2>2. JobsMean' /\ RowsMean' /\ RowsFollow'
    BY <1>3 DEF Start, IInv, JobsMean, RowsMean, RowsFollow, Writing
  <2> QED  BY <2>1, <2>2 DEF IInv
<1> QED  BY <1>1, <1>2, <1>3

-----------------------------------------------------------------------------
(* Theorems *)

LEMMA Stutter == IInv /\ UNCHANGED vars => IInv'
  BY DEF IInv, SchedTypeOK, JobsMean, RowsMean, RowsFollow, Writing, vars

LEMMA Inductive == IInv /\ [Next]_vars => IInv'
<1> SUFFICES ASSUME IInv, [Next]_vars PROVE IInv'  OBVIOUS
<1>1. ASSUME NEW a \in Actors, Run(a) PROVE IInv'
  BY <1>1, RunStep
<1> QED  BY <1>1, MinuteStep, TickStartsStep, TickTakesStep, CommandStep, OtherStep, Stutter DEF Next

\* The variables have their types.
THEOREM SchedTypeCorrect == Spec => []SchedTypeOK
<1>1. IInv => SchedTypeOK  BY DEF IInv
<1> QED  BY <1>1, InitHolds, Inductive, PTL DEF Spec

\* Whatever the loop, the commands and a crash do to a subscription at once, its row is
\* its registry entry once every write is done (scheduler.rs, reports_scheduler.rs).
THEOREM RowsAreFollowing == Spec => []RowsFollow
<1>1. IInv => RowsFollow  BY DEF IInv
<1> QED  BY <1>1, InitHolds, Inductive, PTL DEF Spec
-----------------------------------------------------------------------------
(* No firing is mailed twice *)

OffMeans == up \/ tick.todo = {}

RunStages == {"gather", "changes", "executions", "mail", "report", "write back", "mark failed"}
Runs(a) == job[a].purpose = "run"

\* A run has its purpose from beginning to end, and a trigger is never marked.
RunMeans ==
    /\ \A a \in Actors : /\ job[a].stage \in RunStages => Runs(a)
                         /\ job[a].stage = "idle" => job[a].purpose = "none"
    /\ job[Command].stage # "mark failed"

\* What is left of a tick: its firings come after the mails, its runs after the run
\* before, and a firing that is answered is no older than the loop is late.
TickMeans ==
    \A x \in tick.todo :
        /\ x.fire => x.firing >= -Grace - due
        /\ x.sub \notin rewound => upto[x.sub] <= x.firing /\ (x.fire => upto[x.sub] < x.firing)
        /\ \A s \in Subs : upto[s] <= tick.at
        /\ Runs(Loop) => job[Loop].sub # x.sub /\ job[Loop].at <= tick.at

\* A mail is no newer than the run that sends it, and than the last run on record,
\* until the run that sent it has recorded itself.
LastMeans ==
    /\ Runs(Loop) => upto[job[Loop].sub] <= job[Loop].at
    /\ \A s \in Subs \ rewound : subs[s] # None =>
         \/ upto[s] <= subs[s].last
         \/ job[Loop].sub = s /\ job[Loop].stage \in {"report", "write back", "mark failed"}

\* A subscription that takes the place of a deleted one is newer than all that is still
\* done for that one.
CreateMeans ==
    LET s == job[Command].sub
        new == job[Command].snap
    IN job[Command].stage = "register" \/ job[Command].purpose = "create" =>
         /\ subs[s] = None
         /\ new # None =>
              /\ upto[s] <= new.last
              /\ \A x \in tick.todo : x.sub = s => tick.at <= new.last
              /\ Runs(Loop) /\ job[Loop].sub = s => job[Loop].at <= new.last

OnceMeans == OffMeans /\ RunMeans /\ TickMeans /\ LastMeans /\ CreateMeans

\* A run goes from one stage to the next.
LEMMA StageOnce ==
    ASSUME IInv, OnceMeans, NEW a \in Actors, NEW stage \in RunStages,
           job[a].stage \in RunStages,
           a = Command => stage # "mark failed",
           a = Loop /\ job[a].stage \in {"report", "write back", "mark failed"} =>
             stage \in {"report", "write back", "mark failed"},
           job' = [job EXCEPT ![a].stage = stage],
           UNCHANGED <<up, due, subs, tick, upto, rewound>>
    PROVE  OnceMeans'
<1>0. Actors = {Loop, Command} /\ Loop # Command /\ stage \notin {"register", "idle"}
  BY DEF Actors, Loop, Command, RunStages
<1>1. /\ job'[a].stage = stage /\ job'[a].purpose = job[a].purpose /\ job'[a].sub = job[a].sub
      /\ job'[a].at = job[a].at /\ job'[a].snap = job[a].snap
      /\ \A b \in Actors \ {a} : job'[b] = job[b]
  BY ZenonT(40) DEF IInv, SchedTypeOK, Job
<1>2. Runs(Loop)' <=> Runs(Loop)
  BY <1>0, <1>1 DEF Runs
<1>3. OffMeans' /\ RunMeans'
  BY ZenonT(40), <1>0, <1>1 DEF OnceMeans, OffMeans, RunMeans, Runs
<1>4. TickMeans'
  BY <1>0, <1>1, <1>2 DEF OnceMeans, TickMeans
<1>5. LastMeans'
  BY ZenonT(40), <1>0, <1>1, <1>2 DEF OnceMeans, LastMeans
<1>6. CreateMeans'
  <2>1. job[Command].stage # "register" \/ a # Command
    BY DEF RunStages
  <2> QED  BY <1>0, <1>1, <1>2, <2>1 DEF OnceMeans, CreateMeans
<1> QED  BY <1>3, <1>4, <1>5, <1>6 DEF OnceMeans

\* A job ends.
LEMMA DoneOnce ==
    ASSUME IInv, OnceMeans, NEW a \in Actors, Done(a),
           a = Loop => \A s \in Subs \ rewound : subs[s] # None => upto[s] <= subs[s].last \/ job[Loop].sub # s,
           UNCHANGED <<up, due, subs, upto, rewound>>, tick'.at = tick.at \/ tick'.todo = {},
           tick'.todo \subseteq tick.todo
    PROVE  OnceMeans'
<1>0. Actors = {Loop, Command} /\ Loop # Command
  BY DEF Actors, Loop, Command
<1>1. /\ job'[a].stage = "idle" /\ job'[a].purpose = "none"
      /\ \A b \in Actors \ {a} : job'[b] = job[b]
  BY DEF Done, Idle, Work, IInv, SchedTypeOK
<1>2. Runs(Loop)' => Runs(Loop) /\ a # Loop /\ job'[Loop] = job[Loop]
  BY <1>0, <1>1 DEF Runs
<1>3. OffMeans' /\ RunMeans'
  BY <1>0, <1>1 DEF OnceMeans, OffMeans, RunMeans, Runs, RunStages
<1>4. TickMeans'
  BY <1>0, <1>1, <1>2 DEF OnceMeans, TickMeans
<1>5. LastMeans'
  BY <1>0, <1>1, <1>2 DEF OnceMeans, LastMeans
<1>6. CreateMeans'
  BY <1>0, <1>1, <1>2 DEF OnceMeans, CreateMeans
<1> QED  BY <1>3, <1>4, <1>5, <1>6 DEF OnceMeans

LEMMA FailedOnce ==
    ASSUME IInv, OnceMeans, NEW a \in Actors, job[a].stage \in RunStages, Failed(a),
           UNCHANGED <<up, due, subs, tick, upto, rewound>>
    PROVE  OnceMeans'
<1>1. CASE a = Loop
  <2>1. job' = [job EXCEPT ![a].stage = "mark failed"] /\ a # Command
    BY <1>1 DEF Failed, Loop, Command
  <2> QED  BY <2>1, StageOnce DEF RunStages
<1>2. CASE a # Loop
  <2>1. Done(a)
    BY <1>2 DEF Failed, Done
  <2> QED  BY <1>2, <2>1, DoneOnce
<1> QED  BY <1>1, <1>2

LEMMA InitOnce == Init => OnceMeans
<1> SUFFICES ASSUME Init PROVE OnceMeans  OBVIOUS
<1>1. /\ Loop \in Actors /\ Command \in Actors
      /\ \A a \in Actors : job[a].stage = "idle" /\ job[a].purpose = "none"
      /\ tick.todo = {} /\ up
      /\ \A s \in Subs : upto[s] = -MaxLag
  BY DEF Init, Actors, Idle, Work, NoTick
<1>2. \A s \in Subs : subs[s] # None => upto[s] <= subs[s].last
  BY <1>1, LagIsPositive, SchedulerAssumption DEF Init
<1> QED  BY <1>1, <1>2 DEF OnceMeans, OffMeans, RunMeans, TickMeans, LastMeans, CreateMeans, Runs, RunStages

\* A time and the mails before it age alike.
LEMMA AgeAlike ==
    ASSUME NEW u \in Times, NEW t \in Times,
           NEW v, v = IF u <= -MaxOverdue THEN -MaxLag ELSE u - 1
    PROVE  /\ u <= t => v <= Older(t)
           /\ u < t /\ t > -MaxOverdue => v < Older(t)
<1>0. /\ u \in Int /\ t \in Int /\ -MaxLag <= u /\ -MaxLag <= t /\ MaxOverdue \in Nat /\ MaxLag \in Nat
      /\ MaxLag > MaxOverdue /\ Older(t) = IF t > -MaxLag THEN t - 1 ELSE t
  BY SchedulerAssumption DEF Times, MaxOverdue, Older
<1>1. CASE u <= -MaxOverdue
  <2>1. v = -MaxLag
    BY <1>1
  <2> QED  BY <1>0, <2>1
<1>2. CASE ~(u <= -MaxOverdue)
  <2>1. v = u - 1
    BY <1>2
  <2> QED  BY <1>0, <1>2, <2>1
<1> QED  BY <1>1, <1>2

LEMMA OlderMonotone == \A t, w \in Times : t <= w => Older(t) <= Older(w)
  BY SchedulerAssumption DEF Times, Older

LEMMA MinuteOnce == IInv /\ OnceMeans /\ Minute => OnceMeans'
<1> SUFFICES ASSUME IInv, OnceMeans, Minute PROVE OnceMeans'  OBVIOUS
<1>0. Actors = {Loop, Command} /\ Loop # Command
  BY DEF Actors, Loop, Command
<1>1. \A a \in Actors : /\ job'[a].stage = job[a].stage /\ job'[a].purpose = job[a].purpose
                        /\ job'[a].sub = job[a].sub /\ job'[a].snap = OlderSub(job[a].snap)
                        /\ Runs(a) => job'[a].at = Older(job[a].at)
                        /\ job[a].at \in Times /\ job[a].snap \in Subscription \cup {None}
  <2> TAKE a \in Actors
  <2>1. job[a] \in Job
    BY DEF IInv, SchedTypeOK
  <2>2. job'[a] = [job[a] EXCEPT !.at = IF job[a].purpose = "run" THEN Older(@) ELSE 0,
                                 !.snap = OlderSub(@)]
    BY DEF Minute
  <2> QED  BY <2>1, <2>2 DEF Job, Runs
<1>2. ASSUME NEW s \in Subs
      PROVE  /\ upto[s] \in Times /\ upto'[s] \in Int
             /\ \A t \in Times : /\ upto[s] <= t => upto'[s] <= Older(t)
                                 /\ upto[s] < t /\ t > -MaxOverdue => upto'[s] < Older(t)
  <2>1. upto[s] \in Times /\ upto'[s] = IF upto[s] <= -MaxOverdue THEN -MaxLag ELSE upto[s] - 1
    BY DEF Minute, IInv, SchedTypeOK
  <2>2. upto'[s] \in Int
    BY <2>1, SchedulerAssumption DEF Times
  <2> QED  BY <2>1, <2>2, AgeAlike
<1>3. \A a \in Actors : Runs(a)' <=> Runs(a)
  BY <1>1 DEF Runs
<1>4. OffMeans'
  BY DEF Minute, OnceMeans, OffMeans, NoTick
<1>5. RunMeans'
  BY <1>0, <1>1, <1>3 DEF OnceMeans, RunMeans
<1>6. TickMeans'
  <2> SUFFICES ASSUME NEW y \in tick'.todo
               PROVE  /\ y.fire => y.firing >= -Grace - due'
                      /\ y.sub \notin rewound => upto'[y.sub] <= y.firing /\ (y.fire => upto'[y.sub] < y.firing)
                      /\ \A s \in Subs : upto'[s] <= tick'.at
                      /\ Runs(Loop) => job'[Loop].sub # y.sub /\ job'[Loop].at <= tick'.at
    BY <1>0, <1>3 DEF TickMeans, Minute
  <2>1. tick.todo # {} /\ tick'.at = Older(tick.at)
    BY DEF Minute, NoTick
  <2>2. PICK x \in tick.todo : y = [x EXCEPT !.firing = Older(@)]
    BY <2>1 DEF Minute
  <2>3. /\ x.sub \in Subs /\ x.firing \in Times
        /\ y.sub = x.sub /\ y.fire = x.fire /\ y.firing = Older(x.firing)
    BY <2>2 DEF IInv, SchedTypeOK
  <2>4. due \in Nat /\ due < MaxDue /\ due' = due + 1 /\ tick.at \in Times
    <3>1. up
      BY <2>1 DEF OnceMeans, OffMeans
    <3>2. due < MaxDue /\ due' = due + 1
      BY <3>1 DEF Minute
    <3> QED  BY <3>2 DEF IInv, SchedTypeOK
  <2>5. x.fire => x.firing > -MaxOverdue /\ y.firing >= -Grace - due'
    BY <2>3, <2>4, SchedulerAssumption DEF OnceMeans, TickMeans, MaxOverdue, Older, Times
  <2>6. x.sub \notin rewound => upto'[x.sub] <= Older(x.firing) /\ (x.fire => upto'[x.sub] < Older(x.firing))
    BY <1>2, <2>3, <2>5 DEF OnceMeans, TickMeans
  <2>7. \A s \in Subs : upto'[s] <= tick'.at
    BY <1>2, <2>1, <2>4 DEF OnceMeans, TickMeans
  <2>8. Runs(Loop) => job'[Loop].sub # x.sub /\ job'[Loop].at <= tick'.at
    BY <1>0, <1>1, <2>1, <2>4, OlderMonotone DEF OnceMeans, TickMeans
  <2> QED  BY <2>3, <2>5, <2>6, <2>7, <2>8
<1>7. LastMeans'
  <2>1. Runs(Loop) => upto'[job'[Loop].sub] <= job'[Loop].at
    <3> SUFFICES ASSUME Runs(Loop) PROVE upto'[job'[Loop].sub] <= job'[Loop].at  OBVIOUS
    <3>1. job[Loop].sub \in Subs
      BY <1>0 DEF OnceMeans, RunMeans, Runs, IInv, JobsMean
    <3>2. job[Loop].at \in Times /\ job'[Loop].at = Older(job[Loop].at) /\ job'[Loop].sub = job[Loop].sub
      BY <1>0, <1>1
    <3>3. upto[job[Loop].sub] <= job[Loop].at
      BY DEF OnceMeans, LastMeans
    <3> QED  BY <1>2, <3>1, <3>2, <3>3
  <2>2. ASSUME NEW s \in Subs \ rewound, subs'[s] # None
        PROVE  \/ upto'[s] <= subs'[s].last
               \/ job[Loop].sub = s /\ job[Loop].stage \in {"report", "write back", "mark failed"}
    <3>1. subs[s] # None /\ subs[s] \in Subscription /\ subs'[s].last = Older(subs[s].last)
      BY <2>2 DEF Minute, OlderSub, IInv, SchedTypeOK, Subscription
    <3>2. subs[s].last \in Times
      BY <3>1 DEF Subscription
    <3> QED  BY <1>2, <3>1, <3>2 DEF OnceMeans, LastMeans
  <2> QED  BY <1>0, <1>1, <1>3, <2>1, <2>2 DEF LastMeans, Minute
<1>8. CreateMeans'
  <2> DEFINE s == job[Command].sub
             new == job[Command].snap
  <2>0. job'[Command].sub = s /\ job'[Command].snap = OlderSub(new) /\ job'[Command].stage = job[Command].stage
        /\ job'[Command].purpose = job[Command].purpose
    BY <1>0, <1>1
  <2>1. SUFFICES ASSUME job[Command].stage = "register" \/ job[Command].purpose = "create"
                 PROVE  /\ subs'[s] = None
                        /\ OlderSub(new) # None =>
                             /\ upto'[s] <= OlderSub(new).last
                             /\ \A y \in tick'.todo : y.sub = s => tick'.at <= OlderSub(new).last
                             /\ Runs(Loop) /\ job[Loop].sub = s => job'[Loop].at <= OlderSub(new).last
    BY <1>0, <1>1, <1>3, <2>0 DEF CreateMeans
  <2>2. s \in Subs
    BY <1>0, <2>1 DEF OnceMeans, RunMeans, IInv, JobsMean
  <2>3. /\ subs[s] = None
        /\ new # None => /\ upto[s] <= new.last
                         /\ \A x \in tick.todo : x.sub = s => tick.at <= new.last
                         /\ Runs(Loop) /\ job[Loop].sub = s => job[Loop].at <= new.last
    BY <2>1 DEF OnceMeans, CreateMeans
  <2>4. subs'[s] = None
    BY <2>2, <2>3 DEF Minute, OlderSub
  <2>5. SUFFICES ASSUME OlderSub(new) # None
                 PROVE  /\ upto'[s] <= OlderSub(new).last
                        /\ \A y \in tick'.todo : y.sub = s => tick'.at <= OlderSub(new).last
                        /\ Runs(Loop) /\ job[Loop].sub = s => job'[Loop].at <= OlderSub(new).last
    BY <2>4
  <2>6. new # None /\ new \in Subscription /\ new.last \in Times
    BY <1>0, <1>1, <2>5 DEF OlderSub, Subscription
  <2>7. OlderSub(new).last = Older(new.last)
    BY <2>6 DEF OlderSub, Subscription
  <2> HIDE DEF s, new
  <2>8. upto'[s] <= Older(new.last)
    BY <1>2, <2>2, <2>3, <2>6
  <2>9. ASSUME NEW y \in tick'.todo, y.sub = s
        PROVE  tick'.at <= Older(new.last)
    <3>1. tick.todo # {} /\ tick'.at = Older(tick.at) /\ tick.at \in Times
      BY <2>9 DEF Minute, NoTick, IInv, SchedTypeOK
    <3>2. PICK x \in tick.todo : y = [x EXCEPT !.firing = Older(@)]
      BY <2>9, <3>1 DEF Minute
    <3>3. x.sub = s
      BY <2>9, <3>2 DEF IInv, SchedTypeOK
    <3> QED  BY <2>3, <2>6, <3>1, <3>3, OlderMonotone
  <2>10. Runs(Loop) /\ job[Loop].sub = s => job'[Loop].at <= Older(new.last)
    BY <1>0, <1>1, <2>3, <2>6, OlderMonotone
  <2> QED  BY <2>7, <2>8, <2>9, <2>10
<1> QED  BY <1>4, <1>5, <1>6, <1>7, <1>8 DEF OnceMeans

LEMMA TickStartsOnce == IInv /\ OnceMeans /\ TickStarts => OnceMeans'
<1> SUFFICES ASSUME IInv, OnceMeans, TickStarts PROVE OnceMeans'  OBVIOUS
<1> USE DEF locks, history
<1>0. Actors = {Loop, Command} /\ Loop # Command /\ job[Loop].stage = "idle" /\ ~Runs(Loop)
  BY DEF TickStarts, Actors, Loop, Command, Idle, Work, Runs
<1>1. due' \in Nat
  BY DEF TickStarts, IInv, SchedTypeOK
<1>2. ASSUME NEW x \in Actions
      PROVE  /\ x.sub \in Subs /\ subs[x.sub] # None
             /\ x.firing \in Int /\ x.firing > subs[x.sub].last
             /\ x.fire => x.firing >= -Grace
  <2>1. PICK s \in Subs : /\ subs[s] # None
                          /\ x = [sub |-> s, firing |-> NextFiring(subs[s].cron, subs[s].last),
                                  fire |-> NextFiring(subs[s].cron, subs[s].last) >= -Grace]
    BY <1>2 DEF Actions
  <2>2. subs[s].cron \in Crons /\ subs[s].last \in Times /\ minute \in Int
    BY <2>1, SchedulerAssumption DEF IInv, SchedTypeOK, Subscription
  <2>3. subs[s].last \in Int /\ subs[s].last >= -MaxLag
    BY <2>2, SchedulerAssumption DEF Times
  <2> DEFINE f == NextFiring(subs[s].cron, subs[s].last)
  <2>4. f \in subs[s].last + 1 .. subs[s].last + subs[s].cron
    BY <2>2, <2>3, NextFiringIsNear
  <2>5. x.sub = s /\ x.firing = f /\ (x.fire => f >= -Grace)
    BY <2>1
  <2> HIDE DEF f
  <2>6. subs[s].cron \in Nat
    BY <2>2, SchedulerAssumption
  <2>7. f \in Int /\ f > subs[s].last
    BY <2>3, <2>4, <2>6
  <2> QED  BY <2>1, <2>5, <2>7
<1>3. OffMeans' /\ RunMeans'
  BY DEF TickStarts, OnceMeans, OffMeans, RunMeans, Runs
<1>4. TickMeans'
  <2> SUFFICES ASSUME NEW x \in Actions
               PROVE  /\ x.fire => x.firing >= -Grace - due'
                      /\ x.sub \notin rewound => upto[x.sub] <= x.firing /\ (x.fire => upto[x.sub] < x.firing)
                      /\ \A s \in Subs : upto[s] <= 0
    BY <1>0 DEF TickMeans, TickStarts, Runs
  <2>1. x.fire => x.firing >= -Grace - due'
    BY <1>1, <1>2, SchedulerAssumption
  <2>2. x.sub \notin rewound => upto[x.sub] <= subs[x.sub].last
    BY <1>0, <1>2 DEF OnceMeans, LastMeans
  <2>3. upto[x.sub] \in Int /\ subs[x.sub].last \in Int
    BY <1>2, SchedulerAssumption DEF IInv, SchedTypeOK, Subscription, Times
  <2>4. \A s \in Subs : upto[s] <= 0
    BY SchedulerAssumption DEF IInv, SchedTypeOK, Times
  <2> QED  BY <1>2, <2>1, <2>2, <2>3, <2>4
<1>5. LastMeans'
  BY DEF TickStarts, OnceMeans, LastMeans, Runs
<1>6. CreateMeans'
  BY <1>0, <1>2 DEF TickStarts, OnceMeans, CreateMeans, Runs
<1> QED  BY <1>3, <1>4, <1>5, <1>6 DEF OnceMeans

LEMMA TickTakesOnce == IInv /\ OnceMeans /\ TickTakes => OnceMeans'
<1> SUFFICES ASSUME IInv, OnceMeans, job[Loop] = Idle, NEW x \in tick.todo, Advance(x) \/ Fire(x)
             PROVE  OnceMeans'
  BY DEF TickTakes
<1> USE DEF clock, locks, history
<1>0. Actors = {Loop, Command} /\ Loop # Command /\ job[Loop].stage = "idle" /\ ~Runs(Loop)
  BY DEF Actors, Loop, Command, Idle, Work, Runs
<1>1. /\ x.sub \in Subs /\ x.firing \in Times /\ tick.at \in Times
      /\ \A y \in tick.todo : y.sub = x.sub => y = x
  BY DEF IInv, SchedTypeOK
<1>2. Taken(x) => \A y \in tick'.todo : y \in tick.todo /\ y # x /\ y.sub # x.sub /\ tick'.at = tick.at
  BY <1>1 DEF Taken, NoTick, IInv, SchedTypeOK
<1>3. CASE Advance(x) /\ subs[x.sub] # None
  <2>1. Change(Loop, x.sub, [subs[x.sub] EXCEPT !.last = x.firing], "advance") /\ Taken(x)
        /\ UNCHANGED <<up, due, upto, rewound>>
    BY <1>3 DEF Advance
  <2>2. /\ job'[Loop].stage = "store" /\ job'[Loop].purpose = "advance" /\ job'[Command] = job[Command]
        /\ subs'[x.sub].last = x.firing
        /\ \A q \in Subs \ {x.sub} : subs'[q] = subs[q]
    BY <1>0, <1>1, <1>3, <2>1 DEF Change, Work, IInv, SchedTypeOK, Subscription
  <2>3. ~Runs(Loop)'
    BY <2>2 DEF Runs
  <2>4. OffMeans' /\ RunMeans'
    BY <1>0, <1>2, <2>1, <2>2 DEF OnceMeans, OffMeans, RunMeans, Runs, RunStages
  <2>5. TickMeans'
    BY <1>2, <2>1, <2>3 DEF OnceMeans, TickMeans
  <2>6. LastMeans'
    <3>1. ASSUME NEW s \in Subs \ rewound, subs'[s] # None
          PROVE  upto[s] <= subs'[s].last
      <4>1. CASE s = x.sub
        BY <4>1, <2>2 DEF OnceMeans, TickMeans
      <4>2. CASE s # x.sub
        BY <1>0, <3>1, <4>2, <2>2 DEF OnceMeans, LastMeans
      <4> QED  BY <4>1, <4>2
    <3> QED  BY <2>1, <2>3, <3>1 DEF LastMeans
  <2>7. CreateMeans'
    BY <1>0, <1>2, <1>3, <2>1, <2>2, <2>3 DEF OnceMeans, CreateMeans, IInv, JobsMean, RunMeans
  <2> QED  BY <2>4, <2>5, <2>6, <2>7 DEF OnceMeans
<1>4. CASE Advance(x) /\ subs[x.sub] = None
  <2>1. Taken(x) /\ UNCHANGED <<up, due, upto, rewound, subs, job>>
    BY <1>4 DEF Advance
  <2>2. OffMeans' /\ RunMeans' /\ LastMeans'
    BY <1>2, <2>1 DEF OnceMeans, OffMeans, RunMeans, LastMeans, Runs
  <2>3. TickMeans'
    BY <1>2, <2>1 DEF OnceMeans, TickMeans, Runs
  <2>4. CreateMeans'
    BY <1>2, <2>1 DEF OnceMeans, CreateMeans, Runs
  <2> QED  BY <2>2, <2>3, <2>4 DEF OnceMeans
<1>5. CASE Fire(x)
  <2>1. Taken(x) /\ UNCHANGED <<up, due, upto, rewound, subs>>
    BY <1>5 DEF Fire
  <2>2. /\ job'[Loop].stage = "gather" /\ job'[Loop].purpose = "run"
        /\ job'[Loop].sub = x.sub /\ job'[Loop].at = tick.at /\ job'[Command] = job[Command]
    BY <1>0, <1>5 DEF Fire, Work, IInv, SchedTypeOK
  <2>3. OffMeans' /\ RunMeans'
    BY <1>0, <1>2, <2>1, <2>2 DEF OnceMeans, OffMeans, RunMeans, Runs
  <2>4. TickMeans'
    <3> SUFFICES ASSUME NEW y \in tick'.todo
                 PROVE  /\ y.fire => y.firing >= -Grace - due
                        /\ y.sub \notin rewound => upto[y.sub] <= y.firing /\ (y.fire => upto[y.sub] < y.firing)
                        /\ \A s \in Subs : upto[s] <= tick'.at
                        /\ x.sub # y.sub /\ tick.at <= tick'.at
      BY <2>1, <2>2 DEF TickMeans
    <3>1. tick.at <= tick.at
      BY <1>1, SchedulerAssumption DEF Times
    <3> QED  BY <1>2, <2>1, <3>1 DEF OnceMeans, TickMeans
  <2>5. LastMeans'
    BY <1>0, <1>1, <2>1, <2>2 DEF OnceMeans, LastMeans, TickMeans
  <2>6. CreateMeans'
    BY <1>0, <1>2, <2>1, <2>2 DEF OnceMeans, CreateMeans
  <2> QED  BY <2>3, <2>4, <2>5, <2>6 DEF OnceMeans
<1> QED  BY <1>3, <1>4, <1>5

\* The loop has sent a mail, and goes on to record the run.
LEMMA SentOnce ==
    ASSUME IInv, OnceMeans, NEW stage \in {"report", "mark failed"},
           job[Loop].stage = "mail", job' = [job EXCEPT ![Loop].stage = stage],
           upto' = [upto EXCEPT ![job[Loop].sub] = job[Loop].at],
           UNCHANGED <<up, due, subs, tick, rewound>>
    PROVE  OnceMeans'
<1> DEFINE s == job[Loop].sub
           at == job[Loop].at
<1>0. Actors = {Loop, Command} /\ Loop # Command
  BY DEF Actors, Loop, Command
<1>1. /\ job'[Loop].stage = stage /\ job'[Loop].purpose = job[Loop].purpose /\ job'[Loop].sub = s
      /\ job'[Loop].at = at
      /\ job'[Command] = job[Command] /\ Runs(Loop)
  BY <1>0 DEF IInv, SchedTypeOK, Job, OnceMeans, RunMeans, RunStages
<1>2. s \in Subs /\ at \in Times
  BY <1>0 DEF IInv, JobsMean, SchedTypeOK, Job
<1>3. upto'[s] = at /\ at <= at /\ \A q \in Subs \ {s} : upto'[q] = upto[q]
  <2>1. at <= at
    BY <1>2, TimesAreInts
  <2>2. upto'[s] = at /\ \A q \in Subs \ {s} : upto'[q] = upto[q]
    BY <1>2 DEF IInv, SchedTypeOK
  <2> QED  BY <2>1, <2>2
<1> HIDE DEF s, at
<1>4. OffMeans' /\ RunMeans'
  BY <1>0, <1>1 DEF OnceMeans, OffMeans, RunMeans, Runs, RunStages
<1>5. TickMeans'
  <2> SUFFICES ASSUME NEW x \in tick.todo
               PROVE  /\ x.fire => x.firing >= -Grace - due
                      /\ x.sub \notin rewound => upto'[x.sub] <= x.firing /\ (x.fire => upto'[x.sub] < x.firing)
                      /\ \A q \in Subs : upto'[q] <= tick.at
                      /\ s # x.sub /\ at <= tick.at
    BY <1>1 DEF TickMeans
  <2>1. x.sub \in Subs /\ s # x.sub /\ at <= tick.at
    BY <1>1 DEF OnceMeans, TickMeans, IInv, SchedTypeOK, s, at
  <2> QED  BY <1>3, <2>1 DEF OnceMeans, TickMeans
<1>6. LastMeans'
  <2>1. ASSUME NEW q \in Subs \ rewound, subs[q] # None, q # s
        PROVE  upto'[q] <= subs[q].last
    BY <1>3, <2>1 DEF OnceMeans, LastMeans, s
  <2> QED  BY <1>1, <1>3, <2>1 DEF LastMeans
<1>7. CreateMeans'
  <2>1. SUFFICES ASSUME job[Command].stage = "register" \/ job[Command].purpose = "create",
                        job[Command].snap # None
                 PROVE  /\ upto'[job[Command].sub] <= job[Command].snap.last
    BY <1>1 DEF OnceMeans, CreateMeans, Runs, s, at
  <2>2. job[Command].sub \in Subs
    BY <1>0, <2>1 DEF OnceMeans, RunMeans, IInv, JobsMean
  <2>3. CASE job[Command].sub = s
    BY <1>1, <1>3, <2>1, <2>3 DEF OnceMeans, CreateMeans, s, at
  <2>4. CASE job[Command].sub # s
    BY <1>3, <2>1, <2>2, <2>4 DEF OnceMeans, CreateMeans
  <2> QED  BY <2>3, <2>4
<1> QED  BY <1>4, <1>5, <1>6, <1>7 DEF OnceMeans

\* A run has recorded itself in the registry.
LEMMA WriteBackOnce ==
    ASSUME IInv, OnceMeans, NEW a \in Actors, WriteBack(a) \/ MarkFailed(a)
    PROVE  OnceMeans'
<1> USE DEF clock, locks, history
<1> DEFINE s == job[a].sub
<1>0. Actors = {Loop, Command} /\ Loop # Command
  BY DEF Actors, Loop, Command
<1>1. PICK purpose \in {"run", "mark"} :
        /\ Change(a, s, [subs[s] EXCEPT !.last = job[a].at], purpose)
        /\ UNCHANGED <<up, due, tick, upto>>
  BY DEF WriteBack, MarkFailed
<1>2. /\ job[a].stage \in {"write back", "mark failed"} /\ subs[s] # None
      /\ rewound \subseteq rewound'
      /\ a = Command /\ s \notin rewound' => ~(job[a].at < subs[s].last)
  BY DEF WriteBack, MarkFailed, Rewound, OnceMeans, RunMeans
<1>3. /\ s \in Subs /\ subs[s] \in Subscription
      /\ job[a].at \in Int /\ subs[s].last \in Int /\ upto[s] \in Int
  <2>1. s \in Subs
    BY <1>0, <1>2 DEF IInv, JobsMean
  <2>2. subs[s] \in Subscription
    BY <1>2, <2>1 DEF IInv, SchedTypeOK
  <2>3. job[a].at \in Times /\ subs[s].last \in Times /\ upto[s] \in Times
    BY <2>1, <2>2 DEF IInv, SchedTypeOK, Job, Subscription
  <2>4. job[a].at \in Int /\ subs[s].last \in Int /\ upto[s] \in Int
    BY <2>3, SchedulerAssumption DEF Times
  <2> QED  BY <2>1, <2>2, <2>4
<1>4. Runs(a)
  BY <1>2 DEF OnceMeans, RunMeans, RunStages
<1>5. /\ job'[a].stage = "store" /\ job'[a].purpose = purpose /\ job'[a].sub = s
      /\ purpose = "run" => job'[a].at = job[a].at
      /\ \A b \in Actors \ {a} : job'[b] = job[b]
  BY <1>1 DEF Change, Work, IInv, SchedTypeOK
<1>6. /\ subs'[s].last = job[a].at /\ \A q \in Subs \ {s} : subs'[q] = subs[q]
  <2>1. subs' = [subs EXCEPT ![s] = [subs[s] EXCEPT !.last = job[a].at]]
    BY <1>1 DEF Change
  <2>2. [subs[s] EXCEPT !.last = job[a].at].last = job[a].at
    BY <1>3 DEF Subscription
  <2> HIDE DEF s
  <2> QED  BY <1>3, <2>1, <2>2 DEF IInv, SchedTypeOK
<1> HIDE DEF s
<1>7. Runs(Loop)' => Runs(Loop) /\ job'[Loop].sub = job[Loop].sub /\ job'[Loop].at = job[Loop].at
  BY <1>0, <1>4, <1>5 DEF Runs, s
<1>8. OffMeans' /\ RunMeans'
  BY <1>0, <1>1, <1>5 DEF OnceMeans, OffMeans, RunMeans, Runs, RunStages
<1>9. TickMeans'
  BY <1>1, <1>2, <1>7 DEF OnceMeans, TickMeans
<1>10. LastMeans'
  <2>1. ASSUME NEW q \in Subs \ rewound', subs'[q] # None
        PROVE  \/ upto[q] <= subs'[q].last
               \/ job'[Loop].sub = q /\ job'[Loop].stage \in {"report", "write back", "mark failed"}
    <3>1. CASE q # s
      <4>1. \/ upto[q] <= subs[q].last
            \/ job[Loop].sub = q /\ job[Loop].stage \in {"report", "write back", "mark failed"}
        BY <1>2, <1>6, <2>1, <3>1 DEF OnceMeans, LastMeans
      <4> QED  BY <1>0, <1>5, <1>6, <3>1, <4>1 DEF s
    <3>2. CASE q = s /\ a = Loop
      BY <1>4, <1>6, <3>2 DEF OnceMeans, LastMeans, s
    <3>3. CASE q = s /\ a = Command
      <4>1. \/ upto[s] <= subs[s].last
            \/ job[Loop].sub = s /\ job[Loop].stage \in {"report", "write back", "mark failed"}
        BY <1>2, <1>3, <2>1, <3>3 DEF OnceMeans, LastMeans
      <4>2. ~(job[a].at < subs[s].last)
        BY <1>2, <3>3
      <4>3. upto[s] <= subs[s].last => upto[s] <= job[a].at
        BY <1>3, <4>2
      <4>4. job'[Loop] = job[Loop]
        BY <1>0, <1>5, <3>3
      <4> QED  BY <1>6, <3>3, <4>1, <4>3, <4>4
    <3> QED  BY <1>0, <3>1, <3>2, <3>3
  <2> QED  BY <1>1, <1>7, <2>1 DEF OnceMeans, LastMeans
<1>11. CreateMeans'
  <2>1. CASE a = Command
    BY <1>5, <2>1 DEF CreateMeans
  <2>2. CASE a = Loop
    <3>1. job'[Command] = job[Command]
      BY <1>0, <1>5, <2>2
    <3>2. SUFFICES ASSUME job[Command].stage = "register" \/ job[Command].purpose = "create"
                   PROVE  subs'[job[Command].sub] = None
      BY <1>1, <1>7, <3>1 DEF OnceMeans, CreateMeans
    <3>3. subs[job[Command].sub] = None /\ job[Command].sub \in Subs
      BY <1>0, <3>2 DEF OnceMeans, CreateMeans, RunMeans, IInv, JobsMean
    <3> QED  BY <1>2, <1>6, <3>3
  <2> QED  BY <1>0, <2>1, <2>2
<1> QED  BY <1>8, <1>9, <1>10, <1>11 DEF OnceMeans

\* A row is written, or not.
LEMMA StoreOnce ==
    ASSUME IInv, OnceMeans, NEW a \in Actors, StoreOk(a) \/ StoreFails(a)
    PROVE  OnceMeans'
<1> USE DEF clock, locks, history
<1>0. /\ Actors = {Loop, Command} /\ Loop # Command /\ job[a].stage = "store"
      /\ a = Loop => \A s \in Subs \ rewound : subs[s] # None => upto[s] <= subs[s].last
  BY DEF Actors, Loop, Command, StoreOk, StoreFails, OnceMeans, LastMeans
<1>1. UNCHANGED <<up, due, subs, upto, rewound>> /\ tick' \in {tick, NoTick}
  BY DEF StoreOk, StoreFails
<1>2. (tick'.at = tick.at \/ tick'.todo = {}) /\ tick'.todo \subseteq tick.todo
  BY <1>1 DEF NoTick
<1>3. CASE Done(a)
  BY <1>0, <1>1, <1>2, <1>3, DoneOnce
<1>4. CASE StoreOk(a) /\ ~Done(a)
  <2>1. job' = [job EXCEPT ![a].stage = "register"] /\ job[a].purpose = "create" /\ tick' = tick
    BY <1>4 DEF StoreOk, Done
  <2>2. /\ job'[a].stage = "register" /\ job'[a].purpose = "create" /\ job'[a].sub = job[a].sub
        /\ job'[a].snap = job[a].snap
        /\ \A b \in Actors \ {a} : job'[b] = job[b]
    BY <2>1 DEF IInv, SchedTypeOK, Job
  <2>3. Runs(Loop)' => Runs(Loop) /\ job'[Loop] = job[Loop]
    BY <1>0, <2>2 DEF Runs
  <2>4. OffMeans' /\ RunMeans'
    BY <1>0, <1>1, <2>1, <2>2 DEF OnceMeans, OffMeans, RunMeans, Runs, RunStages
  <2>5. TickMeans'
    BY <1>1, <2>1, <2>3 DEF OnceMeans, TickMeans
  <2>6. LastMeans'
    BY <1>0, <1>1, <2>2, <2>3 DEF OnceMeans, LastMeans
  <2>7. CreateMeans'
    BY <1>0, <1>1, <2>1, <2>2, <2>3 DEF OnceMeans, CreateMeans
  <2> QED  BY <2>4, <2>5, <2>6, <2>7 DEF OnceMeans
<1>5. CASE StoreFails(a) /\ ~Done(a)
  <2>1. /\ a = Loop /\ job[a].purpose = "run" /\ tick' = tick
        /\ job' = [job EXCEPT ![a] = [job[a] EXCEPT !.stage = "mark failed", !.snap = None]]
    BY <1>5 DEF StoreFails, Done
  <2>2. /\ job'[Loop].stage = "mark failed" /\ job'[Loop].purpose = "run" /\ job'[Loop].sub = job[Loop].sub
        /\ job'[Loop].at = job[Loop].at /\ job'[Command] = job[Command]
    BY <1>0, <2>1 DEF IInv, SchedTypeOK, Job
  <2>3. Runs(Loop) /\ Runs(Loop)'
    BY <2>1, <2>2 DEF Runs
  <2>4. OffMeans' /\ RunMeans'
    BY <1>0, <1>1, <2>1, <2>2 DEF OnceMeans, OffMeans, RunMeans, Runs, RunStages
  <2>5. TickMeans'
    BY <1>1, <2>1, <2>2, <2>3 DEF OnceMeans, TickMeans
  <2>6. LastMeans'
    BY <1>0, <1>1, <2>1, <2>2, <2>3 DEF OnceMeans, LastMeans
  <2>7. CreateMeans'
    BY <1>1, <2>1, <2>2, <2>3 DEF OnceMeans, CreateMeans
  <2> QED  BY <2>4, <2>5, <2>6, <2>7 DEF OnceMeans
<1> QED  BY <1>3, <1>4, <1>5

LEMMA RunOnce ==
    ASSUME IInv, OnceMeans, NEW a \in Actors, Run(a)
    PROVE  OnceMeans'
<1> USE DEF clock, locks, history
<1>0. /\ Actors = {Loop, Command} /\ Loop # Command
      /\ \A b \in Actors : job[b].sub \notin Subs => job[b].stage = "idle"
      /\ job[a] \in Job /\ upto \in [Subs -> Times]
  BY DEF Actors, Loop, Command, IInv, JobsMean, SchedTypeOK
<1>1. CASE TopologyRead(a)
  BY <1>1, StageOnce DEF TopologyRead, Stage, RunStages
<1>2. CASE TopologyFails(a)
  BY <1>2, FailedOnce DEF TopologyFails, RunStages
<1>3. CASE LockChanges(a)
  BY <1>3, StageOnce DEF LockChanges, Stage, RunStages
<1>4. CASE LockExecutions(a)
  BY <1>4, StageOnce DEF LockExecutions, Stage, RunStages
<1>5. CASE Mailed(a)
  <2>1. CASE a = Command
    BY <1>0, <1>5, <2>1, StageOnce DEF Mailed, Sent, Stage, RunStages
  <2>2. CASE a = Loop
    <3>1. /\ job[Loop].stage = "mail" /\ job' = [job EXCEPT ![Loop].stage = "report"]
          /\ upto' = [upto EXCEPT ![job[Loop].sub] = job[Loop].at]
          /\ UNCHANGED <<up, due, subs, tick, rewound>>
      BY <1>5, <2>2 DEF Mailed, Sent, Stage
    <3> QED  BY <3>1, SentOnce DEF Stages
  <2> QED  BY <1>0, <2>1, <2>2
<1>6. CASE MailFails(a)
  <2>1. CASE UNCHANGED upto
    BY <1>6, <2>1, FailedOnce DEF MailFails, RunStages
  <2>2. CASE a = Loop /\ upto' = [upto EXCEPT ![job[Loop].sub] = job[Loop].at]
    <3>1. job[Loop].stage = "mail" /\ job' = [job EXCEPT ![Loop].stage = "mark failed"]
          /\ UNCHANGED <<up, due, subs, tick, rewound>>
      BY <1>6, <2>2 DEF MailFails, Failed
    <3> QED  BY <2>2, <3>1, SentOnce DEF Stages
  <2> QED  BY <1>6, <2>1, <2>2 DEF MailFails, Sent
<1>7. CASE ReportStored(a)
  BY <1>7, StageOnce DEF ReportStored, Stage, RunStages
<1>8. CASE ReportNotStored(a)
  <2>1. CASE a = Loop
    BY <1>8, <2>1, StageOnce DEF ReportNotStored, RunStages
  <2>2. CASE a = Command
    <3>1. Done(a)
      BY <1>0, <1>8, <2>2 DEF ReportNotStored, Done
    <3> QED  BY <1>0, <1>8, <2>2, <3>1, DoneOnce DEF ReportNotStored
  <2> QED  BY <1>0, <2>1, <2>2
<1>9. CASE WriteBack(a) \/ MarkFailed(a)
  BY <1>9, WriteBackOnce
<1>10. CASE Gone(a)
  BY <1>10, DoneOnce DEF Gone
<1>11. CASE StoreOk(a)
  BY <1>11, StoreOnce
<1>12. CASE StoreFails(a)
  BY <1>12, StoreOnce
<1> QED  BY <1>1, <1>2, <1>3, <1>4, <1>5, <1>6, <1>7, <1>8, <1>9, <1>10, <1>11, <1>12 DEF Run, TakesLocks

LEMMA CommandOnce == IInv /\ OnceMeans /\ Commands => OnceMeans'
<1> SUFFICES ASSUME IInv, OnceMeans, Commands PROVE OnceMeans'  OBVIOUS
<1> USE DEF clock, locks, history
<1>0. Actors = {Loop, Command} /\ Loop # Command /\ Idle.stage = "idle"
  BY DEF Actors, Loop, Command, Idle, Work
<1>1. ASSUME NEW s \in Subs, Create(s) PROVE OnceMeans'
  <2>1. PICK cron \in Crons, enabled \in BOOLEAN :
          job' = [job EXCEPT ![Command] =
                    Work("store", "create", s, 0, [cron |-> cron, enabled |-> enabled, last |-> 0])]
    BY <1>1 DEF Create
  <2>2. /\ job'[Command].stage = "store" /\ job'[Command].purpose = "create" /\ job'[Command].sub = s
        /\ job'[Command].snap.last = 0 /\ job'[Loop] = job[Loop]
    BY <1>0, <2>1 DEF Work, IInv, SchedTypeOK
  <2>3. UNCHANGED <<up, due, tick, upto, rewound, subs>> /\ subs[s] = None /\ job[Loop].sub # s
    BY <1>0, <1>1 DEF Create
  <2>4. Runs(Loop)' <=> Runs(Loop)
    BY <2>2 DEF Runs
  <2>5. OffMeans' /\ RunMeans'
    BY <1>0, <2>2, <2>3 DEF OnceMeans, OffMeans, RunMeans, Runs, RunStages
  <2>6. TickMeans' /\ LastMeans'
    BY <2>2, <2>3, <2>4 DEF OnceMeans, TickMeans, LastMeans
  <2>7. CreateMeans'
    <3>1. upto[s] <= 0 /\ tick.at <= 0
      BY SchedulerAssumption DEF IInv, SchedTypeOK, Times
    <3> QED  BY <2>2, <2>3, <2>4, <3>1 DEF CreateMeans
  <2> QED  BY <2>5, <2>6, <2>7 DEF OnceMeans
<1>2. ASSUME NEW s \in Subs, Update(s) PROVE OnceMeans'
  <2>1. PICK cron \in Crons, enabled \in BOOLEAN :
          Change(Command, s, [subs[s] EXCEPT !.cron = cron, !.enabled = enabled], "edit")
    BY <1>2 DEF Update
  <2>2. job'[Command].stage = "store" /\ job'[Command].purpose = "edit" /\ job'[Loop] = job[Loop]
    BY <1>0, <2>1 DEF Change, Work, IInv, SchedTypeOK
  <2>3. \A q \in Subs : subs'[q] # None => subs[q] # None /\ subs'[q].last = subs[q].last
    <3>1. subs[s] # None /\ subs[s] \in Subscription
      BY <1>2 DEF Update, Asks, IInv, SchedTypeOK
    <3>2. [subs[s] EXCEPT !.cron = cron, !.enabled = enabled].last = subs[s].last
      BY <3>1 DEF Subscription
    <3>3. subs' = [subs EXCEPT ![s] = [subs[s] EXCEPT !.cron = cron, !.enabled = enabled]]
      BY <2>1 DEF Change
    <3> QED  BY <3>1, <3>2, <3>3 DEF IInv, SchedTypeOK
  <2>4. UNCHANGED <<up, due, tick, upto, rewound>>
    BY <1>2 DEF Update
  <2>5. (Runs(Loop)' <=> Runs(Loop)) /\ ~(job'[Command].stage = "register" \/ job'[Command].purpose = "create")
    BY <2>2 DEF Runs
  <2>6. OffMeans' /\ RunMeans'
    BY <1>0, <2>2, <2>4 DEF OnceMeans, OffMeans, RunMeans, Runs, RunStages
  <2>7. TickMeans' /\ LastMeans' /\ CreateMeans'
    BY <2>2, <2>3, <2>4, <2>5 DEF OnceMeans, TickMeans, LastMeans, CreateMeans
  <2> QED  BY <2>6, <2>7 DEF OnceMeans
<1>3. ASSUME NEW s \in Subs, UpdateRefused(s) PROVE OnceMeans'
  <2>1. PICK cron \in Crons : subs' = [subs EXCEPT ![s].cron = cron]
    BY <1>3 DEF UpdateRefused
  <2>2. UNCHANGED <<up, due, tick, upto, rewound, job>> /\ subs[s] # None /\ subs[s] \in Subscription
    BY <1>3 DEF UpdateRefused, Asks, IInv, SchedTypeOK
  <2>3. \A q \in Subs : subs'[q] # None => subs[q] # None /\ subs'[q].last = subs[q].last
    BY <2>1, <2>2 DEF IInv, SchedTypeOK, Subscription
  <2>4. OffMeans' /\ RunMeans' /\ TickMeans' /\ LastMeans'
    BY <2>2, <2>3 DEF OnceMeans, OffMeans, RunMeans, TickMeans, LastMeans, Runs
  <2>5. CreateMeans'
    BY <1>0, <1>3, <2>2 DEF UpdateRefused, Asks, OnceMeans, RunMeans, CreateMeans
  <2> QED  BY <2>4, <2>5 DEF OnceMeans
<1>4. ASSUME NEW s \in Subs, Delete(s) PROVE OnceMeans'
  <2>1. /\ job'[Command].stage = "unstore" /\ job'[Command].purpose = "edit" /\ job'[Loop] = job[Loop]
        /\ UNCHANGED <<up, due, tick, upto, rewound>>
        /\ \A q \in Subs : subs'[q] # None => subs'[q] = subs[q]
    BY <1>0, <1>4 DEF Delete, Work, IInv, SchedTypeOK
  <2>2. (Runs(Loop)' <=> Runs(Loop)) /\ ~(job'[Command].stage = "register" \/ job'[Command].purpose = "create")
    BY <2>1 DEF Runs
  <2>3. OffMeans' /\ RunMeans'
    BY <1>0, <2>1 DEF OnceMeans, OffMeans, RunMeans, Runs, RunStages
  <2>4. TickMeans' /\ LastMeans' /\ CreateMeans'
    BY <2>1, <2>2 DEF OnceMeans, TickMeans, LastMeans, CreateMeans
  <2> QED  BY <2>3, <2>4 DEF OnceMeans
<1>5. ASSUME NEW s \in Subs, Trigger(s) PROVE OnceMeans'
  <2>1. /\ job'[Command].stage = "gather" /\ job'[Command].purpose = "run" /\ job'[Loop] = job[Loop]
        /\ UNCHANGED <<up, due, tick, upto, rewound, subs>>
    BY <1>0, <1>5 DEF Trigger, Work, IInv, SchedTypeOK
  <2>2. (Runs(Loop)' <=> Runs(Loop)) /\ ~(job'[Command].stage = "register" \/ job'[Command].purpose = "create")
    BY <2>1 DEF Runs
  <2>3. OffMeans' /\ RunMeans'
    BY <1>0, <2>1 DEF OnceMeans, OffMeans, RunMeans, Runs, RunStages
  <2>4. TickMeans' /\ LastMeans' /\ CreateMeans'
    BY <2>1, <2>2 DEF OnceMeans, TickMeans, LastMeans, CreateMeans
  <2> QED  BY <2>3, <2>4 DEF OnceMeans
<1>6. CASE Register
  <2> DEFINE s == job[Command].sub
             new == job[Command].snap
  <2>1. /\ s \in Subs /\ subs' = [subs EXCEPT ![s] = new] /\ job[Command].stage = "register"
        /\ UNCHANGED <<up, due, tick, upto, rewound>>
    BY <1>0, <1>6 DEF Register, IInv, JobsMean
  <2>2. /\ job'[Command].stage = "idle" /\ job'[Command].purpose = "none" /\ job'[Loop] = job[Loop]
    BY <1>0, <1>6 DEF Register, Done, Idle, Work, IInv, SchedTypeOK
  <2>3. (Runs(Loop)' <=> Runs(Loop)) /\ ~(job'[Command].stage = "register" \/ job'[Command].purpose = "create")
    BY <2>2 DEF Runs
  <2>4. OffMeans' /\ RunMeans'
    BY <1>0, <2>1, <2>2 DEF OnceMeans, OffMeans, RunMeans, Runs, RunStages
  <2>5. TickMeans' /\ CreateMeans'
    BY <2>1, <2>2, <2>3 DEF OnceMeans, TickMeans, CreateMeans
  <2>6. LastMeans'
    <3>1. ASSUME NEW q \in Subs \ rewound, subs'[q] # None
          PROVE  \/ upto[q] <= subs'[q].last
                 \/ job[Loop].sub = q /\ job[Loop].stage \in {"report", "write back", "mark failed"}
      <4>1. CASE q = s
        <5>1. subs'[q] = new
          BY <2>1, <4>1 DEF IInv, SchedTypeOK
        <5> QED  BY <2>1, <3>1, <4>1, <5>1 DEF OnceMeans, CreateMeans
      <4>2. CASE q # s
        <5>1. subs'[q] = subs[q]
          BY <2>1, <4>2 DEF IInv, SchedTypeOK
        <5> QED  BY <3>1, <5>1 DEF OnceMeans, LastMeans
      <4> QED  BY <4>1, <4>2
    <3> QED  BY <2>1, <2>2, <2>3, <3>1 DEF OnceMeans, LastMeans
  <2> QED  BY <2>4, <2>5, <2>6 DEF OnceMeans
<1>7. CASE Unstore
  BY <1>0, <1>7, DoneOnce DEF Unstore
<1> QED  BY <1>1, <1>2, <1>3, <1>4, <1>5, <1>6, <1>7 DEF Commands

LEMMA OtherOnce ==
    IInv /\ OnceMeans /\ (RecoveryEnters \/ RecoveryLeaves \/ Stop \/ Start) => OnceMeans'
<1> SUFFICES ASSUME IInv, OnceMeans, RecoveryEnters \/ RecoveryLeaves \/ Stop \/ Start
             PROVE  OnceMeans'
  OBVIOUS
<1> USE DEF clock, locks, history
<1>1. CASE RecoveryEnters \/ RecoveryLeaves
  BY <1>1 DEF RecoveryEnters, RecoveryLeaves, OnceMeans, OffMeans, RunMeans, TickMeans, LastMeans,
              CreateMeans, Runs
<1>2. CASE Stop
  <2>1. \A a \in Actors : job'[a].stage = "idle" /\ job'[a].purpose = "none"
    BY <1>2 DEF Stop, Idle, Work
  <2>2. Loop \in Actors /\ Command \in Actors /\ tick'.todo = {} /\ upto' = upto
    BY <1>2 DEF Actors, Stop, NoTick
  <2>3. ASSUME NEW s \in Subs \ rewound', subs'[s] # None
        PROVE  upto[s] <= subs'[s].last
    <3>1. subs'[s] = rows[s] /\ rows[s] # None /\ ~(rows[s].last < upto[s])
      BY <1>2, <2>3 DEF Stop
    <3>2. rows[s].last \in Times /\ upto[s] \in Times
      BY <3>1 DEF IInv, SchedTypeOK, Subscription
    <3> QED  BY <3>1, <3>2, TimesAreInts
  <2>4. ~Runs(Loop)'
    BY <2>1, <2>2 DEF Runs
  <2> QED  BY <2>1, <2>2, <2>3, <2>4 DEF OnceMeans, OffMeans, RunMeans, TickMeans, LastMeans, CreateMeans, RunStages
<1>3. CASE Start
  <2>1. tick'.todo = {} /\ UNCHANGED <<subs, tick, job, upto, rewound>>
    BY <1>3 DEF Start, OnceMeans, OffMeans
  <2> QED  BY <2>1 DEF OnceMeans, OffMeans, RunMeans, TickMeans, LastMeans, CreateMeans, Runs
<1> QED  BY <1>1, <1>2, <1>3

LEMMA InductiveOnce == IInv /\ OnceMeans /\ [Next]_vars => OnceMeans'
<1> SUFFICES ASSUME IInv, OnceMeans, [Next]_vars PROVE OnceMeans'  OBVIOUS
<1>1. ASSUME NEW a \in Actors, Run(a) PROVE OnceMeans'
  BY <1>1, RunOnce
<1>2. CASE UNCHANGED vars
  BY <1>2 DEF vars, OnceMeans, OffMeans, RunMeans, TickMeans, LastMeans, CreateMeans, Runs
<1> QED  BY <1>1, <1>2, MinuteOnce, TickStartsOnce, TickTakesOnce, CommandOnce, OtherOnce DEF Next

\* No firing is mailed twice, whenever the loop is late, mails fail, commands come in
\* between or the application restarts (check_fire and run_tick in scheduler.rs), but for
\* a subscription whose last run went back.
THEOREM FiredAtMostOnce == Spec => []FiredOnce
<1>1. OnceMeans => FiredOnce
  BY DEF OnceMeans, TickMeans, FiredOnce
<1>2. Init => IInv /\ OnceMeans
  BY InitHolds, InitOnce
<1>3. (IInv /\ OnceMeans) /\ [Next]_vars => (IInv /\ OnceMeans)'
  BY Inductive, InductiveOnce
<1> QED  BY <1>1, <1>2, <1>3, PTL DEF Spec
===============================================================================
