---------------------------- MODULE ReportScheduler ----------------------------
(***************************************************************************)
(* Report subscriptions: the loop that fires them once a minute            *)
(* (scheduler.rs), the commands that edit and trigger them                 *)
(* (commands/reports_scheduler.rs), the registry both use and the rows a   *)
(* restart reloads it from.  Both run a subscription in the same way, over *)
(* several awaits, with the registries of the change events and of the     *)
(* recovery executions locked while the mail is sent.                      *)
(*                                                                         *)
(* Time is counted in minutes and relative to now: 0 is now, -3 three      *)
(* minutes ago, and what is older than MaxLag stays there.  A cron is its  *)
(* period; it fires at the minutes its period divides.                     *)
(***************************************************************************)
EXTENDS Integers, FiniteSets

CONSTANTS
    Subs,            \* subscription ids
    Crons,           \* periods a subscription may have
    Cycle,           \* a common multiple of the periods
    Grace,           \* DEFAULT_GRACE_SECS, in minutes
    MaxLag,          \* bound on the age of a time that is told apart
    MaxDue,          \* bound on the ticks by which the loop is behind the clock
    MaxFaults,       \* bound on failed storage calls and restarts
    None

ASSUME SchedulerAssumption ==
    /\ Crons \subseteq Nat \ {0} /\ Cycle \in Nat \ {0}
    /\ \A p \in Crons : Cycle % p = 0
    /\ Grace \in Nat /\ MaxDue \in Nat \ {0} /\ MaxLag \in Nat /\ MaxLag > Grace + MaxDue
    /\ \A p \in Crons : MaxLag > Grace + p
    /\ MaxFaults \in Nat
    /\ None \notin {"loop", "command", "recovery"}

VARIABLES
    up,          \* the application runs
    minute,      \* the time of day, modulo Cycle
    due,         \* ticks of the interval that are due
    subs,        \* SubscriptionStore
    rows,        \* table report_subscriptions
    tick,        \* what is left of the tick that runs: its time and its actions
    job,         \* what the loop and the user's command are doing
    changes,     \* who holds AppState.change_events
    execs,       \* who holds AppState.recovery_executions
    faults,
    upto,        \* the tick of the newest scheduled mail (history)
    rewound,     \* subscriptions whose last run went back (history)
    loose        \* subscriptions whose row need not follow the registry (history)

vars == <<up, minute, due, subs, rows, tick, job, changes, execs, faults, upto, rewound, loose>>
locks == <<changes, execs>>
clock == <<minute, due>>
history == <<upto, rewound, loose>>

Times == -MaxLag .. 0
Loop == "loop"
Command == "command"
Actors == {Loop, Command}

Subscription == [cron : Crons, enabled : BOOLEAN, last : Times]
Stages == {"idle", "gather", "changes", "executions", "mail", "report", "write back", "mark failed",
           "store", "register", "unstore"}
Purposes == {"none", "run", "advance", "mark", "create", "edit"}
Job == [stage : Stages, purpose : Purposes, sub : Subs \cup {None}, at : Times,
        snap : Subscription \cup {None}]
Work(stage, purpose, sub, at, snap) ==
    [stage |-> stage, purpose |-> purpose, sub |-> sub, at |-> at, snap |-> snap]
Idle == Work("idle", "none", None, 0, None)

NoTick == [at |-> 0, todo |-> {}]

SchedTypeOK ==
    /\ up \in BOOLEAN /\ minute \in 0 .. Cycle - 1 /\ due \in 0 .. MaxDue
    /\ subs \in [Subs -> Subscription \cup {None}]
    /\ rows \in [Subs -> Subscription \cup {None}]
    /\ tick.at \in Times
    /\ tick.todo \subseteq [sub : Subs, firing : Times, fire : BOOLEAN]
    /\ \A x, y \in tick.todo : x.sub = y.sub => x = y
    /\ job \in [Actors -> Job]
    /\ {changes, execs} \subseteq Actors \cup {None, "recovery"}
    /\ \A a \in Actors :
         /\ (changes = a) <=> job[a].stage \in {"executions", "mail"}
         /\ (execs = a) <=> job[a].stage = "mail"
    /\ faults \in 0 .. MaxFaults
    /\ upto \in [Subs -> Times] /\ rewound \subseteq Subs /\ loose \subseteq Subs

\* The application starts, on rows a previous process left.
Init ==
    /\ up = TRUE
    /\ minute \in 0 .. Cycle - 1
    /\ due = 1
    /\ subs \in [Subs -> [cron : Crons, enabled : BOOLEAN, last : {-MaxLag, -1}]
                         \cup {None}]
    /\ rows = subs
    /\ tick = NoTick
    /\ job = [a \in Actors |-> Idle]
    /\ changes = None /\ execs = None
    /\ faults = 0
    /\ upto = [s \in Subs |-> -MaxLag] /\ rewound = {} /\ loose = {}

-----------------------------------------------------------------------------
(* Time *)

Older(t) == IF t > -MaxLag THEN t - 1 ELSE t
OlderSub(r) == IF r = None THEN None ELSE [r EXCEPT !.last = Older(@)]

\* The age of the oldest firing that is still answered.
MaxOverdue == Grace + MaxDue

\* A minute passes.  The interval makes up for the ticks the loop was too busy for.
Minute ==
    /\ up => due < MaxDue
    /\ minute' = (minute + 1) % Cycle
    /\ due' = IF up THEN due + 1 ELSE due
    /\ subs' = [s \in Subs |-> OlderSub(subs[s])]
    /\ rows' = [s \in Subs |-> OlderSub(rows[s])]
    /\ tick' = IF tick.todo = {} THEN NoTick
               ELSE [at |-> Older(tick.at),
                     todo |-> {[x EXCEPT !.firing = Older(@)] : x \in tick.todo}]
    /\ job' = [a \in Actors |->
                 [job[a] EXCEPT !.at = IF job[a].purpose = "run" THEN Older(@) ELSE 0,
                                !.snap = OlderSub(@)]]
    /\ upto' = [s \in Subs |-> IF upto[s] <= -MaxOverdue THEN -MaxLag ELSE upto[s] - 1]
    /\ UNCHANGED <<up, locks, faults, rewound, loose>>

\* schedule.after(last).next(): the first firing after the last run.
NextFiring(cron, last) ==
    CHOOSE t \in last + 1 .. last + cron : (minute + t) % cron = 0

-----------------------------------------------------------------------------
(* Rows *)

Writing(a, s) == job[a].sub = s /\ job[a].stage \in {"store", "register", "unstore"}
Other(a) == CHOOSE b \in Actors : b # a

\* Whoever changes s while the other's write of its row is outstanding.
Loosened(a, s) == IF Writing(Other(a), s) THEN loose \cup {s} ELSE loose

\* s is changed under the lock, and its clone is to be stored after it.
Change(a, s, r, purpose) ==
    /\ subs' = [subs EXCEPT ![s] = r]
    /\ job' = [job EXCEPT ![a] = Work("store", purpose, s, IF purpose = "run" THEN @.at ELSE 0, r)]
    /\ loose' = Loosened(a, s)

Done(a) == job' = [job EXCEPT ![a] = Idle]

StoreOk(a) ==
    /\ job[a].stage = "store"
    /\ rows' = [rows EXCEPT ![job[a].sub] = job[a].snap]
    /\ job' = [job EXCEPT ![a] = IF @.purpose = "create" THEN [@ EXCEPT !.stage = "register"] ELSE Idle]
    /\ UNCHANGED <<up, clock, subs, tick, locks, faults, history>>

\* A run whose row is not written is marked failed, although its mail is out; a failed
\* advance ends the tick; a failed mark is ignored; a command answers the error.
StoreFails(a) ==
    /\ job[a].stage = "store"
    /\ faults < MaxFaults /\ faults' = faults + 1
    /\ job' = [job EXCEPT ![a] = IF a = Loop /\ @.purpose = "run"
                                 THEN [@ EXCEPT !.stage = "mark failed", !.snap = None] ELSE Idle]
    /\ tick' = IF job[a].purpose = "advance" THEN NoTick ELSE tick
    /\ loose' = IF job[a].purpose = "create" THEN loose ELSE loose \cup {job[a].sub}
    /\ UNCHANGED <<up, clock, subs, rows, locks, upto, rewound>>

-----------------------------------------------------------------------------
(* The tick *)

\* check_fire for each enabled subscription; those not due are dropped.
Actions ==
    {[sub |-> s, firing |-> NextFiring(subs[s].cron, subs[s].last),
      fire |-> NextFiring(subs[s].cron, subs[s].last) >= -Grace] :
        s \in {s \in Subs : /\ subs[s] # None
                            /\ subs[s].enabled
                            /\ NextFiring(subs[s].cron, subs[s].last) <= 0}}

TickStarts ==
    /\ up /\ due > 0
    /\ job[Loop] = Idle /\ tick.todo = {}
    /\ due' = due - 1
    /\ tick' = [at |-> 0, todo |-> Actions]
    /\ UNCHANGED <<up, minute, subs, rows, job, locks, faults, history>>

Taken(x) == tick' = IF tick.todo = {x} THEN NoTick ELSE [tick EXCEPT !.todo = @ \ {x}]

\* Mutant: the firing that was missed is not consumed.
AdvanceNothing(x) ==
    /\ ~x.fire
    /\ Taken(x)
    /\ UNCHANGED <<up, clock, subs, rows, job, locks, faults, history>>

\* A firing missed by more than the grace time is consumed.
Advance(x) ==
    /\ ~x.fire
    /\ IF subs[x.sub] # None
       THEN Change(Loop, x.sub, [subs[x.sub] EXCEPT !.last = x.firing], "advance")
       ELSE UNCHANGED <<subs, job, loose>>
    /\ Taken(x)
    /\ UNCHANGED <<up, clock, rows, locks, faults, upto, rewound>>

Fire(x) ==
    /\ x.fire
    /\ job' = [job EXCEPT ![Loop] = Work("gather", "run", x.sub, tick.at, None)]
    /\ Taken(x)
    /\ UNCHANGED <<up, clock, subs, rows, locks, faults, history>>

TickTakes == job[Loop] = Idle /\ \E x \in tick.todo : Advance(x) \/ Fire(x)

-----------------------------------------------------------------------------
(* run_subscription and what surrounds it, for the loop and for a trigger *)

Stage(a, from, to) == job[a].stage = from /\ job' = [job EXCEPT ![a].stage = to]

\* A failed run of the loop is marked, that of a trigger is answered with the error.
Failed(a) ==
    job' = [job EXCEPT ![a] = IF a = Loop THEN [@ EXCEPT !.stage = "mark failed"] ELSE Idle]

TopologyRead(a) ==
    /\ Stage(a, "gather", "changes")
    /\ UNCHANGED <<up, clock, subs, rows, tick, locks, faults, history>>

TopologyFails(a) ==
    /\ job[a].stage = "gather"
    /\ faults < MaxFaults /\ faults' = faults + 1
    /\ Failed(a)
    /\ UNCHANGED <<up, clock, subs, rows, tick, locks, history>>

LockChanges(a) ==
    /\ changes = None /\ changes' = a
    /\ Stage(a, "changes", "executions")
    /\ UNCHANGED <<up, clock, subs, rows, tick, execs, faults, history>>

LockExecutions(a) ==
    /\ execs = None /\ execs' = a
    /\ Stage(a, "executions", "mail")
    /\ UNCHANGED <<up, clock, subs, rows, tick, changes, faults, history>>

\* Mutant: the command takes the executions before the change events.
TakesLocksCrosswise(a) ==
    \/ a = Loop /\ (LockChanges(a) \/ LockExecutions(a))
    \/ /\ a = Command
       /\ \/ execs = None /\ execs' = a /\ Stage(a, "changes", "executions") /\ UNCHANGED changes
          \/ changes = None /\ changes' = a /\ Stage(a, "executions", "mail") /\ UNCHANGED execs
       /\ UNCHANGED <<up, clock, subs, rows, tick, faults, history>>

\* The loop and the command wait for one registry with the other one locked, in the
\* same order.
TakesLocks(a) == LockChanges(a) \/ LockExecutions(a)

Sent(a) == IF a = Loop THEN upto' = [upto EXCEPT ![job[a].sub] = job[a].at] ELSE UNCHANGED upto

Mailed(a) ==
    /\ Stage(a, "mail", "report")
    /\ changes' = None /\ execs' = None
    /\ Sent(a)
    /\ UNCHANGED <<up, clock, subs, rows, tick, faults, rewound, loose>>

\* The report cannot be made, or the mail server gives an error, perhaps after it has
\* accepted the mail.
MailFails(a) ==
    /\ job[a].stage = "mail"
    /\ changes' = None /\ execs' = None
    /\ Failed(a)
    /\ Sent(a) \/ UNCHANGED upto
    /\ UNCHANGED <<up, clock, subs, rows, tick, faults, rewound, loose>>

ReportStored(a) ==
    /\ Stage(a, "report", "write back")
    /\ UNCHANGED <<up, clock, subs, rows, tick, locks, faults, history>>

\* The loop goes on without the row, a trigger answers the error.
ReportNotStored(a) ==
    /\ job[a].stage = "report"
    /\ faults < MaxFaults /\ faults' = faults + 1
    /\ job' = [job EXCEPT ![a] = IF a = Loop THEN [@ EXCEPT !.stage = "write back"] ELSE Idle]
    /\ UNCHANGED <<up, clock, subs, rows, tick, locks, history>>

Rewound(a, s) ==
    IF a = Command /\ job[a].at < subs[s].last THEN rewound \cup {s} ELSE rewound

\* Mutant: a run does not leave its time as the last one.
WriteBackNothing(a) ==
    LET s == job[a].sub IN
    /\ job[a].stage = "write back"
    /\ subs[s] # None
    /\ Change(a, s, subs[s], "run")
    /\ rewound' = Rewound(a, s)
    /\ UNCHANGED <<up, clock, rows, tick, locks, faults, upto>>

WriteBack(a) ==
    LET s == job[a].sub IN
    /\ job[a].stage = "write back"
    /\ subs[s] # None
    /\ Change(a, s, [subs[s] EXCEPT !.last = job[a].at], "run")
    /\ rewound' = Rewound(a, s)
    /\ UNCHANGED <<up, clock, rows, tick, locks, faults, upto>>

\* Mutant: the mark stays in the registry.
MarkFailedUnstored(a) ==
    LET s == job[a].sub IN
    /\ job[a].stage = "mark failed"
    /\ subs[s] # None
    /\ subs' = [subs EXCEPT ![s].last = job[a].at]
    /\ Done(a)
    /\ UNCHANGED <<up, clock, rows, tick, locks, faults, history>>

MarkFailed(a) ==
    LET s == job[a].sub IN
    /\ job[a].stage = "mark failed"
    /\ subs[s] # None
    /\ Change(a, s, [subs[s] EXCEPT !.last = job[a].at], "mark")
    /\ UNCHANGED <<up, clock, rows, tick, locks, faults, upto, rewound>>

\* The subscription was deleted in the meantime.
Gone(a) ==
    /\ job[a].stage \in {"write back", "mark failed"}
    /\ subs[job[a].sub] = None
    /\ Done(a)
    /\ UNCHANGED <<up, clock, subs, rows, tick, locks, faults, history>>

Run(a) ==
    \/ TopologyRead(a) \/ TopologyFails(a)
    \/ TakesLocks(a)
    \/ Mailed(a) \/ MailFails(a)
    \/ ReportStored(a) \/ ReportNotStored(a)
    \/ WriteBack(a) \/ MarkFailed(a) \/ Gone(a)
    \/ StoreOk(a) \/ StoreFails(a)

-----------------------------------------------------------------------------
(* Commands *)

Asks(s) == up /\ job[Command] = Idle /\ subs[s] # None

\* create_subscription stores the row first.
Create(s) ==
    /\ up /\ job[Command] = Idle
    /\ subs[s] = None /\ rows[s] = None /\ s \notin loose
    /\ \A a \in Actors : job[a].sub # s
    /\ \E cron \in Crons, enabled \in BOOLEAN :
         job' = [job EXCEPT ![Command] =
                   Work("store", "create", s, 0, [cron |-> cron, enabled |-> enabled, last |-> 0])]
    /\ UNCHANGED <<up, clock, subs, rows, tick, locks, faults, history>>

Register ==
    /\ job[Command].stage = "register"
    /\ subs' = [subs EXCEPT ![job[Command].sub] = job[Command].snap]
    /\ Done(Command)
    /\ UNCHANGED <<up, clock, rows, tick, locks, faults, history>>

Update(s) ==
    /\ Asks(s)
    /\ \E cron \in Crons, enabled \in BOOLEAN :
         Change(Command, s, [subs[s] EXCEPT !.cron = cron, !.enabled = enabled], "edit")
    /\ UNCHANGED <<up, clock, rows, tick, locks, faults, upto, rewound>>

\* The recipients are refused when the new cron is in the registry already.
UpdateRefused(s) ==
    /\ Asks(s)
    /\ \E cron \in Crons : subs' = [subs EXCEPT ![s].cron = cron]
    /\ loose' = loose \cup {s}
    /\ UNCHANGED <<up, clock, rows, tick, job, locks, faults, upto, rewound>>

Delete(s) ==
    /\ Asks(s)
    /\ subs' = [subs EXCEPT ![s] = None]
    /\ job' = [job EXCEPT ![Command] = Work("unstore", "edit", s, 0, None)]
    /\ loose' = Loosened(Command, s)
    /\ UNCHANGED <<up, clock, rows, tick, locks, faults, upto, rewound>>

Unstore ==
    /\ job[Command].stage = "unstore"
    /\ \/ rows' = [rows EXCEPT ![job[Command].sub] = None] /\ UNCHANGED <<faults, loose>>
       \/ /\ faults < MaxFaults /\ faults' = faults + 1
          /\ loose' = loose \cup {job[Command].sub}
          /\ UNCHANGED rows
    /\ Done(Command)
    /\ UNCHANGED <<up, clock, subs, tick, locks, upto, rewound>>

\* trigger_subscription_now works on a clone, and looks at neither cron nor enabled.
Trigger(s) ==
    /\ Asks(s)
    /\ job' = [job EXCEPT ![Command] = Work("gather", "run", s, 0, None)]
    /\ UNCHANGED <<up, clock, subs, rows, tick, locks, faults, history>>

-----------------------------------------------------------------------------
(* Recovery commands, crashes and restarts *)

\* A recovery command has the executions locked when a run comes to need them; at
\* other times it makes no difference here.
RecoveryEnters ==
    /\ execs = None /\ \E a \in Actors : job[a].stage = "executions"
    /\ execs' = "recovery"
    /\ UNCHANGED <<up, clock, subs, rows, tick, job, changes, faults, history>>

RecoveryLeaves ==
    /\ execs = "recovery"
    /\ execs' = None
    /\ UNCHANGED <<up, clock, subs, rows, tick, job, changes, faults, history>>

\* The process ends.
Stop ==
    /\ up /\ faults < MaxFaults
    /\ up' = FALSE
    /\ faults' = faults + 1
    /\ subs' = rows
    /\ rewound' = rewound \cup {s \in Subs : rows[s] # None /\ rows[s].last < upto[s]}
    /\ loose' = {}
    /\ tick' = NoTick
    /\ job' = [a \in Actors |-> Idle]
    /\ due' = 0
    /\ changes' = None /\ execs' = None
    /\ UNCHANGED <<minute, rows, upto>>

\* list_subscriptions fills the registry, and an interval ticks at once.
Start ==
    /\ ~up
    /\ up' = TRUE
    /\ due' = 1
    /\ UNCHANGED <<minute, subs, rows, tick, job, locks, faults, history>>

-----------------------------------------------------------------------------
Commands ==
    \/ \E s \in Subs : Create(s) \/ Update(s) \/ UpdateRefused(s) \/ Delete(s) \/ Trigger(s)
    \/ Register \/ Unstore

Next ==
    \/ Minute
    \/ TickStarts \/ TickTakes
    \/ \E a \in Actors : Run(a)
    \/ Commands
    \/ RecoveryEnters \/ RecoveryLeaves
    \/ Stop \/ Start

Spec == Init /\ [][Next]_vars

\* Time passes, the loop and the commands go on, a recovery command ends (RecoveryChains
\* and Recovery show that), and the locks are fair.  That the sending of a mail ends is
\* assumed of the mail server: email_smtp.rs sets no time limit of its own.
FairSpec ==
    /\ Spec
    /\ WF_vars(Minute) /\ WF_vars(TickStarts \/ TickTakes)
    /\ WF_vars(Run(Loop)) /\ WF_vars(Run(Command) \/ Register \/ Unstore)
    /\ \A a \in Actors : SF_vars(TakesLocks(a))
    /\ WF_vars(RecoveryLeaves)

-----------------------------------------------------------------------------
(* Properties *)

\* No firing is mailed twice: the tick sets out to answer a firing later than the tick
\* of the newest scheduled mail.  Only a subscription whose last run went back is
\* exempt: by a restart before the row knew of that mail, or by a manual trigger that
\* began before the tick and wrote its own time after it.
FiredOnce == \A x \in tick.todo : x.fire /\ x.sub \notin rewound => x.firing > upto[x.sub]

\* The row of a subscription is its registry entry whenever no write of it is
\* outstanding, unless two changes of it overlapped, a write failed, or an update was
\* refused half way.
RowsFollow ==
    \A s \in Subs \ loose : (\A a \in Actors : ~Writing(a, s)) => rows[s] = subs[s]

RunsFor(s) == \E a \in Actors : job[a].sub = s /\ job[a].stage = "gather"

\* A subscription that stays enabled is run again and again, however long the
\* application was off, if it fires less often than the loop ticks.
CatchesUp ==
    \A s \in Subs :
        <>[](up /\ subs[s] # None /\ subs[s].enabled /\ subs[s].cron > 1) => []<>RunsFor(s)

\* The same for every cron: what was missed by more than the grace time is not made up
\* for, and what comes after it is run.
MissedOnly ==
    \A s \in Subs : <>[](up /\ subs[s] # None /\ subs[s].enabled) => []<>RunsFor(s)

\* Commands on subscriptions are answered, and a run gives back the executions that
\* recovery commands wait for, although the loop and the command each wait for one
\* registry with the other locked, and for the executions together with the recovery
\* commands; given that the mail server answers.
CommandsEnd ==
    /\ job[Command] # Idle ~> job[Command] = Idle
    /\ execs \in Actors ~> execs \notin Actors
===============================================================================
