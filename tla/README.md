# TLA+ models of sre-inspection-graph

The repository is a desktop application (Tauri, Rust) for inspecting and repairing Kubernetes
systems. Connectors, run as WASM guests, produce facts; an identity resolver turns facts into a
topology of resources; changes and alerts are recorded against it; reports are computed and mailed
from it; and a recovery engine acts on the cluster.

The models follow that division. The parts where steps of several actors interleave (the recovery
engine with its commands and chains, the sync pipeline, the report scheduler, the proxy) are state
machines with one action for each step between two awaits. The parts that only compute (connectors,
resolver, searches, reports) are operators, composed in one state machine, `Console`, in which a
world moves and is looked at through all of them.

Paths below are relative to `src/`. `ER` is `engine/crates/engine-recovery/src`, `CMD` is
`desktop/src-tauri/src/commands`.

## 1. Inventory

| Component | State it keeps | Operations | What it talks to | What is hard |
|---|---|---|---|---|
| Recovery engine (`ER/execution.rs`, `models.rs`) | `ExecutionRegistry`: executions by id | execute, confirm, cancel, rollback, reverify | executor, verifier, caller's clone of the topology | verification sets off a rollback inside the call; links written at both ends; timeouts that leave the effect unknown |
| Catalogue, handlers, verifiers (`ER/action_defs.rs`, `handlers.rs`, `verifiers.rs`, `cluster_reader.rs`, `engine-wasm/handler_executor.rs`, `modules/handlers/k8s-handler`) | none; read and write the twin, or the cluster | one handler and one verifier for each of eight actions | Kubernetes API through `kubectl proxy` | two names for one attribute; two sources of a verdict |
| Recovery commands (`CMD/recovery.rs`, `lib.rs`) | tables `recovery_executions`, `recovery_chains`; the registries behind async mutexes | five execution commands, four chain commands, queries, load at start | engine, storage | topology read before the lock, upserts after it; restart at any point |
| Recovery chains (`ER/chains.rs`) | `ChainRegistry` | execute, confirm, cancel, abort | engine; both registries locked for the whole run | failed steps under three strategies, reversals that fail |
| Impact analysis (`ER/cascade.rs`) | none | dry_run | topology | rules that name types and edges other parts produce |
| Sync pipeline (`CMD/wasm.rs`, `sync_loop.rs`, `engine-wasm/multi.rs`) | facts, materialized topology, change events, first-sync flag, last attempts | manual sync, background sync with backoff, pruning | connectors, resolver, storage | no lock around a pipeline with two callers; partial failure |
| Identity resolver (`engine-identity`) | none | resolve, merge health, diff, views | facts | which of several facts of one resource wins |
| Changes and alerts (`engine-changes`, `CMD/changes.rs`, `alerts.rs`) | two registries and their tables | record, resolve, detect, correlate, propagate, suggest | topology, commands | windows in instants and in strings; changes of the past and the future |
| Report scheduler (`scheduler.rs`, `CMD/reports_scheduler.rs`, `engine-reports/scheduler.rs`) | subscriptions, reports | tick, trigger now, create, update, delete | all registries, SMTP | snapshot processed outside the lock; mail cannot be unsent |
| Reports (`engine-reports`) | none | the sections of three templates | topology, changes, executions | pure |
| Proxy (`CMD/proxy.rs`) | the child process | start, stop, status, exit | kubectl | check and spawn not atomic; a child that died unnoticed |
| Connectors (`modules/connectors`, `modules/sdk`) | what a guest has seen since its start | sync | the API of their source | seven guests that must name one resource alike |
| Storage (`engine-storage`) | SQLite tables, Parquet files | upsert and list per table | all of the above | one row per statement; which row is the latest |
| WASM host (`engine-wasm`) | loaded guests behind a mutex | execute, sync | HTTP, files | 30 s client timeout |
| Core types, CLI, bindings, test kit; connector configuration; example guests; user interface | - | - | - | nothing the back end does not decide |

What makes each of them correct:

* Recovery engine: nothing gated takes effect unapproved; the status says what happened to the
  cluster; an execution is undone once; automatic rollbacks stop.
* Commands: rows follow the registry and are never ahead of it; a restart cannot lead to an effect
  nobody confirmed; every command answers.
* Chains: nothing runs past a failed step; `rollback_all` leaves no step as it was without saying so;
  a verdict agrees with the steps and does not change.
* Sync: an event is recorded once, a change is a real one and found once, what happened while the
  application was off is not news, and the topology that stays is the newest that was read.
* Scheduler: one mail for a firing; rows follow the registry; firing resumes after any pause.
* Proxy: no child that nobody can end; answers are true.
* Connectors, resolver, changes, reports: what one part names the others find, and what is wrong now
  is what is shown.

`PROJECT.json` lists every component with its status, and every hazard with its line and the
properties that cover it, or why none does.

## 2. Modules

### Recovery

`RecoveryActions` — constant-level. The catalogue (`ActionDefs`), the approval policy
(`NeedsApproval`), what a handler does to the twin (`HandlerRefuses`, `TwinAfter`) and the verdicts a
verification can reach (`Verdicts`). `Mode` is the executor the application was started with
(`lib.rs` 392-434): the mock, the WASM executor, or the WASM executor with `real_mode`. The twin of a
target is reduced to what decides: whether it is there, the replica count under the connector's name
(`replicas_desired`) and under the handlers' name (`desired_replicas`), and which handlers have
written to it; a health attribute is not kept, so that the verdict of `restart_pod` on the twin, which
asks for a good one, may be either (`TwinVerdicts`). `ReadBack` says whose target the cluster can be asked
about: not a Service, whose id starts with `service:` where `resource_id_to_api_path` knows `svc:`. The
enumerated requests pass the handlers' checks on their other parameters (`grace_period`, `query_id`,
`revision`); the ones a state can make fail are kept.

`Recovery` — the engine. `exec` is the registry; `call` is the engine call that holds its mutex, with
the parameters of `run_handler` as fields and the await it has reached as `stage`; `twin` is the clone
of the topology that call owns. `cluster`, `mat` and `proxyUp` are the world: `spec.replicas` in the
cluster, the topology of the last sync, and whether the API answers. `ran` is a history variable.

| Action | Code |
|---|---|
| `ExecuteGated`, `ExecuteNow` | `execute_with_policy` |
| `Confirm`, `Cancel`, `Rollback`, `Reverify` | the functions of the same names |
| `HandlerRefused`, `HandlerSucceeds`, `HandlerUpstreamError` | `run_handler`, by what the executor answers |
| `VerifySettles`, `VerifyRollsBack` | `verify_and_maybe_rollback`, by whether it calls `do_rollback` |
| `Return` | the end of the call, with the end of `do_rollback` (`Settled`) |
| `Sync`, `Vanish`, `Drift`, `ProxyFlips` | what others do: a sync, a resource that goes away, another writer, the proxy |

`HandlerUpstreamError` covers the timeout: the request may or may not have been carried out, and the
code learns neither.

`RecoveryLifecycle` — what the registry promises, with no handlers or verifiers: an execution passes
its gate, runs, ends, and may be undone by one other execution; one runs at a time. `Recovery`
implements it under the mapping `Phase`/`Kind` (`ImplementsLifecycle`, checked and proved). An execution that has been
confirmed is `running` for the abstract specification from the start of its handler, although the
registry says `awaiting_approval` until the handler has answered.

`RecoveryStore` — EXTENDS `Recovery`. The commands: `Request` (topology read), `Enter...` (lock taken
and engine call begun), `Work` (the engine), `Leave` (clones taken, lock given back), `Upsert`,
`UpsertFails` (the storage answers an error, which the command returns, leaving its other upserts
undone), `FollowUp` (the second lock of `persist_exec`), and `Restart`, which rebuilds the registry from
the rows (`lib.rs` 336-380). Any number of commands overlap outside the lock. `loose` records executions
for which two commands had upserts pending at once, or an upsert failed.

`RecoveryChains` — EXTENDS `Recovery`. `chain` is the chain registry, `run` the local variables of
`run_chain_steps` and `handle_step_failure`, and at the same time the fact that both registries are
locked. `run.undo` counts the earlier steps `rollback_all` has still to go back over, from which `NextToUndo`
finds the next one that can be undone. All templates contain an action that is not of low risk, so the branch of
`execute_chain_with_policy` that runs a chain unasked is dead and is not modelled. `abort_chain`
accepts an executing chain, and its comments (`chains.rs` 302-304, `CMD/recovery.rs` 443) say that it
is for running ones, but a run holds the lock from its first step to its last, so that an abort waits
and then finds a chain that has ended; the test `abort_chain_from_executing` aborts one that awaits
approval. The guard is kept and the lock too. `ChainEnds` does not rest on this: it takes an aborted
chain as ended.

### Sync pipeline

`SyncPipeline` — EXTENDS `Identity`. `run_sync` run by the background loop and by a click, with
nothing to keep them apart.

| Action | Code |
|---|---|
| `SyncInner` | the connectors that are due, up to the facts at hand (`multi.rs`, `wasm.rs`) |
| `StoreFacts`, `ResolveFacts` | `upsert_facts`; the latest facts read back, resolved and compared |
| `DiffAndRecord`, `Apply` | the change events recorded; `apply_change_set` |
| `Fail` | any of these fails and the sync ends where it is |
| `IntervalPasses`, `PruneFacts`, `Restart` | `sync_loop`, its daily pruning, the end of the process |
| `ClusterChanges`, `ApiFails`, `ApiReturns`, `Tick` | the cluster, its API and the clock |

`overlapped` records that a sync stored its facts while another was under way, `halfway` that one
failed between recording its events and applying its change set.

The cluster is one Deployment whose replicas change, and the events these changes leave. Waiting is
untimed: the backoff only lengthens a wait. The connectors of one sync read the cluster at one
moment, and a change is recorded and stored in one step.

`Identity` — the resolver as operators: the latest rows of the facts table, the merge of nodes that
share a correlation key, the graph, metric health, the difference of two topologies, its application,
and the changes it shows. `SyncPipeline` and `Console` are built from it.

### Report scheduler

`ReportScheduler` — the loop, the user's command, the registry and its rows. Both actors go through
the stages of one run (`gather`, `changes`, `executions`, `mail`, `report`, `write back`, `store`),
one for each await of `fire_subscription` and `trigger_subscription_now`; `Advance` and `Fire` are
the two outcomes of `check_fire`. `TakesLocks` is the order in which a run takes the two registries;
its mutant takes them crosswise, and `CommandsEnd` notices. Time is relative to now and counted in minutes; a cron is its
period, so `NextFiring` is the first multiple of it after the last run. `StoreFails`, `TopologyFails`,
`MailFails` and `ReportNotStored` are the error paths, which differ between the loop and a trigger.
Left out: the text of `last_status` and `last_error`, and the rows of reports. A recovery command
takes the lock of the executions only when a run needs it, since at other times nobody notices.

The history variables name the exemptions. `rewound` holds subscriptions whose last run went back:
by a trigger that began before a tick and ended after it, or by a restart before the row was stored;
these may mail a firing twice. `loose` holds those with two overlapping changes, a failed write, or
an update refused half way, whose row need not follow.

### Proxy

`KubectlProxy` — `proxy` is the child in `AppState`, `child` what has become of each process, `killed`
the children that were sent SIGKILL, `foreign` whether a proxy of the user's own has the port, `cmd` the
commands with their awaits. `StartFindsHandle`, `StartSpawns`, `ProbeConnects`, `ProbeFails`,
`StartKills`, `StartFails` are `start_kubectl_proxy`; `StopTakes`, `StopKills`, `StopReaps` are
`stop_kubectl_proxy`; the status and the exit of the application follow. Children die, lose the port
or never bind it.

To kill a child, or to drop its handle, is to send it the signal. It goes on accepting on the port until
it ends (`ChildDies`), and only then does the command that waits for it go on. Between `StopTakes`, which
empties `AppState` and gives the lock back (`proxy.rs` 143-146), and `StopReaps` another start finds no
handle, spawns a child and may connect to the dying one (311): it answers "ready", and its own child finds
the port taken. A handle that an overlapping start replaces is dropped, and nobody waits for its child.
`AnswersAreTrue` therefore speaks of commands that end while no other is under way, and "ready" of those
that also find no killed child alive (`Dying`); `NoStray` holds of all. A connection that is made and the
store of the handle are one step, since nothing is awaited between them.

### The console

`K8sMapper` — the lists of the Kubernetes API mapped to facts, and the naming rules. A name is a
sequence of words, so that stripping a prefix, a suffix or a hash does what the code does.
`Connectors` — jaeger, prometheus, k8s-events, flagd, alertmanager and code-repo as functions of what
their source answers and of what they remember. `ChangeEvents` — recording, frequency, correlation,
suggestion. `Traversals` — propagation, views and `dry_run` as bounded searches. `Reports` — what each
section gathers. `Console` — composes them: `WorldMoves` changes what all sources answer, `Sync` is
one sync of all connectors, `RecordChangeEvent`, `RecordAlert`, `ResolveAlert` are the commands, and
`Restart` reloads the registries from their tables. How syncs overlap and break off is left to
`SyncPipeline`. What a source answers is a set, except where the code relies on its order; rows of one
moment come back from a restart in any order, since SQLite promises none among them. Only what a step
has newly recorded is written to the tables, as the commands and `wasm.rs` do, and all rows are read
back, since there are fewer than the limit of 1000. Time counts half seconds, because sources give
fractions and the engine cuts them.

A world is what all sources would say at one moment: `w.cluster` the objects of the cluster,
`w.unanswered` the lists the Kubernetes API refuses, and `Lists(w)` (`Answers`) what it then says. The
properties are about `Lists(w)`, so they hold of failed lists too. `ClusterAssumption` says of worlds
what Kubernetes guarantees: within one list a name is that of one object, a ReplicaSet is named as its
Deployment with a hash, and the uid of an event belongs to one subject. `ImagesAssumption` says that
there are finitely many image ids and that `RidLess`, the order of their strings, is an order;
`FactsAssumption`, that a sync finds finitely many facts. Clusters
of resources that share a key (`Clusters`) are sets rather than the order of a union-find; filling in
attributes (`Merges`) and the searches (`Visited`) are recursive functions.

### Proofs and instances

The theorems of section 5 stand in a module for each component: `RecoveryProofs` (the engine and its
refinement), `RecoveryStoreProofs` and `RecoveryChainsProofs`, which extend `RecoveryProofs` as their
components extend `Recovery`; `SyncPipelineProofs`, `ReportSchedulerProofs`, `KubectlProxyProofs`,
`ConsoleProofs`. `ConsoleProofs` extends `TopologyProofs`, which has the lemmas about the operators
beneath it: the shape of facts, correlation, the graph, the searches, what is stored.
`MC_...` — values for TLC.

Operators under a comment that begins with "Mutant" are plausible bugs in the definition that follows
them. No specification uses them; they serve to show that a property notices the bug.

## 3. Runs

| Run | Config | Shows |
|---|---|---|
| `recovery` | `MC_Recovery.cfg` | safety, refinement and liveness of the engine in real mode |
| `store_mock` | `MC_RecoveryStore_mock.cfg` | two overlapping commands and a restart, mock executor |
| `store_real` | `MC_RecoveryStore_real.cfg` | the same with the real executor and another writer; every command answers |
| `chains` | `MC_RecoveryChains.cfg` | chains under every strategy, with failures |
| `sync` | `MC_SyncPipeline.cfg` | two overlapping syncs with a fault |
| `scheduler` | `MC_ReportScheduler.cfg` | the loop, the commands and a recovery command, with a fault |
| `proxy` | `MC_KubectlProxy.cfg` | two commands, three children, an exit at any point |
| `console` | `MC_Console.cfg` | all connectors, the resolver, changes, searches and reports over moving worlds |
| `auto_restore` | `MC_Recovery_autorestore.cfg` | violation: finding 1 |
| `store_twice` | `MC_RecoveryStore_twice.cfg` | violation: finding 2 |
| `scheduler_stuck` | `MC_ReportScheduler_stuck.cfg` | violation: finding 3 |
| `id_drift` | `MC_Console_drift.cfg` | violation: finding 4 |

Properties:

* `RollbackLinks`, `ReversedOnce`, `AutoRollbackStops`: rolled back means undone by exactly one
  execution that succeeded, however often a failed attempt was repeated; an automatic reversal never
  reverses a reversal. `ApprovalGate`, `StatusTellsEffect`: gated actions take effect once approved
  only, and the status bounds how often a handler took effect, with `failed` the one status that
  leaves it open. `AutoRollbackResolves`: a started rollback leaves a result.
* `StoreFollows`: with no command in flight the rows equal the registry, except rows two commands
  wrote at once, rows an upsert failed to write, and failed automatic reversals, which are never stored. `StoreIsPast`: a row is never
  ahead of the registry, and a restart does not make up an effect. `ConfirmedEachTime`: however often
  a restart forgets an effect, each repetition was confirmed. `CommandsAnswer`: no command waits for ever.
* `ChainGate`, `StepsAwaitVerdict`, `VerdictIsTrue`, `UndoneOrReported`, `UndoNewestFirst`, and
  `ChainEnds`: a started chain ends succeeded, partial, rolled back or aborted.
* `HandedOverOnce`, `ChangesOnce`, `HistoryStaysQuiet`, `Converges`: for the pipeline. `ChangesOnce` is
  about processes in which no sync stored its facts while another was under way and none failed half
  way: the code does record a change twice, or backwards, after that. `HistoryStaysQuiet` is exempt of
  the first only. `HandedOverOnce` and `Converges` have no exemption.
* `FiredOnce`, `RowsFollow`, `CatchesUp`, `CommandsEnd`: for the scheduler, with the exemptions above.
  The exempt cases do happen in the code, and the hazards in `PROJECT.json` that describe them name no
  property. `CommandsEnd` and `CatchesUp` take it that the mail server answers.
* `NoStray`, `AnswersAreTrue`, `CommandsEnd`: for the proxy.
* `ConfigChangeReachesUsers`, `SuggestedRollbackFits`, `AlertsFindTheirCause`, `CorrelationIsMutual`,
  `CallsAttach`, `BuildsReachPods`, `FrequentTargetsAreTagged`, `HealthIsCurrent`,
  `ViewsShowDependents`, `ReportsTellOfTrouble`: each compares what the console shows with how the
  world is, which the operators under test never see. `SuggestedRollbackFits` asks that every
  Deployment that used the resource and still does is among those suggested; others may be, because a
  pod that is gone keeps its node and its edges. `CallsAttach` speaks of the names themselves: a traced
  service and a Deployment with a release prefix, of which at most one ends in "service"
  (`NamedAfter`). `HealthIsCurrent` is about pods too, and leaves out two syncs within one second that
  measure different things; `CorrelationIsMutual` leaves out times with a fraction and alerts without a
  time (see section 4). The two directions of a correlation have windows of their own: the alerts of a
  change are those within 600 seconds (`alert_correlation.rs` 26), the changes of an alert those within
  300 (28, `CMD/alerts.rs` 152), and the user interface asks with neither
  (`ChangeTimelineView.tsx` 80). At 400 seconds the alert is found from the change and the change is not
  found from the alert. `CorrelationIsMutual` says that this is the only way in which they differ:
  whatever the narrower direction finds the wider one finds too, the other way round within the
  narrower window, and over one window they agree.

### Bounds, and why they are enough

* Recovery ids. A rollback needs an original and a reversal; a failed attempt and its repetition a
  third id; hence three in `recovery`, which also admits an original, its automatic reversal and the
  manual reversal of that one. The store runs use two: the races are about the rows of one execution
  and of its reversal. A chain of three steps undoes two: five ids. `Spare` starts an operation only
  while the ids it may mint are left; `OutOfIds` refuses a command where the bound would make it wait.
* One Deployment, scaled by +2 from 3. This separates the counts before and after an action, and those
  a wrong starting point leads to (1, 5, 7). `chains` adds a node, whose action cannot be reversed
  and is judged by the read-back. Other actions differ from these in catalogue entries only.
* `MaxFaults` is 1 in the store runs: one restart, or one failed upsert, already meets every combination of
  pending writes. `MaxByHand` is 1:
  an operator rolls back one step by hand once its chain is over.
* `store_real` asks for execute, confirm and rollback only, and uses no symmetry, because it checks
  liveness; `store_mock` asks for all five, with symmetry of ids and callers.
* `sync`: one change of the cluster, one fault, one click, two clock values, facts kept for no longer
  than the clock is wide, and an initial state that is fresh or has the rows of an earlier process.
  One change separates a stale change set from a newer one; two syncs are all there can be. What such
  bounds may hide is shown by the counterexample in section 4, which needs three clock values and two
  faults; the theorems hold without bounds.
* `scheduler`: one subscription of period 2, a grace time of one minute for the code's five, ages told
  apart up to 4, the loop behind by one tick at most, one fault. Subscriptions do not share state but
  for the tick, and the theorems hold for any number. With a single period a refused update changes
  nothing. `scheduler_stuck` uses period 1, which is the case that gets stuck.
* `proxy`: two overlapping commands and a child for each start and one to spare.
* `console`: three worlds (a demo shop, before and after a configuration change, and with a pod that
  crashes), one move, one command of the operator, one restart, and a clock that runs from the sixth half second
  to the eighth. The alerts of a change are looked for within two seconds, the changes of an alert within one,
  and changes may be recorded of the second half second and of a time before all windows: pairs within both windows, in
  the wider alone and in neither occur.
* Deadlock is not checked: with ids used up and the environment bounded the systems may stop.

### Fairness

* `Recovery`, `RecoveryChains`: what the engine awaits ends: requests by the client's 30 s timeout
  (`engine-wasm/src/runtime.rs` 107-116), the read-back after its last attempt. Nothing is assumed of
  operators, syncs, other writers or the proxy. `StoreFairSpec` adds strong fairness for each command
  that has been requested: tokio's mutex is first come, first served.
* `SyncPipeline`: the loop goes on with its sync and its interval passes. Nothing of the click.
* `ReportScheduler`: time passes, the loop and the commands take their next step, the locks are fair
  (strong fairness), and a recovery command gives its lock back, which the recovery models show. That a
  run takes its next step at `mail` is an assumption about the mail server: `email_smtp.rs` sets no time
  limit of its own, and a server that accepts a connection and never answers would hold both registries.
* `KubectlProxy`: the runtime polls each command, a probe ends by its ten seconds, and the system ends a
  process that was sent SIGKILL.

## 4. Findings

1. `AutoRollbackRestores`. The executor reads `replicas_desired` before `desired_replicas`
   (`handler_executor.rs` 77-80); a scale handler rewrites only the latter. The reversal of a scale
   from 3 to 5 therefore starts from 3 and leaves 1. The comment at line 76 expects otherwise.
   `safe_rollback_deployment` suffers from it too (`chains.rs` 61).
2. `ReversedOnce` over a restart. `rollback` writes two rows in two statements; between them a
   restart forgets that the original was rolled back (`execution.rs` 282).
3. `MissedOnly`. A firing missed by more than the grace time is consumed one per tick, so a
   subscription that fires as often as the loop ticks stays behind for ever and is never run, where
   the comments say that only what was missed is not made up for.
4. `ReportsNameResources`. flagd reports on `configmap:...` for `cm:...`, alertmanager on `svc:...`
   for `service:...`, prometheus on services without the release prefix: nothing joins them to a node,
   where the SDK asks for one and the same id.

Met on the way and not shown by a run:

* Recovery. A reader that fails makes a failed check and not the verdict error (`cluster_reader.rs`
  160 against 101, though a test asks for it), which rolls back an action that worked. Upserts are not
  ordered with the lock, so rows can stay behind the registry (`CMD/recovery.rs` 287 against 242). A
  manual rollback starts from the topology of the last sync, which need not be the state after the
  action (`execution.rs` 281). The read-back of `rollback_deployment` never counts, because the result
  passed on has no `old_revision` (`handler_executor.rs` 133-146, `cluster_reader.rs` 226). A chain is
  `rolled_back` although reversals failed (`models.rs` 71), and `persist_chain` does not store those
  reversals. `drain_node` asks for the type `KubernetesNode` (`action_defs.rs` 252), which no connector
  produces. Some rules of `dry_run` name types and edges that a synced topology does not have.
* Sync. Facts are pruned every 24 days, not every 24 hours (`sync_loop.rs` 36 against 35). Events
  handed over by a guest are lost when the sync fails early. Removed resources stay until their facts
  are pruned, and with them what is reached over them: a rollback is suggested of a Deployment whose
  last pod with the ConfigMap is gone. When two syncs overlap, the rows of the one that listed first can be stored last; after a
  restart the pruning, which goes by the time of storing, then removes the newer row, the next sync
  takes the topology back and records a change that undoes the real one, and a later one records the
  real one again. TLC found this on three clock values and two faults, where an earlier `ChangesOnce`
  had only left out syncs that both compared. Two syncs in one second share fact ids. The first-sync flag is set by a first sync that
  fails (`wasm.rs`). When the ReplicaSets cannot be listed, pods move to the namespace.
* Changes and alerts. An alert that is first seen when it is no longer active is never reported, and
  active ones are reported again after a restart, under the same id, of which a search finds the first.
  An alert without a time goes with no change, while every change goes with it. `correlated_changes` gives distance 1 when the path
  has vanished. A change of a resource that is not synced yet keeps an empty type. Fractions of a second are
  compared as strings. The severity `info` decodes to warning.
* Identity. A cluster of three or more nodes with attributes that conflict merges in no fixed order;
  the parent of the node that wins is not remapped. A metric that is no longer reported stays. `latest_metric_facts`
  takes the rows of the latest second, where its comment says the latest sync: two syncs in one second
  mix what they measured, and the worse of the two is shown (`engine-storage/src/sqlite.rs` 501).
* Reports. The count of services of an application is always zero; a pod that crashes in phase
  `Running` is not listed as not ready; `rolled_back` is listed as `rolledback` and never counts in the
  success rate; the days of the trends are only a heading.
* Scheduler. A run whose row cannot be written is marked failed although its mail is out; an advance
  that cannot be stored ends the tick for the others. Change events and executions stay locked while
  the mail is sent. Sunday is 1 in the crate's cron, where `subscription.rs` documents five fields.
* Proxy. `start` says "already running" of a child that has died; overlapping starts can answer ready
  for a child that is not the one kept; a start during a stop can answer ready for the child that is being
  killed.
* Chains. An abort never reaches a running chain, which is what its comments say it is for (section 2).

No order of locks that can deadlock was found: all commands take them in one order.

## 5. Proofs

The theorems hold for every set of ids, targets, subscriptions, commands, children, worlds and
requests, for every bound and for each executor. They rest on the named ASSUMEs of the modules, which
the runs evaluate:

* `Mode` is one of three executors, ids are finite sets without `None`, inputs are integers, bounds are
  natural numbers, and templates, actions and operations in use are among those there are;
* in `ReportScheduler`, a period divides `Cycle`, and `MaxLag` exceeds what the grace time and the
  lateness of the loop add up to: both are about how the model counts time, not about the code;
* in `ChangeEvents` and `Console`, windows and thresholds are natural numbers, the four windows of `Console`
  and the start are whole seconds, the window of a change is no narrower than that of an alert, and
  requests, events and alerts have times. The code's windows are
  numbers of minutes; a fraction of a second is possible in a request and is not assumed away;
* in `Console`, `ClusterAssumption`, `ImagesAssumption` and `FactsAssumption` (section 2): what
  Kubernetes guarantees of names, and that images, and the facts of one sync, are finitely many;
* in `Traversals`, `SuggestionsAssumption`: what is suggested is in the catalogue, which lists every
  action under its own target and risk. This is a fact about two tables.

| Theorem | Statement |
|---|---|
| `RecoveryProofs!IInvariance`, `TypeCorrect` | `Spec => []IInv`, `Spec => []TypeOK` |
| `LinksAgree`, `NothingReversedTwice` | `Spec => []RollbackLinks`, `Spec => []ReversedOnce` |
| `NothingRunsUnapproved`, `StatusIsTruthful` | `Spec => []ApprovalGate`, `Spec => []StatusTellsEffect` |
| `AutomaticRollbacksStop` | `Spec => []AutoRollbackStops` |
| `RecoveryProofs!EngineImplementsLifecycle` | `Spec => ImplementsLifecycle` |
| `RecoveryStoreProofs!StoreConsistent` | `StoreSpec => []StoreInv` |
| `RowsTellThePast`, `RowsCatchUp` | `StoreSpec => []StoreIsPast`, `StoreSpec => []StoreFollows` |
| `RestartKeepsTheGate` | `StoreSpec => []ConfirmedEachTime` |
| `RecoveryChainsProofs!ChainInvariance`, `ChainTypeCorrect` | `ChainSpec => []ChainInv`, the types |
| `ChainsPassTheGate`, `ChainsReverseOnce` | `ChainSpec => []ChainGate`, `ChainSpec => []ReversedOnce` |
| `NoStepPastAFailure`, `VerdictStands` | `ChainSpec => StepsAwaitVerdict`, `ChainSpec => VerdictIsTrue` |
| `RollbackAllReports`, `NewestUndoneFirst` | `ChainSpec => []UndoneOrReported`, `ChainSpec => UndoNewestFirst` |
| `SyncPipelineProofs!SyncInvariance` | `Spec => [](DeliveryInv /\ CompareInv)` |
| `NothingHandedTwice`, `ChangesRecordedOnce` | `Spec => []HandedOverOnce`, `Spec => []ChangesOnce` |
| `PastChangesStayQuiet` | `Spec => HistoryStaysQuiet` |
| `ReportSchedulerProofs!SchedTypeCorrect` | `Spec => []SchedTypeOK` |
| `RowsAreFollowing`, `FiredAtMostOnce` | `Spec => []RowsFollow`, `Spec => []FiredOnce` |
| `KubectlProxyProofs!ProxyTypeCorrect` | `Spec => []ProxyTypeOK` |
| `NothingStrays`, `AnswersTrue` | `Spec => []NoStray`, `Spec => AnswersAreTrue` |
| `ConsoleProofs!RegistriesStored` | `Spec => []EventsInv` |
| `FrequentAreTagged`, `CorrelatesBothWays` | `Spec => []FrequentTargetsAreTagged`, `Spec => []CorrelationIsMutual` |
| `ChangesAreKept` | `Spec => [][Kept(changes, changes')]_changes` |
| `TopologyIsOfWorld` | `Spec => [](TopologyInv /\ PollInv)` |
| `SyncStoresComputed` | `Spec => [][Sync => topology' = Computed(rows, world, clock)]_vars` |
| `ResourcesAreKept` | `Spec => [][Stays(topology, topology')]_topology` |
| `ChangesReachUsers`, `SuggestionsFit` | `Spec => []ConfigChangeReachesUsers`, `Spec => []SuggestedRollbackFits` |
| `CausesAreFound`, `ViewsAreWhole` | `Spec => []AlertsFindTheirCause`, `Spec => []ViewsShowDependents` |
| `CallsFindComponents`, `BuildsMeetPods` | `Spec => []CallsAttach`, `Spec => []BuildsReachPods` |
| `HealthIsShown`, `ReportsAreTrue` | `Spec => []HealthIsCurrent`, `Spec => []ReportsTellOfTrouble` |

**Recovery.** None of the invariants is inductive alone, because the registry is inconsistent on
purpose while a call is in progress: a confirmed execution is still `awaiting_approval` while its
handler runs, and a reversal has succeeded before its original is marked. `IInv` says what is true
then:

* `TypeInv`: types, and a call in progress has an execution;
* `CallKnows`, `StageFits`: what the call remembers agrees with the registry, stage by stage;
* `OnlyTheCallExecutes`: no other execution is `executing`;
* `ReversalsAccounted`: every reversal that succeeded is the one its original names, or is the one the
  call has still to settle, and its original can be settled. `ReversedOnce` follows from this;
* `GatePassed`: the form of `ApprovalGate` that also covers a handler about to run;
* `RollbackLinks`, `StatusTellsEffect`, `AutoRollbackStops` themselves.

There is one lemma per action and conjunct group, combined per action; the operations and the
engine's steps come separately, and `IInvariance` puts them together. `EngineInv` is `IInv` without
`CallApproved` and `GatePassed`: it does not ask who may start an execution, so chains, which start
theirs without a confirmation of each, keep it too.

**Refinement.** `SeenOfOne` says how an execution that changes looks to the lifecycle when all others
stay; each action of the engine is then one action of `RecoveryLifecycle` or a stutter, by what
`EngineInv` knows of the stage it begins at. `OperationRefines` and `EngineStepRefines` go through the
actions; steps of the environment change nothing the lifecycle sees. Only the safety part is stated:
`RecoveryLifecycle` promises no progress.

**Commands.** `StoreInv` has two halves. `RegistryInv` is what of `IInv` survives a restart. A restart
takes the rows of an execution and of its reversal at different moments, so links need not agree any
more (finding 2 is a consequence), and what remains is about one execution at a time: types, that a
link to a reversal goes with `rolled_back` (`LinkFits`), what the call knows, that a handler ran if an
execution is done (`DoneRan`), and the confirmations (`ConfirmedEachTime`, `ConfirmedFirst`).
`CommandInv` is about commands and rows: the command that runs has the lock and its call is about its
execution (`RunFits`); every row, stored or on its way, is of the past of its execution (`RowsArePast`,
by the order `Onward` of the statuses); and until two commands have rows of one execution at once, its
row is up to date, or on its way in one command, or the call in progress may still change it
(`RowsFollow`). The three properties follow directly.

**Chains.** `ChainInv` is `EngineInv` and what the run knows: the chain it runs is approved and
executing (`RunFits`), the steps done are over, are executions of their own and ran the action their
template names (`StepsFit`, `StepsRan`, `Owned`), the step in progress is the one after them
(`StepInCall`), none of them failed unless the chain continues (`SoFarSoGood`), and which of the steps
`rollback_all` has gone back over are undone or have a failed reversal (`UndoFits`,
`UndoneOrReported`). A fact about the table of templates carries the proof of `UndoneOrReported`: every
step that another one follows can be reversed (`TemplateTable`), so only a last step may stay as it was
without saying so. `VerdictStands` and `NewestUndoneFirst` are action properties and follow from
`ChainInv` before the step.

**Sync.** `DeliveryInv` says that an event a guest has handed over is in exactly one place: with one
sync, in the registry once, or lost. `CompareInv` is about comparisons: as long as no sync has stored
while another was under way, what was listed, stored, found and applied follows the order of listing
(`InOrder`), and as long as none failed half way, the stored topology is no older than any change in
the registry (`NotedStored`), so that the next comparison starts behind all of them. It needs what the
resolver makes of the rows of one Deployment, which the lemmas on `LatestTopologyFacts`,
`RewriteByCorrelationKey`, `FactsToGraph` and `DetectChanges` work out. An attempt to prove an earlier
form of `ChangesOnce` led to the run of section 4 in which it was false.

**Scheduler.** `RowsFollow` speaks of moments without a write; between them `RowsMean` says what each
outstanding write is about to do: a clone that waits to be stored is still the registry entry, a
subscription being created is in neither or in the row alone, one being deleted is in the row alone,
and two writers of one row have been noted in `loose`. `FiredOnce` is about the moment a tick is
decided, and its argument runs through a whole round: a firing is later than the last run
(`NextFiringIsNear`), the last run is no older than the newest mail, or the run that sent it is about
to be recorded (`LastMeans`), what is left of a tick is answered in order and is no older than the
loop is late (`TickMeans`), and a subscription created under the id of a deleted one is newer than
what is still done for that one (`CreateMeans`). Times age as the clock moves and stay at `MaxLag`;
`AgeAlike` shows that this keeps the order, and needs the assumption on `MaxLag`.

**Proxy.** `IInv` is `ProxyTypeOK`, which has that no two holders share a child, `HandlesMeanChildren` (a
child that is held has been spawned, nothing is stranded while the application is up) and `NoStray`. Most
steps are those of one command over handles only: `OthersKeepTheirs` says once what such a step must do
with the child of the command and the handle it replaces, and each action is an instance. For
`AnswersTrue`, `NoStray` accounts for every living child when one command ends and the others are idle:
it is in `AppState`, dying, or that command's own.

**Console.** The inductive invariant has four parts.

* `EventsInv`, of the registries: the n changes have each an id of their own among one to n, the table
  holds the same changes, whatever changed too often within the window before now is tagged, and alerts
  are of one form with integer times. Recording appends one change after another; that each of them
  keeps the tags is a fact about every prefix, for which `LeastNatural` (a set of natural numbers has a
  least one) stands in for induction: there is no first prefix at which it fails. After a restart the
  changes come back newest first, and `ReadBackOnce` shows that they are still as many, each under its
  own id.
* `TopologyInv`, of the tables: the rows are of the past and have the shape their connector gives them
  (`FactsOK`: which kinds of ids, types and keys, which edges between which), the topology has such
  nodes and edges (`TopologyOK`) and the resources of the rows (`RowsShown`), and it shows the world of
  the last sync (`GraphShows`: owners, mounts, routes, parents, calls, builds).
* `PollInv`, of the changes that a sync found: everyone who depended on the target was reached, the
  Deployments among them at no greater distance than any other, and the target is still in the topology.
* `ReportInv`, of what a report counts: the tables are finite, a pod that crash-loops in the cluster is
  shown as critical whatever was measured of it (`CrashShown`), and there is one application, which
  contains every component (`ApplicationShown`).

That the topology shows the world whatever was stored before is the longest argument. A sync stores a
fact for each object of the world under the current time, and the newest row of a resource wins
(`TopologyProofs`). The resolver then merges resources that share a key, so each edge has to survive
the rewriting: `Stands` is the resource that stands for another in the graph, and `StandsKeeps` shows
that it is the same one except for images, because only images get keys that two resources can share.
For images, a cluster is exactly the images of one normal form (`ClustersAre`), its winner is found
among finitely many ids (`WinnerIsThere`), and since they have the same attributes filling these in
changes nothing; so a repository and a container that name one image differently end at one node.
Finally the difference of two topologies, applied to the older, gives the newer one
(`SyncStoresComputed`).

The searches have fixed depths, at most four for a propagation, so they are unrolled one distance at a
time. A user of a ConfigMap is one step away, its Deployment two, and `OwnersNearest` shows that no
Deployment is nearer, since no kind of edge leads from a Deployment to a ConfigMap; that is why the
suggestion, which takes the nearest, takes the right ones. `CorrelatesBothWays` shows that a search
which compares instants over one window and one which compares strings over a window at least as wide
agree, on whole seconds, up to the distance in time that tells the windows apart. `CallsAttach` is a fact
about two naming rules, proved case by case on the ends of a name. `HealthIsCurrent` is inductive on
top of the other parts, once split by the synced world (`HealthShown`).

`ReportsTellOfTrouble` counts and sorts. The pods that crash-loop map one to one into the critical
risks, as the ids of pods differ when their names do, so there are at least as many risks, and the score
is at most that much lower (`CrashesTold`). A sorted list is defined by places, each of which counts
those before it: the counts differ, so they are all the numbers below the length, and every item is
somewhere, in order (`PlacesCounted`, `SortedHolds`); no induction over the list is needed. The order of
the timeline is that of strings, which is that of the seconds and no finer (`LexicalSeconds`).

`ChangesAreKept`, `SyncStoresComputed` and `ResourcesAreKept` are stated for the proof alone: no run
checks them.

What the proofs changed in the models: a choice between two cases that overlapped in `Phase` and
`Kind`; when a sync counts as having overlapped another; two events of one Deployment that had become
one change; facts of two metrics of one resource that had shared an id; and alerts without a time.

Model-checked only:

* all liveness (`AutoRollbackResolves`, `CommandsAnswer`, `ChainEnds`, `Converges`, `CatchesUp`,
  `CommandsEnd`), since TLAPS does not reason about `ENABLED` and with it about fairness.

Every safety property and every action property of the passing runs is proved.

## 6. Not modelled, and what could follow

* The rows of chains (`persist_chain`) and the limit of 1000 rows on load: a restart ends every chain
  and only a list reads its row; the limit is out of reach of small instances.
* Rendering of reports, SQL and Parquet encoding, SMTP, WIT bindings, the WASM host, the command line,
  the configuration form, the user interface: pure input and output, or no state that others depend on.
* Manifests of some languages in code-repo, and the parameters and request bodies of handlers other
  than the scale.

Larger instances that could follow: two subscriptions with different periods, and two changes of the
cluster in `sync`, both beyond the time a run is given here.
