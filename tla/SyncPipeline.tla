----------------------------- MODULE SyncPipeline -----------------------------
(***************************************************************************)
(* One sync of the desktop application (commands/wasm.rs run_sync), as it  *)
(* is run by the background loop (sync_loop.rs) and by a click on "sync    *)
(* now", which nothing keeps apart: every await of one may fall between    *)
(* two awaits of the other.                                                *)
(*                                                                         *)
(* The cluster has a Deployment whose replicas change.  The k8s connector  *)
(* lists it; k8s-events hands over, once each, the events the changes      *)
(* leave.  Both reach the cluster through the same API, which can be down. *)
(*                                                                         *)
(* Waiting is untimed: the loop's interval and its backoff (which only     *)
(* lengthens the wait) are a wait of any length.                           *)
(***************************************************************************)
EXTENDS Identity, Bags

CONSTANTS
    MaxChanges,   \* bound on changes of the Deployment
    MaxClock,     \* bound on the clock, in seconds that matter
    MaxFaults,    \* bound on failed storage calls, outages of the API and restarts
    MaxClicks,    \* bound on manual syncs
    Retention     \* how old a row may be when the facts are pruned

ASSUME SyncAssumption ==
    /\ {MaxChanges, MaxClock, MaxFaults, MaxClicks} \subseteq Nat
    /\ Retention \in Nat

VARIABLES
    replicas,     \* the Deployment in the cluster; its nth change leaves event n
    apiUp,        \* whether the API answers
    clock,
    rows,         \* table facts
    stored,       \* tables topology_nodes and topology_edges
    firstSyncDone,
    registry,     \* change events in memory, a bag
    eventRows,    \* table change_events, a bag
    baselined, seen,  \* state of the k8s-events guest
    recent,       \* connectors tried less than their interval ago
    sync,         \* progress of each caller
    faults, clicks,
    \* history: replicas at process start; events handed over and events lost;
    \* whether a sync has listed and applied since the start; whether one wrote while
    \* another was under way, and whether one failed after it had recorded
    startedAt, handed, lost, settled, overlapped, halfway

world == <<replicas, apiUp>>
tables == <<rows, stored, eventRows>>
memory == <<firstSyncDone, registry>>
guest == <<baselined, seen, recent>>
history == <<startedAt, handed, lost, settled, overlapped, halfway>>
vars == <<world, clock, tables, memory, guest, sync, faults, clicks, history>>

Callers == {"manual", "loop"}
Connectors == {"k8s", "k8s-events"}
Deploy == <<"deploy", "api">>

\* The stages are the awaits of run_sync, each named for what comes next; a caller
\* that does nothing is about to begin ("connectors", "facts", "resolve", "diff",
\* "apply").
NoChangeSet == Diff(NoTopology, NoTopology)

Quiet ==
    [stage |-> "connectors", listed |-> FALSE, facts |-> {}, events |-> {}, next |-> NoTopology,
     changes |-> NoChangeSet]

Stage(c) == sync[c].stage
Count(e, bag) == IF BagIn(e, bag) THEN bag[e] ELSE 0
Recorded(e) == Count([source |-> "fact", event |-> e], registry)

\* A row of the facts table for the Deployment, stored when it was collected.
RowOf(n, ts) ==
    [kind |-> "topology-node", source |-> "k8s", rid |-> Deploy, type |-> "Deployment",
     ts |-> ts, attrs |-> [replicas_desired |-> n], ins |-> ts]

\* The application is new, or ran before and left what it last saw; the cluster may
\* have changed since.
Init ==
    /\ replicas \in 0..Min({1, MaxChanges})
    /\ rows \in {{}, {RowOf(0, 0)}}
    /\ stored = Resolve(LatestTopologyFacts(rows))
    /\ startedAt = replicas
    /\ apiUp = TRUE
    /\ clock = 1
    /\ firstSyncDone = FALSE
    /\ registry = EmptyBag
    /\ eventRows = EmptyBag
    /\ baselined = FALSE
    /\ seen = {}
    /\ recent = {}
    /\ sync = [c \in Callers |-> Quiet]
    /\ faults = 0
    /\ clicks = 0
    /\ handed = {}
    /\ lost = {}
    /\ settled = FALSE
    /\ overlapped = FALSE
    /\ halfway = FALSE

-----------------------------------------------------------------------------
(* The cluster and time *)

ClusterChanges ==
    /\ replicas < MaxChanges
    /\ replicas' = replicas + 1
    /\ UNCHANGED <<apiUp, clock, tables, memory, guest, sync, faults, clicks, history>>

ApiFails ==
    /\ apiUp
    /\ faults < MaxFaults
    /\ faults' = faults + 1
    /\ apiUp' = FALSE
    /\ UNCHANGED <<replicas, clock, tables, memory, guest, sync, clicks, history>>

ApiReturns ==
    /\ ~apiUp
    /\ apiUp' = TRUE
    /\ UNCHANGED <<replicas, clock, tables, memory, guest, sync, faults, clicks, history>>

Tick ==
    /\ clock < MaxClock
    /\ clock' = clock + 1
    /\ UNCHANGED <<world, tables, memory, guest, sync, faults, clicks, history>>

\* Both connectors have the interval of thirty seconds.
IntervalPasses ==
    /\ recent # {}
    /\ recent' = {}
    /\ UNCHANGED <<world, clock, tables, memory, baselined, seen, sync, faults, clicks, history>>

-----------------------------------------------------------------------------
(* The connectors *)

\* A scheduled sync leaves out a connector tried less than its interval ago; a
\* failed try counts.
Due(c, k) == c = "manual" \/ k \notin recent

\* What the k8s connector makes of the cluster; without an answer the lists are
\* empty, and so is the batch.
Listed ==
    IF ~apiUp THEN {}
    ELSE {[kind |-> "topology-node", source |-> "k8s", rid |-> Deploy, type |-> "Deployment",
           ts |-> clock, attrs |-> [replicas_desired |-> replicas]]}

\* Mutant: the first answered list is handed over like any other.
FreshUnseeded == 1..replicas \ seen

\* The k8s-events guest: the first list that is answered only seeds the seen set;
\* later ones hand over what it does not hold.
Fresh == IF baselined THEN 1..replicas \ seen ELSE {}

SyncK8sEvents ==
    IF apiUp
    THEN /\ seen' = seen \cup 1..replicas
         /\ baselined' = TRUE
    ELSE UNCHANGED <<seen, baselined>>

\* The connectors that are due, one after the other; the cluster is taken to stand
\* still meanwhile.  The user may click once more, or not.
SyncInner(c) ==
    LET due == {k \in Connectors : Due(c, k)}
        events == IF "k8s-events" \in due /\ apiUp THEN Fresh ELSE {}
    IN /\ Stage(c) = "connectors"
       /\ IF c = "manual" THEN clicks < MaxClicks /\ clicks' = clicks + 1 ELSE UNCHANGED clicks
       /\ recent' = recent \cup due
       /\ IF "k8s-events" \in due THEN SyncK8sEvents ELSE UNCHANGED <<seen, baselined>>
       /\ handed' = handed \cup events
       /\ sync' = [sync EXCEPT ![c].stage = "facts", ![c].events = events,
                               ![c].listed = "k8s" \in due /\ apiUp,
                               ![c].facts = IF "k8s" \in due THEN Listed ELSE {}]
       /\ UNCHANGED <<world, clock, tables, memory, faults, startedAt, lost, settled, overlapped, halfway>>

-----------------------------------------------------------------------------
(* The pipeline *)

\* The sync returns an error; what it held is gone.
Fail(c) ==
    /\ faults < MaxFaults
    /\ faults' = faults + 1
    /\ sync' = [sync EXCEPT ![c] = Quiet]

\* Another sync is under way: what it has read may be older or newer.
Overlaps(c) == \E d \in Callers \ {c} : Stage(d) # "connectors"

StoreFacts(c) ==
    /\ Stage(c) = "facts"
    /\ \/ /\ rows' = UpsertFacts(rows, sync[c].facts, clock)
          /\ sync' = [sync EXCEPT ![c].stage = "resolve", ![c].facts = {}]
          /\ overlapped' = (overlapped \/ Overlaps(c))
          /\ UNCHANGED <<faults, lost>>
       \/ /\ Fail(c)
          /\ lost' = lost \cup sync[c].events
          /\ UNCHANGED <<rows, overlapped>>
    /\ UNCHANGED <<world, clock, stored, eventRows, memory, guest, clicks,
                   startedAt, handed, settled, halfway>>

ResolveFacts(c) ==
    /\ Stage(c) = "resolve"
    /\ sync' = [sync EXCEPT ![c].stage = "diff",
            ![c].next = MergeMetricHealth(Resolve(LatestTopologyFacts(rows)), LatestMetricFacts(rows))]
    /\ UNCHANGED <<world, clock, tables, memory, guest, faults, clicks, history>>

\* What is recorded: the changes found by comparing, unless this is the first
\* sync to come so far, and those a connector handed over, whatever the flag says.
ToRecord(c) ==
    LET found == IF firstSyncDone THEN DetectChanges(stored, sync[c].next) ELSE {}
    IN SetToBag({[source |-> "diff", event |-> f] : f \in found}
                  \cup {[source |-> "fact", event |-> e] : e \in sync[c].events})

\* The stored topology is read and compared, and the changes are added to the
\* registry and written.  A write that fails is a line in the log; one that the
\* process does not live to see leaves the same.
DiffAndRecord(c) ==
    LET events == ToRecord(c)
    IN /\ Stage(c) = "diff"
       /\ firstSyncDone' = TRUE
       /\ registry' = registry (+) events
       /\ \/ eventRows' = eventRows (+) events /\ UNCHANGED faults
          \/ /\ events # EmptyBag
             /\ faults < MaxFaults
             /\ faults' = faults + 1
             /\ UNCHANGED eventRows
       /\ sync' = [sync EXCEPT ![c].stage = "apply", ![c].events = {}, ![c].next = NoTopology,
                               ![c].changes = Diff(stored, sync[c].next)]
       /\ overlapped' = (overlapped \/ Overlaps(c))
       /\ UNCHANGED <<world, clock, rows, stored, guest, clicks,
                      startedAt, handed, lost, settled, halfway>>

Apply(c) ==
    /\ Stage(c) = "apply"
    /\ overlapped' = (overlapped \/ Overlaps(c))
    /\ \/ /\ stored' = ApplyChangeSet(stored, sync[c].changes)
          /\ sync' = [sync EXCEPT ![c] = Quiet]
          /\ settled' = (settled \/ sync[c].listed)
          /\ UNCHANGED <<faults, halfway>>
       \/ /\ Fail(c)
          /\ halfway' = TRUE
          /\ UNCHANGED <<stored, settled>>
    /\ UNCHANGED <<world, clock, rows, eventRows, memory, guest, clicks,
                   startedAt, handed, lost>>

\* The loop removes old rows between two of its syncs.
PruneFacts ==
    /\ Stage("loop") = "connectors"
    /\ rows' = DeleteFactsBefore(rows, clock - Retention)
    /\ rows' # rows
    /\ UNCHANGED <<world, clock, stored, eventRows, memory, guest, sync, faults, clicks, history>>

\* The process ends and starts again: the registry is what its table holds, the
\* guest begins anew.
Restart ==
    /\ faults < MaxFaults
    /\ faults' = faults + 1
    /\ firstSyncDone' = FALSE
    /\ registry' = eventRows
    /\ baselined' = FALSE
    /\ seen' = {}
    /\ recent' = {}
    /\ lost' = lost \cup {e \in handed : Count([source |-> "fact", event |-> e], eventRows) = 0}
    /\ sync' = [c \in Callers |-> Quiet]
    /\ startedAt' = replicas
    /\ settled' = FALSE
    /\ UNCHANGED <<world, clock, tables, clicks, handed, overlapped, halfway>>

Proceed(c) ==
    \/ SyncInner(c)
    \/ StoreFacts(c)
    \/ ResolveFacts(c)
    \/ DiffAndRecord(c)
    \/ Apply(c)

Next ==
    \/ ClusterChanges
    \/ ApiFails
    \/ ApiReturns
    \/ Tick
    \/ IntervalPasses
    \/ \E c \in Callers : Proceed(c)
    \/ PruneFacts
    \/ Restart

Spec == Init /\ [][Next]_vars

\* The loop sleeps and runs for as long as the process lives, and time passes.
Fairness == WF_vars(Proceed("loop")) /\ WF_vars(IntervalPasses)

FairSpec == Spec /\ Fairness

-----------------------------------------------------------------------------
(* Properties *)

Replicas(signals) == signals.replicas_desired
StoredReplicas == Attr(stored.nodes[Deploy], "replicas_desired", -1)

Once(p) == IF p THEN 1 ELSE 0

\* An event the k8s-events guest has handed over is in one place only: held by one
\* sync, recorded once, or lost with a sync that failed or a process that ended.
\* The guest marks an event as seen when it hands it over and not when it is
\* recorded; a guest that starts anew must not hand it over again.
HandedOverOnce ==
    \A e \in handed :
        Cardinality({c \in Callers : e \in sync[c].events}) + Recorded(e) + Once(e \in lost) = 1

\* When no sync wrote while another was under way, and none failed after it had
\* recorded, a change found by comparing topologies is a real one, from less to more
\* as the cluster went, and recorded once: two comparisons never start from the same
\* topology.
ChangesOnce ==
    ~overlapped /\ ~halfway =>
        \A e \in {r \in BagToSet(registry) : r.source = "diff"} :
            /\ Count(e, registry) = 1
            /\ Replicas(e.event.old) < Replicas(e.event.new)

FoundNow(e) == e.source = "diff" /\ Count(e, registry) < Count(e, registry')
MadeBeforeStart(e) == Replicas(e.event.new) <= startedAt

\* Once a sync has listed the cluster and applied, changes made before the process
\* started are never recorded as new ones.
HistoryStaysQuiet ==
    [][\A e \in BagToSet(registry') :
        FoundNow(e) /\ settled /\ ~overlapped => ~MadeBeforeStart(e)]_vars

\* Once the API stays up the stored topology comes to show the cluster, and stays
\* with it, whatever stale change set a sync applied meanwhile.
Converges ==
    <>[]apiUp => <>[](HasNode(stored, Deploy) /\ StoredReplicas = replicas)
===============================================================================
