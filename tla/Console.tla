-------------------------------- MODULE Console --------------------------------
(***************************************************************************)
(* What the console knows of a cluster: all connectors, the topology they  *)
(* add up to, and the changes and alerts that are recorded against it, by  *)
(* syncs and by the operator.                                              *)
(*                                                                         *)
(* A world is what every source answers at one time.  A sync is one step   *)
(* here, and storage does not fail: how syncs overlap and break off is the *)
(* subject of SyncPipeline.  Of the facts table, the rows that a newer row *)
(* hides are left out.                                                     *)
(***************************************************************************)
EXTENDS Connectors, Reports

CONSTANTS
    Worlds,        \* what the sources may answer, over time
    Requests,      \* changes an operator or another program records
    AlertRequests, \* alerts they record
    AlertWindow,   \* DEFAULT_ALERT_WINDOW_SECONDS, 600 in the code: the alerts of a change
    ChangeWindow,  \* DEFAULT_CHANGE_WINDOW_SECONDS, 300: the changes of an alert
    RelatedWindow, \* DEFAULT_CORRELATED_WINDOW_SECONDS, 300: the changes of a resource
    IncidentWindow,   \* the timeline of an incident report, 3600
    Start,         \* when the application is first started
    MaxClock, MaxMoves, MaxUser, MaxRestarts   \* bounds

Windows == {AlertWindow, ChangeWindow, RelatedWindow, IncidentWindow}

\* A time of 0 stands for none at all.  A window is one of whole seconds.
ASSUME ConsoleAssumption ==
    /\ Windows \cup {Start, MaxClock, MaxMoves, MaxUser, MaxRestarts} \subseteq Nat
    /\ \A w \in Windows : w % 2 = 0
    /\ ChangeWindow <= AlertWindow
    /\ Start % 2 = 0 /\ Start > 0
    /\ \A r \in Requests \cup AlertRequests : "at" \in DOMAIN r /\ r.at \in Int
    /\ \A r \in AlertRequests : r.severity \in {"critical", "warning"}
    /\ \A w \in Worlds :
        /\ \A e \in w.events : e.at \in Nat
        /\ \A a \in w.alerts : a.starts_at \in Nat
        /\ \A s \in w.samples : s.value \in Int
        /\ Callings(w.traces) \subseteq Seq(STRING) \X Seq(STRING)

\* What Kubernetes guarantees: in each list a name is that of one object; the
\* ReplicaSet of a Deployment has its name and a hash; the uid of an event tells
\* what the event is about.
ASSUME ClusterAssumption ==
    /\ \A w \in Worlds :
        /\ DOMAIN w.cluster = {"nodes", "deployments", "replicasets", "pods", "services",
                              "configmaps", "secrets"}
        /\ \A list \in DOMAIN w.cluster : \A o, p \in w.cluster[list] :
               o.name \in Seq(STRING) \ {<<>>} /\ (o.name = p.name => o = p)
        /\ \A s \in w.cluster.replicasets :
               s.deploy # <<>> => Len(s.name) > 1 /\ SubSeq(s.name, 1, Len(s.name) - 1) = s.deploy
    /\ \A v, w \in Worlds : \A e \in v.events, f \in w.events :
           e.uid = f.uid => e.kind = f.kind /\ e.name = f.name

\* The images of a world's containers, and those its repositories start from.
ImagesOf(w) == {c.image : c \in UNION {p.containers : p \in w.cluster.pods}}
SourceImagesOf(w) ==
    UNION {ParseDockerfile(w.tree[d].files["Dockerfile"]) :
              d \in {e \in Entered(w.tree, w.roots) : "Dockerfile" \in DOMAIN w.tree[e].files}}

ImageIds ==
    UNION {{ImageId(i) : i \in ImagesOf(w)} \cup {ImageRefId(i) : i \in SourceImagesOf(w)} : w \in Worlds}

\* There are finitely many images, and their ids are in order.
ASSUME ImagesAssumption ==
    /\ \A w \in Worlds : \A i \in ImagesOf(w) \cup SourceImagesOf(w) :
           i = [host |-> i.host, repo |-> i.repo, tag |-> i.tag, digest |-> i.digest]
    /\ IsFiniteSet(ImageIds)
    /\ \A a, b \in ImageIds : a # b => (RidLess(a, b) <=> ~RidLess(b, a))
    /\ \A a, b, c \in ImageIds : RidLess(a, b) /\ RidLess(b, c) => RidLess(a, c)

VARIABLES
    clock,         \* in half seconds, and always a whole second
    world,
    rows,          \* table facts
    topology,      \* tables topology_nodes and topology_edges
    guests,        \* what the connectors remember
    firstSyncDone,
    changes,       \* ChangeRegistry
    changeRows,    \* table change_events, by id
    alerts,        \* AlertRegistry
    alertRows,     \* table alert_events, by id
    \* history: the world of the last sync since the world moved; for each
    \* change, by id, the resources that depended on its target in the cluster
    synced, dependents,
    moves, user, restarts

sync == <<rows, topology, guests, firstSyncDone, synced>>
events == <<changes, changeRows, dependents, alerts, alertRows>>
bounds == <<moves, user, restarts>>
vars == <<clock, world, sync, events, bounds>>

Forgotten ==
    [k8sEvents |-> [baselined |-> FALSE, seen |-> {}], flagd |-> [flags |-> {}],
     alertmanager |-> [seen |-> {}]]

NoAlerts == <<>>

Init ==
    /\ clock = Start
    /\ world \in Worlds
    /\ rows = {}
    /\ topology = NoTopology
    /\ guests = Forgotten
    /\ firstSyncDone = FALSE
    /\ changes = <<>>
    /\ changeRows = <<>>
    /\ dependents = <<>>
    /\ alerts = NoAlerts
    /\ alertRows = <<>>
    /\ synced = {}
    /\ moves = 0
    /\ user = 0
    /\ restarts = 0

Tick ==
    /\ clock < MaxClock
    /\ clock' = clock + 2
    /\ UNCHANGED <<world, sync, events, bounds>>

WorldMoves ==
    /\ moves < MaxMoves
    /\ moves' = moves + 1
    /\ world' \in Worlds \ {world}
    /\ synced' = {}
    /\ UNCHANGED <<clock, rows, topology, guests, firstSyncDone, events, user, restarts>>

-----------------------------------------------------------------------------
(* A sync *)

\* The facts of all connectors; those that fail add nothing.
Batch(w, now) ==
    SyncK8s(w.cluster, w.unanswered, now)
      \cup SyncJaeger(w.traces, w.answered, now)
      \cup SyncCodeRepo(w.tree, w.roots, now)
      \cup SyncPrometheus(w.samples, {}, now)

\* A sync finds finitely many facts, whatever the clock shows.
ASSUME FactsAssumption ==
    \A w \in Worlds : \A now \in {Start} \cup Start..(MaxClock + 1) : IsFiniteSet(Batch(w, now))

Reported ==
    [k8sEvents |-> SyncK8sEvents(guests.k8sEvents, world.events, clock),
     flagd |-> SyncFlagd(guests.flagd, world.flags),
     alertmanager |-> SyncAlertmanager(guests.alertmanager, world.alerts)]

\* A change that was found or reported, as a request without a time.
Request(c) ==
    [change_type |-> c.change_type, target |-> c.target, source |-> c.source, at |-> 0]

\* Each is recorded upon those before it.
RecordAll(registry, found, next) ==
    LET reg[i \in 0..Len(found)] ==
            IF i = 0 THEN registry ELSE RecordChange(reg[i - 1], next, Request(found[i]), clock)
    IN reg[Len(found)]

\* What is found or reported, which is finite, in some order.
Listed(S) == IF IsFiniteSet(S) THEN SetToSeq(S) ELSE <<>>

\* The rows by id, written in this order.
UpsertEvents(stored, list) ==
    Filled([id \in {e.id : e \in Range(list)} |->
                list[Max({i \in DOMAIN list : list[i].id = id})]], stored)

\* What was recorded last.
Added(registry, new) == SubSeq(new, Len(registry) + 1, Len(new))

\* What the API says of a world's cluster.
Lists(w) == Answers(w.cluster, w.unanswered)

Owners(pods, lists) ==
    {DeployId(d) : d \in {e.name : e \in lists.deployments}
                            \cap UNION {DeployOf(p.rs, lists.replicasets) : p \in pods}}

\* The pods that take the resource whole.
Users(lists, r) ==
    {p \in lists.pods : r \in {ConfigMapId(c) : c \in CmRefs(p)} \cup {SecretId(s) : s \in SecretRefs(p)}}

\* These pods, the Deployments they belong to, and the services that route to them,
\* as far as the API says.
Dependents(w, r) ==
    LET pods == Users(Lists(w), r)
    IN {PodId(p.name) : p \in pods} \cup Owners(pods, Lists(w))
         \cup {ServiceId(s.name) : s \in {t \in Lists(w).services :
                                              \E p \in pods : LabelsMatch(p.labels, t.selector)}}

\* run_sync: facts, graph, metric health, changes found (not by the first sync),
\* changes and alerts reported, and last the topology.
Sync ==
    LET stored == UpsertFacts(rows, Batch(world, clock), clock)
        latest == LatestTopologyFacts(stored)
        metrics == LatestMetricFacts(stored)
        next == MergeMetricHealth(Resolve(latest), metrics)
        found == IF firstSyncDone THEN DetectChanges(topology, next) ELSE {}
        requests == Listed(found) \o Listed(Reported.k8sEvents.changes) \o Listed(Reported.flagd.changes)
        fresh == Listed(Reported.k8sEvents.alerts) \o Listed(Reported.alertmanager.alerts)
    IN /\ rows' = latest \cup metrics
       /\ guests' = [g \in DOMAIN guests |-> Reported[g].memory]
       /\ firstSyncDone' = TRUE
       /\ changes' = RecordAll(changes, requests, next)
       /\ changeRows' = UpsertEvents(changeRows, Added(changes, changes'))
       /\ dependents' = dependents \o [i \in 1..(Len(changes') - Len(changes)) |->
                            Dependents(world, changes'[Len(changes) + i].target)]
       /\ alerts' = alerts \o fresh
       /\ alertRows' = UpsertEvents(alertRows, fresh)
       /\ topology' = ApplyChangeSet(topology, Diff(topology, next))
       /\ synced' = {world}
       /\ UNCHANGED <<clock, world, bounds>>

-----------------------------------------------------------------------------
(* Commands *)

\* A time given by its distance from now; without one it is now.
At(offset) == clock + offset

\* record_change_event: against the topology of the last sync; an invalid
\* request is turned away.
RecordChangeEvent ==
    /\ user < MaxUser
    /\ user' = user + 1
    /\ \E r \in Requests :
        changes' = RecordChange(changes, topology, [r EXCEPT !.at = At(@)], clock)
    /\ changeRows' = UpsertEvents(changeRows, Added(changes, changes'))
    /\ dependents' = IF changes' = changes THEN dependents ELSE Append(dependents, {})
    /\ UNCHANGED <<clock, world, sync, alerts, alertRows, moves, restarts>>

\* record_alert: any severity or status that is not known is critical, firing.
RecordAlert ==
    /\ user < MaxUser
    /\ user' = user + 1
    /\ \E r \in AlertRequests :
        LET alert == [id |-> <<"alert", user'>>, ref |-> r.ref, severity |-> r.severity,
                      status |-> "firing",
                      fired_at |-> At(r.at)]
        IN /\ alerts' = Append(alerts, alert)
           /\ alertRows' = UpsertEvents(alertRows, <<alert>>)
    /\ UNCHANGED <<clock, world, sync, changes, changeRows, dependents, moves, restarts>>

\* resolve_alert: the first of the id.
ResolveAlert ==
    /\ user < MaxUser
    /\ user' = user + 1
    /\ \E i \in DOMAIN alerts :
        /\ \A j \in 1..(i - 1) : alerts[j].id # alerts[i].id
        /\ alerts' = [alerts EXCEPT ![i].status = "resolved"]
        /\ alertRows' = UpsertEvents(alertRows, <<alerts'[i]>>)
    /\ UNCHANGED <<clock, world, sync, changes, changeRows, dependents, moves, restarts>>

\* Newest first, as strings; of one time in any order.
NewestFirst(stored, time) ==
    {list \in SetToSeqs(Range(stored)) :
        \A i, j \in DOMAIN list : i < j => Lexical(list[i][time]) >= Lexical(list[j][time])}

ListChangeEvents(stored) == NewestFirst(stored, "at")
ListAlertEvents(stored) == NewestFirst(stored, "fired_at")

\* The registries are read back, which is all of them below the limit of 1000
\* rows; the connectors and the flag start anew, the tables stay.
Restart ==
    /\ restarts < MaxRestarts
    /\ restarts' = restarts + 1
    /\ changes' \in ListChangeEvents(changeRows)
    /\ alerts' \in ListAlertEvents(alertRows)
    /\ guests' = Forgotten
    /\ firstSyncDone' = FALSE
    /\ UNCHANGED <<clock, world, rows, topology, changeRows, dependents, alertRows, synced, moves, user>>

Command == RecordChangeEvent \/ RecordAlert \/ ResolveAlert

Next == Tick \/ WorldMoves \/ Sync \/ Command \/ Restart

Spec == Init /\ [][Next]_vars

-----------------------------------------------------------------------------
(* Properties *)

TargetsOf(w) ==
    {ConfigMapId(o.name) : o \in Lists(w).configmaps} \cup {SecretId(o.name) : o \in Lists(w).secrets}

\* Found by a sync, and not recorded by a user.
FoundByPoll(c) == c.source = "k8s_api" /\ c.change_type \in {"configmap_updated", "secret_rotated"}

\* A change of a ConfigMap or a Secret that a sync finds is recorded with everyone
\* who used it in the cluster at that time: the pods that mount it or take it
\* as environment, their Deployments and the services in front of them; and it is
\* among the changes that concern any of these.  It takes
\* the edges of four parts of the mapper, found again by the search of another
\* crate (mapper.rs map_pods, map_services; propagation.rs derive_propagation).
ConfigChangeReachesUsers ==
    \A i \in DOMAIN changes :
        LET c == changes[i]
            during == CorrelatedWindow(RelatedWindow, c.at, 0, clock)
        IN FoundByPoll(c) =>
            /\ dependents[c.id] \subseteq DOMAIN c.propagated
            /\ \A r \in dependents[c.id] :
                   c \in {m.event : m \in CorrelatedChanges(changes, topology, r, during, TRUE)}

\* For such a change a rollback is suggested of every Deployment that used the
\* resource and still does: none that is reached is nearer.  The preview takes every
\* suggested action with every suggested target, and counts among those affected the
\* pods of a Deployment that is to be rolled back.  A pod that is gone stays in the
\* topology, and so a Deployment that does not use the resource any more may be
\* suggested too (suggestions.rs, cascade.rs).
SuggestedRollbackFits ==
    \A i \in DOMAIN changes : \A w \in synced :
        LET c == changes[i]
            users == dependents[c.id] \cap Dependents(w, c.target)
            deployments == {r \in users : r[1] = "deploy"}
            suggested == GetRecoverySuggestion(changes, topology, c.id)
            targets == suggested["rollback_deployment"]
        IN FoundByPoll(c) /\ deployments # {} =>
               /\ deployments \subseteq targets
               /\ \A a \in DOMAIN suggested :
                      suggested[a] # {} /\ \A t \in suggested[a] : DryRun(topology, a, t, 0).valid
               /\ \A p \in Lists(w).pods : \A t \in targets \cap Owners({p}, Lists(w)) :
                      PodId(p.name) \in DOMAIN DryRun(topology, "rollback_deployment", t, 0).affected

\* The resource an event of the cluster is about: a ReplicaSet stands for the
\* Deployment that owns it.
Subjects(ev, w) ==
    CASE ev.kind = "ReplicaSet" -> {DeployId(d) : d \in DeployOf(ev.name, w.cluster.replicasets)}
      [] ev.kind = "Deployment" -> {DeployId(ev.name)}
      [] ev.kind = "Pod" -> {PodId(ev.name)}
      [] OTHER -> {}

\* A warning event of something that used a ConfigMap or Secret when it changed
\* is among the alerts of the change, and the change among those of the event, each
\* within its window; the time of an event is a whole second (metav1.Time), if there
\* is one.  The event names a ReplicaSet, the change a Deployment, in two connectors
\* that cannot ask each other (k8s-events mapper.rs target_resource_id,
\* alert_correlation.rs).
AlertsFindTheirCause ==
    \A w \in Worlds : \A ev \in w.events : \A k \in DOMAIN alerts : \A i \in DOMAIN changes :
        LET a == Get(alerts, alerts[k].id)
            c == changes[i]
            concern ==
                /\ a.fired_at > 0 /\ a.fired_at % 2 = 0
                /\ a.id[1] = "k8s-events" /\ a.id[2] = ev.uid
                /\ FoundByPoll(c) /\ Subjects(ev, w) \cap dependents[changes[i].id] # {}
            apart == SecondsBetween(c.at, a.fired_at)
        IN concern =>
                /\ apart <= AlertWindow \div 2 => a \in CorrelateAlerts(changes, alerts, c.id, AlertWindow)
                /\ apart <= ChangeWindow \div 2 =>
                       c \in CorrelateChangesForAlert(changes, alerts, a.id, ChangeWindow)

\* A change is among those of an alert exactly if the alert is among those of the
\* change and no further from it than the changes of an alert may be: the two
\* commands look as far as their own windows, so that an alert may be found from
\* a change that is not found from the alert, and never the other way round.  Asked
\* with one window they agree.  The one command compares instants and the other
\* strings, over ends that are computed anew (alert_correlation.rs, iso.rs,
\* commands/alerts.rs).  Times with a fraction, which alertmanager writes, are
\* left out, and alerts without a time, which go with no change while every change
\* goes with them.  An alert that is reported again after a restart is looked up
\* as the first of its id.
CorrelationIsMutual ==
    \A k \in DOMAIN alerts : \A i \in DOMAIN changes :
        LET a == Get(alerts, alerts[k].id)
            c == changes[i]
        IN a.fired_at > 0 /\ a.fired_at % 2 = 0 /\ c.at % 2 = 0 =>
            \A near, far \in {ChangeWindow, AlertWindow} : near <= far =>
                (c \in CorrelateChangesForAlert(changes, alerts, a.id, near)
                   <=> /\ a \in CorrelateAlerts(changes, alerts, c.id, far)
                       /\ SecondsBetween(c.at, a.fired_at) <= near \div 2)

\* A traced service is named as its Deployment without the release prefix; either of
\* the names may end in "service" where the other does not.
NamedAfter(s, d) ==
    /\ Len(d) > 1 /\ d = <<Release>> \o Tail(d)
    /\ \/ s = Tail(d)
       \/ s[Len(s)] # "service" /\ Tail(d) = s \o <<"service">>
       \/ d[Len(d)] # "service" /\ s = Tail(d) \o <<"service">>

\* Enough calls from one traced service to another are a CALLS edge between the
\* components of the Deployments these services are named after, unless the two are
\* one component.  jaeger and k8s name them each by rules of its own (jaeger mapper.rs
\* service_to_component_id, k8s mapper.rs normalize_component_name).
CallsAttach ==
    \A w \in synced :
        \A c \in {d \in Callings(w.traces) : CallCount(w.traces, w.answered, d[1], d[2]) >= CallThreshold} :
        \A caller, callee \in {d.name : d \in {e \in Lists(w).deployments : IsComponent(e.name)}} :
            NamedAfter(c[1], caller) /\ NamedAfter(c[2], callee) /\ ComponentOf(caller) # ComponentOf(callee) =>
                {Edge(ComponentOf(caller), DeployId(caller), "DEPLOYED_AS"),
                 Edge(ComponentOf(callee), DeployId(callee), "DEPLOYED_AS"),
                 Edge(ComponentOf(caller), ComponentOf(callee), "CALLS")} \subseteq topology.edges

\* The same image: the registry of Docker may be left out, a digest says no more
\* than the tag.
HostOf(image) == IF image.host = "docker.io" THEN "" ELSE image.host
TagOf(image) == IF image.tag = "" THEN "latest" ELSE image.tag

SameImage(i, j) == HostOf(i) = HostOf(j) /\ i.repo = j.repo /\ TagOf(i) = TagOf(j)

\* A repository and a container that name one image in different ways meet at one
\* node: the correlation of the two connectors' images and the rewriting of both
\* their edges (correlation.rs, normalize_image_ref in two mappers).
BuildsReachPods ==
    \A w \in synced : \A p \in Lists(w).pods : \A c \in {b \in p.containers : b.image.repo # ""} :
        \A d \in {e \in Entered(w.tree, w.roots) : "Dockerfile" \in DOMAIN w.tree[e].files} :
        \A i \in ParseDockerfile(w.tree[d].files["Dockerfile"]) :
            SameImage(i, c.image) =>
                \E r \in DOMAIN topology.nodes :
                    {Edge(RepoId(w.tree[d].name), r, "BUILDS"),
                     Edge(ContainerId(p.name, c.name), r, "USES_IMAGE")} \subseteq topology.edges

\* A resource that changed too often within the window up to now has a change that
\* says so, and no such change is of low severity, in whatever order the changes
\* of the past were recorded (frequency.rs).
FrequentTargetsAreTagged ==
    \A t \in DetectFrequentChanges(changes, clock, FrequencyWindow, FrequencyThreshold) :
        \E i \in DOMAIN changes :
            changes[i].target = t /\ changes[i].frequent /\ changes[i].severity # "low"

\* What is measured shows the worst of what the last sync measured, and of what the
\* cluster says of a pod: a recovery is seen as well as a failure, unless another sync
\* of the same second measured something else, which the last measurement then still
\* has (health_merge.rs, latest_metric_facts).
HealthIsCurrent ==
    \A w \in synced :
        LET Own(s) == {PodHealth(p) : p \in {q \in Lists(w).pods : PodId(q.name) = ResolveTarget(s)}}
            Measured(s) == {DeriveMetricHealth(f) :
                               f \in {g \in SyncPrometheus(w.samples, {}, clock) :
                                         g.rid = ResolveTarget(s) /\ Derivable(g)}}
            metrics == {r \in rows : r.kind = "metric"}
            alone == \A m \in metrics : (\A n \in metrics : n.ts <= m.ts) =>
                         FactId(m) \in {FactId(f) : f \in SyncPrometheus(w.samples, {}, m.ts)}
        IN \A s \in {t \in w.samples : alone /\ HasNode(topology, ResolveTarget(t))} :
            LET said == Measured(s) \cup Own(s)
                shown == topology.nodes[ResolveTarget(s)].attrs.health_status
            IN Measured(s) # {} /\ (s.target = "pod" => Own(s) # {}) =>
                /\ shown \in said
                /\ \A h \in said : SeverityRank(h) <= SeverityRank(shown)

\* The views show those who depend on what they start from: a ConfigMap or Secret
\* its users, a node and an image the pods on it and their Deployments, a service
\* the pods and Deployments behind it; and the graph of alerts shows what the
\* resources with a firing alert use (views.rs, alert_correlation.rs).
ViewsShowDependents ==
    \A w \in synced :
        LET pods == Lists(w).pods
            Whole(p) == {PodId(p.name)} \cup Owners({p}, Lists(w))
        IN /\ \A r \in TargetsOf(w) : Dependents(w, r) \subseteq DOMAIN ConfigImpact(topology, r).nodes
           /\ \A n \in Lists(w).nodes : \A p \in {q \in pods : q.node = n.name} :
                  Whole(p) \subseteq DOMAIN NodeImpact(topology, NodeId(n.name)).nodes
           /\ \A p \in pods : \A c \in {b \in p.containers : b.image.repo # ""} :
                  \E r \in ListResourcesByTypes(topology, {"ContainerImage"}) :
                      /\ SameImage(topology.nodes[r].attrs.image, c.image)
                      /\ Whole(p) \subseteq DOMAIN ImageRisk(topology, r).nodes
           /\ \A s \in Lists(w).services : \A p \in pods :
                  LabelsMatch(p.labels, s.selector) =>
                      Whole(p) \subseteq DOMAIN AccessLink(topology, ServiceId(s.name)).nodes
           /\ \A r \in TargetsOf(w) : \A a \in Range(alerts) :
                  a.status = "firing" /\ a.ref \in Dependents(w, r) =>
                      r \in AlertAggregationGraph(alerts, topology, {"critical", "warning"}, 2).nodes

\* Deployments that are a component of the application.
Components(w) == {DeployId(d) : d \in {e.name : e \in {b \in Lists(w).deployments : IsComponent(b.name)}}}

\* Reports tell of what is wrong.  A pod of a component that crash-loops is a
\* critical risk of the application, which costs it ten points, and the application
\* is at the head of the overview.  A change that was found and whose users
\* still use the resource is among the changes of the application if one of them
\* is a component; its own report tells of these users, of every change of them and of
\* its target in the window, and of a recovery of them that followed, in the order of
\* time, by the second, as a fraction of a second sorts before the second itself
\* (change_event_impact, health_score.rs, gatherers.rs, cluster_gatherers.rs, incident_gatherers.rs).
ReportsTellOfTrouble ==
    LET Scope(id) == [application_id |-> ApplicationId, change_event_id |-> id, fault_id |-> 0]
        Of(template, id, executions) ==
            GenerateReport(template, {}, Scope(id), topology, changes, executions, IncidentWindow)
    IN \A w \in synced :
        /\ \A app \in Of("application_health", 0, <<>>), cluster \in Of("cluster_overview", 0, <<>>) :
            LET crashed == {p \in Lists(w).pods : /\ "crashloop" \in {c.state : c \in p.containers}
                                                 /\ Owners({p}, Lists(w)) \cap Components(w) # {}}
            IN /\ {PodId(p.name) : p \in crashed} \subseteq app["risk_list"].critical
               /\ app["health_score"].score <= Max({0, 100 - 10 * Cardinality(crashed)})
               /\ \A s \in Range(cluster["cluster_health"].apps) :
                      cluster["cluster_risk_top_n"].apps[1].score <= s.score
               /\ app["health_score"] \in Range(cluster["cluster_health"].apps)
        /\ \A i \in DOMAIN changes :
            LET c == changes[i]
                users == Dependents(w, c.target) \cap {r \in dependents[c.id] : r[1] = "deploy"}
                run == [target |-> CHOOSE r \in users : TRUE, action |-> "rollback_deployment",
                        status |-> "succeeded", at |-> c.at + IncidentWindow]
                related == {d \in Range(changes) :
                               /\ d.target \in users \cup {c.target}
                               /\ SecondsBetween(d.at, c.at) <= IncidentWindow \div 2}
            IN FoundByPoll(c) /\ users # {} =>
                /\ users \cap Components(w) # {} => \A app \in Of("application_health", 0, <<>>) :
                       c.change_type \in DOMAIN app["seven_views"].changes
                /\ users \subseteq ChangeEventImpact(changes, topology, c.id)
                /\ Of("incident_report", c.id, <<run>>) # {}
                /\ \A incident \in Of("incident_report", c.id, <<run>>) :
                       LET timeline == incident["incident_timeline"]
                       IN /\ users \subseteq incident["incident_summary"]
                          /\ {Item("change", d) : d \in related} \subseteq Range(timeline)
                          /\ Item("recovery", run) \in Range(timeline)
                          /\ \A k \in 1..(Len(timeline) - 1) : timeline[k].at \div 2 <= timeline[k + 1].at \div 2
                          /\ run \in incident["incident_recoveries"].executed

\* Refuted: whatever a connector reports is reported of a resource by the id that
\* resource has in the topology.
ReportsNameResources ==
    \A w \in synced :
        /\ \A a \in {b \in w.alerts : b.labels.pod = <<>> /\ b.labels.deployment = <<>>} :
              a.labels.service \in {s.name : s \in w.cluster.services} =>
                  HasNode(topology, ResourceRef(a.labels))
        /\ <<"flagd-config">> \in {c.name : c \in w.cluster.configmaps} => HasNode(topology, FlagdTarget)
=============================================================================
