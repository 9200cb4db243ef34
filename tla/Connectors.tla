------------------------------ MODULE Connectors ------------------------------
(***************************************************************************)
(* The connectors other than k8s, each a function of what its source       *)
(* answers and of what it remembers since the start of the process:        *)
(* jaeger and code-repo add to the topology, prometheus measures it,       *)
(* k8s-events and flagd report changes, k8s-events and alertmanager        *)
(* report alerts.                                                          *)
(*                                                                         *)
(* A change or an alert is a record of the fields that the desktop         *)
(* decodes from the fact's attributes; descriptions are left out, and an   *)
(* alert's id is the fact's id.                                            *)
(***************************************************************************)
EXTENDS K8sMapper

CONSTANTS CallThreshold,     \* calls seen before an edge is drawn
          ScanDepth          \* directories below a root that are searched

FactFrom(source, f) == [f EXCEPT !.source = source]

-----------------------------------------------------------------------------
(* jaeger: who calls whom *)

Untraceable ==
    {<<"jaeger-all-in-one">>, <<"jaeger-query">>, <<"jaeger-collector">>, <<"loadgenerator">>,
     <<"load-generator">>, <<"load_generator">>}

\* Mutant: the name is taken as it is.
ServiceNameAsId(service) == ComponentId(service)

\* The service is named as the Deployment without the release prefix.
ServiceToComponentId(service) == ComponentId(NormalizeComponentName(<<Release>> \o service))

\* The calls of a trace: pairs of a parent span's service and a child's, where
\* both spans are in the trace and the services are named and differ.
CallsOf(trace) ==
    {r \in trace.references :
        /\ {r.parent, r.child} \subseteq DOMAIN trace.spans
        /\ trace.spans[r.parent] # trace.spans[r.child]
        /\ <<>> \notin {trace.spans[r.parent], trace.spans[r.child]}}

\* A trace is listed, and counted, once for each service in it whose traces
\* were asked for and answered.
Listings(trace, answered) ==
    Cardinality({trace.spans[s] : s \in DOMAIN trace.spans} \cap (answered \ Untraceable))

CallCount(traces, answered, caller, callee) ==
    MapThenSumSet(LAMBDA t : Listings(t, answered) * Cardinality({r \in CallsOf(t) :
                                 t.spans[r.parent] = caller /\ t.spans[r.child] = callee}),
                  traces)

Callings(traces) ==
    UNION {{<<t.spans[r.parent], t.spans[r.child]>> : r \in CallsOf(t)} : t \in traces}

CallsEdge(c, now) ==
    FactFrom("jaeger", EdgeFact(now, "CALLS", ServiceToComponentId(c[1]), ServiceToComponentId(c[2])))

\* Without the list of services there is nothing to ask for.
SyncJaeger(traces, answered, now) ==
    {CallsEdge(c, now) :
        c \in {d \in Callings(traces) : CallCount(traces, answered, d[1], d[2]) >= CallThreshold}}

-----------------------------------------------------------------------------
(* code-repo: what is built from what *)

RepoId(name) == <<"repo", name>>
LibraryId(lib) == <<"pkg", lib.ecosystem, lib.name, lib.version>>
ImageRefId(image) == <<"image-ref", NormalizeImageRef(image)>>

Manifests ==
    ("package.json" :> [ecosystem |-> "npm",
                        sections |-> {"dependencies", "devDependencies", "optionalDependencies"}])
    @@ ("go.mod" :> [ecosystem |-> "go", sections |-> {"require"}])
    @@ ("Cargo.toml" :> [ecosystem |-> "cargo",
                         sections |-> {"dependencies", "dev-dependencies", "build-dependencies"}])
    @@ ("requirements.txt" :> [ecosystem |-> "pypi", sections |-> {""}])

RepoMarkers == {".git", "Dockerfile"} \cup DOMAIN Manifests

\* The images a Dockerfile starts from; any other instruction is skipped.
ParseDockerfile(lines) == {l.image : l \in {k \in Range(lines) : k.word = "from"}}

\* The entries of the sections that name dependencies, if they have a version:
\* a path or git dependency has none.
ParseDeps(file, entries) ==
    {[ecosystem |-> Manifests[file].ecosystem, name |-> e.name, version |-> e.version] :
        e \in {d \in entries : d.section \in Manifests[file].sections /\ d.version # ""}}

\* A directory is a repository when it has a marker; searching stops there.
IsRepo(dir) == DOMAIN dir.files \cap RepoMarkers # {}

\* The directories the search enters at each depth; one that cannot be read
\* is skipped, and so is a file.
Entered(tree, roots) ==
    LET At[depth \in 0..ScanDepth] ==
            IF depth = 0 THEN roots \cap DOMAIN tree
            ELSE DOMAIN tree \cap UNION {tree[d].dirs : d \in {e \in At[depth - 1] : ~IsRepo(tree[e])}}
    IN UNION {At[depth] : depth \in 0..ScanDepth}

\* A repository's id has the last part of its path only.
ScanRepo(dir, now) ==
    LET id == RepoId(dir.name)
        images == IF "Dockerfile" \in DOMAIN dir.files THEN ParseDockerfile(dir.files["Dockerfile"]) ELSE {}
        libs == UNION {ParseDeps(m, dir.files[m]) : m \in DOMAIN dir.files \cap DOMAIN Manifests}
    IN {NodeFact(now, id, "CodeRepo", <<>>)}
         \cup {NodeFact(now, ImageRefId(i), "ContainerImage",
                        [image |-> i, correlation_keys |-> {NormalizeImageRef(i)}]) : i \in images}
         \cup {EdgeFact(now, "BUILDS", id, ImageRefId(i)) : i \in images}
         \cup {NodeFact(now, LibraryId(l), "Library", <<>>) : l \in libs}
         \cup {EdgeFact(now, "DEPENDS_ON", id, LibraryId(l)) : l \in libs}

SyncCodeRepo(tree, roots, now) ==
    {FactFrom("code-repo", f) :
        f \in UNION {ScanRepo(tree[d], now) : d \in {e \in Entered(tree, roots) : IsRepo(tree[e])}}}

-----------------------------------------------------------------------------
(* prometheus: what is measured *)

\* The id of the resource a sample measures; the name of a service is taken as
\* the trace names it, and a sample without its label measures nothing.
ResolveTarget(sample) ==
    IF sample.target = "pod" THEN PodId(sample.name) ELSE ServiceId(sample.name)

\* A query that is not answered leaves its samples out; a value that is not a
\* number is below zero here.
SyncPrometheus(samples, unanswered, now) ==
    {[kind |-> "metric", source |-> "prometheus", rid |-> ResolveTarget(s),
      type |-> IF s.target = "pod" THEN "Pod" ELSE "Service", ts |-> now,
      attrs |-> [metric |-> s.query, value |-> s.value]] :
        s \in {t \in samples : t.query \notin unanswered /\ t.name # <<>> /\ t.value >= 0}}

-----------------------------------------------------------------------------
(* k8s-events: what the cluster says happened *)

HasTarget(ev) == ev.name # <<>> /\ ev.kind \in {"Deployment", "ReplicaSet", "Pod"}

\* Mutant: the hash of a ReplicaSet's name is kept.
TargetWithHash(ev) == IF ev.kind = "Pod" THEN PodId(ev.name) ELSE DeployId(ev.name)

\* A ReplicaSet stands for its Deployment, by its name without the hash.
TargetResourceId(ev) ==
    CASE ev.kind = "Deployment" -> DeployId(ev.name)
      [] ev.kind = "ReplicaSet" ->
             DeployId(IF Len(ev.name) > 1 THEN SubSeq(ev.name, 1, Len(ev.name) - 1) ELSE ev.name)
      [] ev.kind = "Pod" -> PodId(ev.name)

InterestingReasons == {"ScalingReplicaSet", "SuccessfulRescale"}

EventToChange(ev) ==
    [change_type |-> "deployment_rolled", target |-> TargetResourceId(ev), source |-> "k8s_api",
     uid |-> ev.uid]

EventToAlert(ev, now) ==
    [id |-> <<"k8s-events", ev.uid, now>>,
     ref |-> IF HasTarget(ev) THEN TargetResourceId(ev) ELSE <<"k8s", ev.kind, ev.name>>,
     severity |-> "warning", status |-> "firing", fired_at |-> ev.at]

\* The first list since the start is remembered and not reported; after that
\* an event is reported once.  Without an answer nothing is remembered.
SyncK8sEvents(memory, events, now) ==
    LET fresh == IF memory.baselined THEN {e \in events : e.uid \notin memory.seen} ELSE {}
    IN [changes |-> {EventToChange(e) :
                        e \in {f \in fresh : f.reason \in InterestingReasons /\ HasTarget(f)}},
        alerts |-> {EventToAlert(e, now) : e \in {f \in fresh : f.type = "Warning"}},
        memory |-> [baselined |-> TRUE, seen |-> memory.seen \cup {e.uid : e \in events}]]

-----------------------------------------------------------------------------
(* flagd: what was switched *)

\* Flags added, switched or removed; a state is a variant with its value.
DiffSnapshots(old, new) ==
    {f \in DOMAIN old \cup DOMAIN new :
        f \in DOMAIN old \cap DOMAIN new => old[f] # new[f]}

\* The id of the flags' ConfigMap in this connector's own form.
FlagdTarget == <<"configmap", "flagd-config">>

\* The first snapshot since the start is kept and not compared.
SyncFlagd(memory, flags) ==
    [changes |-> IF memory.flags = {} THEN {}
                 ELSE LET last == CHOOSE s \in memory.flags : TRUE
                      IN {[change_type |-> "configmap_updated", target |-> FlagdTarget,
                           source |-> "flagd", flag |-> f] : f \in DiffSnapshots(last, flags)},
     memory |-> [flags |-> {flags}]]

-----------------------------------------------------------------------------
(* alertmanager: what is firing *)

\* The first label present names the resource; services have this connector's
\* own form of id.
ResourceRef(labels) ==
    CASE labels.pod # <<>> -> PodId(labels.pod)
      [] labels.pod = <<>> /\ labels.deployment # <<>> -> DeployId(labels.deployment)
      [] labels.pod = <<>> /\ labels.deployment = <<>> /\ labels.service # <<>> ->
             <<"svc", labels.service>>
      [] labels.pod = <<>> /\ labels.deployment = <<>> /\ labels.service = <<>> /\ labels.node # <<>> ->
             NodeId(labels.node)
      [] OTHER -> NamespaceId

\* An alert of severity info is stored as a warning, the lowest there is.
MapSeverity(label) == IF label \in {"critical", "error", "page"} THEN "critical" ELSE "warning"

AlertToFact(a) ==
    [id |-> <<"alertmanager", a.fingerprint>>, ref |-> ResourceRef(a.labels),
     severity |-> MapSeverity(a.severity), status |-> "firing", fired_at |-> a.starts_at]

\* Every alert of the list is remembered by its fingerprint and never looked at
\* again, active or not; there is no baseline.
SyncAlertmanager(memory, alerts) ==
    [alerts |-> {AlertToFact(a) : a \in {b \in alerts : b.state = "active" /\ b.fingerprint \notin memory.seen}},
     memory |-> [seen |-> memory.seen \cup {a.fingerprint : a \in alerts}]]
===============================================================================
