------------------------------ MODULE K8sMapper ------------------------------
(***************************************************************************)
(* The k8s connector: the lists the Kubernetes API answers, mapped to      *)
(* topology facts, and the naming rules it shares with the other           *)
(* connectors.                                                             *)
(*                                                                         *)
(* Lists are sets of records.  A name is a sequence of words that follow   *)
(* one another, the release prefix being a word of its own:                *)
(* "otel-demo-cartservice" is <<"otel-demo-", "cart", "service">>, and a  *)
(* ReplicaSet's name ends in the word of its hash.  An image reference is a record of *)
(* host, repo, tag and digest.  There is one cluster and one namespace, so *)
(* ids and attributes do not repeat their names.                           *)
(***************************************************************************)
EXTENDS Identity

CONSTANT Release      \* the release prefix of the connector's configuration

-----------------------------------------------------------------------------
(* Naming, shared by all connectors *)

StripReleasePrefix(name) ==
    IF Len(name) > 1 /\ Head(name) = Release THEN Tail(name) ELSE name

Respelled ==
    [frauddetection |-> "fraud-detection", productcatalog |-> "product-catalog",
     frontendproxy |-> "frontend-proxy"]

\* Without the release prefix and the suffix "service", unless that is all.
NormalizeComponentName(name) ==
    LET short == StripReleasePrefix(name)
        last == Len(short)
        cut == IF last > 1 /\ short[last] = "service" THEN SubSeq(short, 1, last - 1) ELSE short
    IN [i \in DOMAIN cut |-> IF cut[i] \in DOMAIN Respelled THEN Respelled[cut[i]] ELSE cut[i]]

ComponentId(short) == <<"comp", short>>

\* Mutant: the implicit registry is kept.
NormalizeKeepsHost(image) ==
    [image EXCEPT !.digest = "", !.tag = IF @ = "" THEN "latest" ELSE @]

\* Without digest and implicit registry, and with the implicit tag.
NormalizeImageRef(image) ==
    [image EXCEPT !.digest = "",
                  !.host = IF @ = "docker.io" THEN "" ELSE @,
                  !.tag = IF @ = "" THEN "latest" ELSE @]

InfraNames ==
    {"loadgenerator", "otelcol", "prometheus-server", "jaeger", "opensearch", "grafana", "kibana"}

IsInfra(name) == Head(StripReleasePrefix(name)) \in InfraNames

MiddlewarePatterns ==
    <<[keyword |-> "valkey", type |-> "Redis", prefix |-> "redis"],
      [keyword |-> "redis", type |-> "Redis", prefix |-> "redis"],
      [keyword |-> "kafka", type |-> "Kafka", prefix |-> "kafka"],
      [keyword |-> "postgres", type |-> "PostgreSQL", prefix |-> "postgres"],
      [keyword |-> "postgresql", type |-> "PostgreSQL", prefix |-> "postgres"],
      [keyword |-> "mysql", type |-> "MySQL", prefix |-> "mysql"]>>

\* The patterns a name matches: the whole name, or else one of its words.
MiddlewareHits(name) ==
    LET short == StripReleasePrefix(name)
        whole == {i \in DOMAIN MiddlewarePatterns : short = <<MiddlewarePatterns[i].keyword>>}
    IN IF whole # {} THEN whole
       ELSE {i \in DOMAIN MiddlewarePatterns :
                \E j \in DOMAIN short : short[j] = MiddlewarePatterns[i].keyword}

DetectMiddleware(name) == MiddlewarePatterns[Min(MiddlewareHits(name))]

IsMiddleware(name) == ~IsInfra(name) /\ MiddlewareHits(name) # {}
IsComponent(name) == ~IsInfra(name) /\ MiddlewareHits(name) = {}

-----------------------------------------------------------------------------
(* Facts *)

NodeFact(now, rid, type, attrs) ==
    [kind |-> "topology-node", source |-> "k8s", rid |-> rid, type |-> type, ts |-> now,
     attrs |-> attrs]

EdgeFact(now, type, source, target) ==
    [kind |-> "topology-edge", source |-> "k8s", rid |-> <<"edge", type, source, target>>,
     type |-> "Edge", ts |-> now,
     attrs |-> [source |-> source, target |-> target, edge_type |-> type]]

RiskFromHealth(health) ==
    CASE health = "critical" -> "high" [] health = "warning" -> "medium" [] OTHER -> "low"

Health(health) == [health_status |-> health, risk_level |-> RiskFromHealth(health)]
ChildOf(parent, health) == Filled([parent_resource_id |-> parent], Health(health))

ClusterId == <<"cluster">>
NamespaceId == <<"ns">>
ApplicationId == <<"app", Release>>
NodeId(n) == <<"node", n>>
DeployId(d) == <<"deploy", d>>
PodId(p) == <<"pod", p>>
ConfigMapId(cm) == <<"cm", cm>>
SecretId(s) == <<"secret", s>>
ServiceId(s) == <<"service", s>>
ContainerId(p, c) == <<"container", p, c>>
ImageId(image) == <<"image", image>>
MiddlewareId(d) == <<DetectMiddleware(d).prefix, d>>
ComponentOf(d) == ComponentId(NormalizeComponentName(d))

\* A container is "ready", "waiting", "crashloop" or "absent" from the status.
PodHealth(pod) ==
    LET states == {c.state : c \in pod.containers} \ {"absent"}
    IN CASE "crashloop" \in states -> "critical"
         [] "crashloop" \notin states /\ pod.phase \in {"Failed", "Unknown"} -> "critical"
         [] "crashloop" \notin states /\ pod.phase = "Running" ->
                IF states = {"ready"} THEN "normal" ELSE "warning"
         [] "crashloop" \notin states /\ pod.phase = "Succeeded" -> "normal"
         [] OTHER -> "warning"

ContainerHealth(c) ==
    CASE c.state = "crashloop" -> "critical" [] c.state = "ready" -> "normal" [] OTHER -> "warning"

NodeHealth(node) == IF node.ready THEN "normal" ELSE "critical"

\* The Deployments that own a ReplicaSet: one, or none.
DeployOf(rs, replicasets) ==
    {s.deploy : s \in {q \in replicasets : q.name = rs}} \ {<<>>}

\* Mutant: every pod belongs to the namespace.
PodParentNamespace(pod, replicasets) == NamespaceId

\* The Deployment that owns the pod's ReplicaSet, or else the namespace.
PodParent(pod, replicasets) ==
    LET owners == DeployOf(pod.rs, replicasets)
    IN IF owners = {} THEN NamespaceId ELSE DeployId(CHOOSE d \in owners : TRUE)

\* What a pod takes from volumes or as a whole environment; a single variable
\* taken from a ConfigMap or a Secret is not seen.
CmRefs(pod) ==
    {r.name : r \in {q \in pod.refs : q.kind = "cm" /\ q.how \in {"volume", "envFrom"}}}

SecretRefs(pod) ==
    {r.name : r \in {q \in pod.refs : q.kind = "secret" /\ q.how \in {"volume", "envFrom"}}}

LabelsMatch(labels, selector) == selector # {} /\ selector \subseteq labels

\* The names a selector selects; one without labels selects none.
Selected(objects, selector) == {o.name : o \in {q \in objects : LabelsMatch(q.labels, selector)}}

-----------------------------------------------------------------------------
(* Each list, mapped *)

MapNodes(in, now) ==
    {NodeFact(now, ClusterId, "Cluster", Health("normal")),
     NodeFact(now, NamespaceId, "Namespace", ChildOf(ClusterId, "normal")),
     NodeFact(now, ApplicationId, "Application", ChildOf(NamespaceId, "normal"))}
      \cup {NodeFact(now, NodeId(n.name), "Node", ChildOf(ClusterId, NodeHealth(n))) : n \in in.nodes}

\* Signals of a change of the Deployment.
DeploySignals(d) ==
    [current_revision |-> d.revision, images |-> d.images, replicas_desired |-> d.desired,
     replicas_ready |-> d.ready]

MapDeployments(in, now) ==
    LET middleware == {d.name : d \in {e \in in.deployments : IsMiddleware(e.name)}}
        components == {d.name : d \in {e \in in.deployments : IsComponent(e.name)}}
    IN {NodeFact(now, DeployId(d.name), "Deployment",
                 Filled(DeploySignals(d), ChildOf(NamespaceId, "normal"))) : d \in in.deployments}
         \cup {NodeFact(now, MiddlewareId(d), DetectMiddleware(d).type,
                        ChildOf(NamespaceId, "normal")) : d \in middleware}
         \cup {EdgeFact(now, "DEPLOYED_AS", MiddlewareId(d), DeployId(d)) : d \in middleware}
         \cup {NodeFact(now, ComponentOf(d), "ApplicationComponent",
                        ChildOf(ApplicationId, "normal")) : d \in components}
         \cup {EdgeFact(now, "BELONGS_TO", ComponentOf(d), ApplicationId) : d \in components}
         \cup {EdgeFact(now, "DEPLOYED_AS", ComponentOf(d), DeployId(d)) : d \in components}
         \cup {EdgeFact(now, "BELONGS_TO", DeployId(d), ComponentOf(d)) : d \in components}

\* A hash collides with no other, so that the data stand for their hash.
DataSignals(data) == [data_keys |-> DOMAIN data, data_hash |-> data]

MapData(in, now) ==
    {NodeFact(now, ConfigMapId(o.name), "ConfigMap",
              Filled(DataSignals(o.data), ChildOf(NamespaceId, "normal"))) : o \in in.configmaps}
      \cup {NodeFact(now, SecretId(o.name), "Secret",
                     Filled(DataSignals(o.data), ChildOf(NamespaceId, "normal"))) : o \in in.secrets}

MapPod(pod, in, now) ==
    LET health == PodHealth(pod)
        id == PodId(pod.name)
    IN {NodeFact(now, id, "Pod", Filled([phase |-> pod.phase],
                                        ChildOf(PodParent(pod, in.replicasets), health)))}
         \cup {EdgeFact(now, "SCHEDULED_ON", id, NodeId(n)) : n \in {pod.node} \ {<<>>}}
         \cup {EdgeFact(now, "USES", id, ConfigMapId(cm)) : cm \in CmRefs(pod)}
         \cup {EdgeFact(now, "USES", id, SecretId(s)) : s \in SecretRefs(pod)}

\* An image node carries no health; its correlation key is the normal form of
\* the reference, which the code-repo connector uses too.
MapContainers(pod, now) ==
    LET withImage == {c \in pod.containers : c.image.repo # ""}
    IN {NodeFact(now, ContainerId(pod.name, c.name), "Container",
                 Filled([image |-> c.image], Health(ContainerHealth(c)))) : c \in pod.containers}
         \cup {EdgeFact(now, "RUNS", PodId(pod.name), ContainerId(pod.name, c.name)) : c \in pod.containers}
         \cup {NodeFact(now, ImageId(c.image), "ContainerImage",
                        [image |-> c.image, correlation_keys |-> {NormalizeImageRef(c.image)}]) :
                   c \in withImage}
         \cup {EdgeFact(now, "USES_IMAGE", ContainerId(pod.name, c.name), ImageId(c.image)) : c \in withImage}

\* A service without a selector routes to nothing.
MapServices(in, now) ==
    {NodeFact(now, ServiceId(s.name), "Service", ChildOf(NamespaceId, "normal")) : s \in in.services}
      \cup UNION {{EdgeFact(now, "ROUTES_TO", ServiceId(s.name), PodId(p)) :
                     p \in Selected(in.pods, s.selector)}
                    \cup {EdgeFact(now, "EXPOSES", ServiceId(s.name), DeployId(d)) :
                             d \in Selected(in.deployments, s.selector)} : s \in in.services}

MapCluster(in, now) ==
    MapNodes(in, now) \cup MapDeployments(in, now) \cup MapData(in, now) \cup MapServices(in, now)
      \cup UNION {MapPod(p, in, now) \cup MapContainers(p, now) : p \in in.pods}

\* A list whose request fails reads as empty.
Answers(cluster, unanswered) ==
    [list \in DOMAIN cluster |-> IF list \in unanswered THEN {} ELSE cluster[list]]

\* The rest is mapped all the same; nothing is reached without an address.
SyncK8s(cluster, unanswered, now) == MapCluster(Answers(cluster, unanswered), now)
===============================================================================
