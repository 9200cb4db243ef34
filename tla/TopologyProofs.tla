----------------------------- MODULE TopologyProofs -----------------------------
(***************************************************************************)
(* What facts look like, whatever the sources answer, and what the graph   *)
(* made of such facts holds: lemmas about the operators of Identity,       *)
(* K8sMapper, Connectors and Traversals.                                   *)
(***************************************************************************)
EXTENDS Connectors, Traversals, FiniteSetTheorems, FunctionTheorems, SequenceTheorems, TLAPS

-----------------------------------------------------------------------------
(* Numbers *)

\* A set of natural numbers has a least one: what stands for induction here.
LEMMA LeastNatural ==
    ASSUME NEW S \in SUBSET Nat, S # {}
    PROVE  \E m \in S : \A k \in S : m <= k
<1> DEFINE R == {p \in Nat \X Nat : p[1] < p[2]}
<1>1. OpToRel(<, Nat) = R  BY Zenon DEF OpToRel
<1>2. IsWellFoundedOn(R, Nat)  BY <1>1, NatLessThanWellFounded, Zenon
<1>3. \A a, b \in Nat : a < b => <<a, b>> \in R  OBVIOUS
<1> HIDE DEF R
<1>4. PICK m \in S : \A k \in S : ~(<<k, m>> \in R)  BY <1>2, WFMin
<1>5. \A k \in S : ~(k < m)  BY <1>3, <1>4
<1>6. \A k \in S : m <= k  BY <1>5
<1> QED  BY <1>6

LEMMA MinIsThere ==
    ASSUME NEW S \in SUBSET Nat, S # {}
    PROVE  Min(S) \in S
BY LeastNatural DEF Min

LEMMA MaxIsThere ==
    ASSUME NEW n \in Nat, NEW S \in SUBSET (1..n), S # {}
    PROVE  Max(S) \in S
<1>1. PICK T : T = {k \in 0..n : n - k \in S}  OBVIOUS
<1>2. \A k \in S : n - k \in 0..n /\ n - (n - k) = k  OBVIOUS
<1>3. \A k \in S : n - k \in T  BY <1>1, <1>2
<1>4. T # {} /\ T \subseteq Nat
    <2>1. T # {}  BY <1>3
    <2>2. \A k \in 0..n : k \in Nat  OBVIOUS
    <2> QED  BY <1>1, <2>1, <2>2
<1>5. PICK m \in T : \A k \in T : m <= k  BY <1>4, LeastNatural
<1>6. n - m \in S /\ m \in Int  BY <1>1, <1>5
<1>7. \A k \in S : m <= n - k /\ k \in Int  BY <1>3, <1>5
<1>8. \A k \in S : n - m >= k  BY <1>6, <1>7
<1> QED  BY <1>6, <1>8 DEF Max

-----------------------------------------------------------------------------
(* The newest facts *)

LEMMA NewestOf ==
    ASSUME NEW F, NEW T \in Nat, \A f \in F : f.ts \in Nat /\ f.ts <= T
    PROVE  /\ Newest(F) \subseteq F
           /\ \A f \in F : \E g \in Newest(F) : g.rid = f.rid
           /\ \A f, g \in Newest(F) : f.rid = g.rid => f = g
           /\ \A f \in Newest(F), g \in F : g.rid = f.rid => g.ts <= f.ts
<1> DEFINE latest == {f \in F : \A g \in F : g.ts > f.ts => g.rid # f.rid}
           One(r) == CHOOSE f \in latest : f.rid = r
<1>1. ASSUME NEW f \in F  PROVE \E g \in latest : g.rid = f.rid
    <2>1. PICK same : same = {g \in F : g.rid = f.rid}  OBVIOUS
    <2>2. PICK S : S = {T - g.ts : g \in same}  OBVIOUS
    <2>3. S \in SUBSET Nat
        <3>1. \A g \in same : T - g.ts \in Nat  BY <2>1
        <3> QED  BY <2>2, <3>1
    <2>4. S # {}  BY <2>1, <2>2
    <2>5. PICK m \in S : \A k \in S : m <= k  BY <2>3, <2>4, LeastNatural
    <2>6. PICK g \in same : m = T - g.ts  BY <2>2, <2>5
    <2>7. \A h \in same : T - g.ts <= T - h.ts  BY <2>2, <2>5, <2>6
    <2>8. \A h \in F : h.ts > g.ts => h.rid # g.rid
        <3>1. \A h \in same : ~(h.ts > g.ts)  BY <2>1, <2>7
        <3> QED  BY <2>1, <3>1
    <2> QED  BY <2>1, <2>8
<1>2. Newest(F) = {One(r) : r \in {f.rid : f \in latest}}  BY DEF Newest
<1>3. \A r \in {f.rid : f \in latest} : One(r) \in latest /\ One(r).rid = r  OBVIOUS
<1> HIDE DEF One
<1>4. \A f \in Newest(F) : f \in latest /\ f = One(f.rid)  BY <1>2, <1>3
<1>5. \A f \in F : \E g \in Newest(F) : g.rid = f.rid
    <2>1. \A f \in latest : One(f.rid) \in Newest(F) /\ One(f.rid).rid = f.rid  BY <1>2, <1>3
    <2> QED  BY <1>1, <2>1
<1>6. \A f \in Newest(F), g \in F : g.rid = f.rid => g.ts <= f.ts
    <2>1. \A f \in Newest(F) : f \in F /\ \A g \in F : g.rid = f.rid => ~(g.ts > f.ts)  BY <1>4
    <2> QED  BY <2>1
<1>7. \A f, g \in Newest(F) : f.rid = g.rid => f = g  BY <1>4
<1> QED  BY <1>4, <1>5, <1>6, <1>7

-----------------------------------------------------------------------------
(* What facts look like *)

ImageTags == {"image", "image-ref"}
RepoTags == {"image-ref", "repo", "pkg"}
MiddlewareTags == {"redis", "kafka", "postgres", "mysql"}

\* The kinds of resource ids, which begin with it.
NodeTags ==
    {"cluster", "ns", "app", "node", "deploy", "comp", "pod", "cm", "secret", "service", "container"}
      \cup MiddlewareTags \cup ImageTags \cup RepoTags

\* Which kind is whose parent.
ParentTags ==
    {<<"cluster", "ns">>, <<"cluster", "node">>, <<"ns", "app">>, <<"app", "comp">>, <<"deploy", "pod">>}
      \cup {<<"ns", t>> : t \in {"deploy", "cm", "secret", "service", "pod"} \cup MiddlewareTags}

\* Both connectors' images are one kind.
Class(tag) == IF tag \in ImageTags THEN "image" ELSE tag

\* What relates a kind to another.
EdgeTags ==
    {<<"BELONGS_TO", "comp", "app">>, <<"BELONGS_TO", "deploy", "comp">>, <<"SCHEDULED_ON", "pod", "node">>,
     <<"USES", "pod", "cm">>, <<"USES", "pod", "secret">>, <<"RUNS", "pod", "container">>,
     <<"USES_IMAGE", "container", "image">>, <<"ROUTES_TO", "service", "pod">>,
     <<"EXPOSES", "service", "deploy">>, <<"CALLS", "comp", "comp">>, <<"BUILDS", "repo", "image">>,
     <<"DEPENDS_ON", "repo", "pkg">>}
      \cup {<<"DEPLOYED_AS", t, "deploy">> : t \in {"comp"} \cup MiddlewareTags}

EdgeSource(type) ==
    IF type = "CALLS" THEN "jaeger" ELSE IF type \in {"BUILDS", "DEPENDS_ON"} THEN "code-repo" ELSE "k8s"

\* The normal form of the image that an id names.
KeyOf(r) == NormalizeImageRef(r[2])

ImageAttrsOK(rid, attrs) ==
    /\ DOMAIN attrs = {"image", "correlation_keys"}
    /\ attrs.correlation_keys = {KeyOf(rid)}
    /\ NormalizeImageRef(attrs.image) = KeyOf(rid)

AttrsOK(rid, attrs, images) ==
    /\ attrs = [k \in DOMAIN attrs |-> attrs[k]]
    /\ "metric" \notin DOMAIN attrs
    /\ "parent_resource_id" \in DOMAIN attrs => <<attrs.parent_resource_id[1], rid[1]>> \in ParentTags
    /\ rid[1] \in ImageTags => rid \in images /\ ImageAttrsOK(rid, attrs)
    /\ rid[1] \notin ImageTags => "correlation_keys" \notin DOMAIN attrs
    /\ rid[1] = "service" => "health_status" \in DOMAIN attrs /\ attrs.health_status = "normal"
    /\ rid[1] = "comp" => "parent_resource_id" \in DOMAIN attrs /\ attrs.parent_resource_id = ApplicationId

TypeFits(tag, type) ==
    /\ type = "ConfigMap" <=> tag = "cm"
    /\ type = "Secret" <=> tag = "secret"
    /\ type = "Deployment" <=> tag = "deploy"
    /\ type = "Pod" <=> tag = "pod"
    /\ type = "Application" <=> tag = "app"
    /\ type = "ContainerImage" <=> tag \in ImageTags

NodeOK(f, images) ==
    /\ f.kind = "topology-node"
    /\ f.rid[1] \in NodeTags
    /\ f.rid[1] = "app" => f.rid = ApplicationId
    /\ f.source = IF f.rid[1] \in RepoTags THEN "code-repo" ELSE "k8s"
    /\ TypeFits(f.rid[1], f.type)
    /\ AttrsOK(f.rid, f.attrs, images)

EdgeOK(f) ==
    /\ f.kind = "topology-edge"
    /\ f.attrs = [source |-> f.attrs.source, target |-> f.attrs.target, edge_type |-> f.attrs.edge_type]
    /\ f.rid = <<"edge", f.attrs.edge_type, f.attrs.source, f.attrs.target>>
    /\ f.source = EdgeSource(f.attrs.edge_type)
    /\ <<f.attrs.edge_type, Class(f.attrs.source[1]), Class(f.attrs.target[1])>> \in EdgeTags

MetricOK(f) ==
    /\ f.kind = "metric"
    /\ f.source = "prometheus"
    /\ DOMAIN f.attrs = {"metric", "value"}
    /\ f.attrs.value \in Int

FactOK(f, images) == NodeOK(f, images) \/ EdgeOK(f) \/ MetricOK(f)

\* The attributes of a child of a parent, with others before them or without.
ChildAttrsOK(attrs, parent, health) ==
    /\ attrs = [k \in DOMAIN attrs |-> attrs[k]]
    /\ {"parent_resource_id", "health_status"} \subseteq DOMAIN attrs
    /\ DOMAIN attrs \cap {"metric", "correlation_keys"} = {}
    /\ attrs.parent_resource_id = parent
    /\ attrs.health_status = health

LEMMA ChildAlone ==
    ASSUME NEW parent, NEW health, NEW child, child = ChildOf(parent, health)
    PROVE  /\ DOMAIN child = {"parent_resource_id", "health_status", "risk_level"}
           /\ ChildAttrsOK(child, parent, health)
<1>1. PICK risk : risk = Health(health)  OBVIOUS
<1>2. PICK place : place = [parent_resource_id |-> parent]  OBVIOUS
<1>3. DOMAIN risk = {"health_status", "risk_level"} /\ risk.health_status = health
    BY <1>1 DEF Health
<1>4. DOMAIN place = {"parent_resource_id"} /\ place.parent_resource_id = parent  BY <1>2
<1>5. child = [k \in DOMAIN place \cup DOMAIN risk |-> IF k \in DOMAIN place THEN place[k] ELSE risk[k]]
    BY <1>1, <1>2 DEF Filled, ChildOf
<1> QED  BY <1>3, <1>4, <1>5 DEF ChildAttrsOK

LEMMA ChildWithMore ==
    ASSUME NEW parent, NEW health, NEW own,
           DOMAIN own \cap {"parent_resource_id", "health_status", "metric", "correlation_keys"} = {}
    PROVE  ChildAttrsOK(Filled(own, ChildOf(parent, health)), parent, health)
<1>1. PICK child : child = ChildOf(parent, health)  OBVIOUS
<1>2. PICK attrs : attrs = Filled(own, child)  OBVIOUS
<1>3. /\ DOMAIN child = {"parent_resource_id", "health_status", "risk_level"}
      /\ child.parent_resource_id = parent /\ child.health_status = health
    BY <1>1, ChildAlone DEF ChildAttrsOK
<1>4. attrs = [k \in DOMAIN own \cup DOMAIN child |-> IF k \in DOMAIN own THEN own[k] ELSE child[k]]
    BY <1>2 DEF Filled
<1>5. ChildAttrsOK(attrs, parent, health)  BY <1>3, <1>4 DEF ChildAttrsOK
<1> QED  BY <1>1, <1>2, <1>5

LEMMA ChildNodeOK ==
    ASSUME NEW images, NEW now, NEW rid, NEW type, NEW attrs, NEW parent, NEW health,
           ChildAttrsOK(attrs, parent, health),
           rid[1] \in NodeTags \ (ImageTags \cup RepoTags), TypeFits(rid[1], type),
           <<parent[1], rid[1]>> \in ParentTags, rid[1] = "service" => health = "normal",
           rid[1] = "comp" => parent = ApplicationId, rid[1] = "app" => rid = ApplicationId
    PROVE  NodeOK(NodeFact(now, rid, type, attrs), images)
<1>1. AttrsOK(rid, attrs, images)  BY DEF AttrsOK, ChildAttrsOK
<1> QED  BY <1>1 DEF NodeFact, NodeOK

LEMMA EdgeFactOK ==
    ASSUME NEW now, NEW type, NEW s, NEW t, <<type, Class(s[1]), Class(t[1])>> \in EdgeTags,
           NEW source, source = EdgeSource(type)
    PROVE  EdgeOK(FactFrom(source, EdgeFact(now, type, s, t)))
<1>1. PICK f : f = FactFrom(source, EdgeFact(now, type, s, t))  OBVIOUS
<1>2. f = [kind |-> "topology-edge", source |-> source, rid |-> <<"edge", type, s, t>>,
           type |-> "Edge", ts |-> now, attrs |-> [source |-> s, target |-> t, edge_type |-> type]]
    BY <1>1 DEF FactFrom, EdgeFact
<1>3. EdgeOK(f)  BY <1>2 DEF EdgeOK
<1> QED  BY <1>1, <1>3

\* An edge of the k8s connector.
LEMMA K8sEdgeOK ==
    ASSUME NEW now, NEW type, NEW s, NEW t, <<type, Class(s[1]), Class(t[1])>> \in EdgeTags,
           EdgeSource(type) = "k8s"
    PROVE  EdgeOK(EdgeFact(now, type, s, t))
BY DEF EdgeFact, EdgeOK

-----------------------------------------------------------------------------
(* What the k8s connector maps *)

LEMMA NodesOK ==
    ASSUME NEW images, NEW now, NEW in
    PROVE  \A f \in MapNodes(in, now) : NodeOK(f, images)
<1> USE DEF NodeTags, MiddlewareTags, ImageTags, RepoTags, ParentTags, TypeFits
<1>1. NodeOK(NodeFact(now, ClusterId, "Cluster", Health("normal")), images)
    <2>1. PICK attrs : attrs = Health("normal")  OBVIOUS
    <2>2. DOMAIN attrs = {"health_status", "risk_level"} /\ attrs = [k \in DOMAIN attrs |-> attrs[k]]
        BY <2>1 DEF Health
    <2>3. AttrsOK(ClusterId, attrs, images)  BY <2>2 DEF AttrsOK, ClusterId
    <2> QED  BY <2>1, <2>3 DEF NodeOK, NodeFact, ClusterId
<1>2. NodeOK(NodeFact(now, NamespaceId, "Namespace", ChildOf(ClusterId, "normal")), images)
    BY ChildAlone, ChildNodeOK DEF NamespaceId, ClusterId
<1>3. NodeOK(NodeFact(now, ApplicationId, "Application", ChildOf(NamespaceId, "normal")), images)
    BY ChildAlone, ChildNodeOK DEF NamespaceId, ApplicationId
<1>4. \A n \in in.nodes : NodeOK(NodeFact(now, NodeId(n.name), "Node", ChildOf(ClusterId, NodeHealth(n))), images)
    BY ChildAlone, ChildNodeOK DEF NodeId, ClusterId
<1> QED  BY <1>1, <1>2, <1>3, <1>4 DEF MapNodes

LEMMA DetectedMiddleware ==
    ASSUME NEW d, IsMiddleware(d)
    PROVE  /\ DetectMiddleware(d).prefix \in MiddlewareTags
           /\ DetectMiddleware(d).type \in {"Redis", "Kafka", "PostgreSQL", "MySQL"}
<1>1. MiddlewareHits(d) \subseteq DOMAIN MiddlewarePatterns  BY DEF MiddlewareHits
<1>2. DOMAIN MiddlewarePatterns = 1..6  BY DEF MiddlewarePatterns
<1>3. MiddlewareHits(d) \subseteq Nat /\ MiddlewareHits(d) # {}  BY <1>1, <1>2 DEF IsMiddleware
<1>4. Min(MiddlewareHits(d)) \in 1..6  BY <1>1, <1>2, <1>3, MinIsThere
<1>5. \A i \in 1..6 : /\ MiddlewarePatterns[i].prefix \in MiddlewareTags
                      /\ MiddlewarePatterns[i].type \in {"Redis", "Kafka", "PostgreSQL", "MySQL"}
    BY DEF MiddlewarePatterns, MiddlewareTags
<1> QED  BY <1>4, <1>5 DEF DetectMiddleware

LEMMA DeploymentsOK ==
    ASSUME NEW images, NEW now, NEW in
    PROVE  \A f \in MapDeployments(in, now) : NodeOK(f, images) \/ EdgeOK(f)
<1> DEFINE middleware == {d.name : d \in {e \in in.deployments : IsMiddleware(e.name)}}
           components == {d.name : d \in {e \in in.deployments : IsComponent(e.name)}}
<1> USE DEF NodeTags, MiddlewareTags, ImageTags, RepoTags
<1>1. \A d \in in.deployments :
          NodeOK(NodeFact(now, DeployId(d.name), "Deployment",
                          Filled(DeploySignals(d), ChildOf(NamespaceId, "normal"))), images)
    <2>1. TAKE d \in in.deployments
    <2>2. DOMAIN DeploySignals(d) = {"current_revision", "images", "replicas_desired", "replicas_ready"}
        BY DEF DeploySignals
    <2>3. ChildAttrsOK(Filled(DeploySignals(d), ChildOf(NamespaceId, "normal")), NamespaceId, "normal")
        BY <2>2, ChildWithMore
    <2>4. DeployId(d.name)[1] = "deploy" /\ NamespaceId[1] = "ns"  BY DEF DeployId, NamespaceId
    <2> QED  BY <2>3, <2>4, ChildNodeOK DEF ParentTags, TypeFits
<1>2. \A d \in middleware :
          NodeOK(NodeFact(now, MiddlewareId(d), DetectMiddleware(d).type, ChildOf(NamespaceId, "normal")),
                 images)
    <2>1. TAKE d \in middleware
    <2>2. MiddlewareId(d)[1] \in MiddlewareTags
          /\ DetectMiddleware(d).type \in {"Redis", "Kafka", "PostgreSQL", "MySQL"}
        BY DetectedMiddleware DEF MiddlewareId
    <2>3. NamespaceId[1] = "ns"  BY DEF NamespaceId
    <2>4. TypeFits(MiddlewareId(d)[1], DetectMiddleware(d).type)  BY <2>2 DEF TypeFits
    <2>5. <<NamespaceId[1], MiddlewareId(d)[1]>> \in ParentTags  BY <2>2, <2>3 DEF ParentTags
    <2> QED  BY <2>2, <2>4, <2>5, ChildAlone, ChildNodeOK
<1>3. \A d \in middleware : EdgeOK(EdgeFact(now, "DEPLOYED_AS", MiddlewareId(d), DeployId(d)))
    <2>1. TAKE d \in middleware
    <2>2. MiddlewareId(d)[1] \in MiddlewareTags /\ DeployId(d)[1] = "deploy"
        BY DetectedMiddleware DEF MiddlewareId, DeployId
    <2> QED  BY <2>2, K8sEdgeOK DEF EdgeTags, EdgeSource, Class
<1>4. \A d \in components :
          NodeOK(NodeFact(now, ComponentOf(d), "ApplicationComponent", ChildOf(ApplicationId, "normal")),
                 images)
    BY ChildAlone, ChildNodeOK DEF ComponentOf, ComponentId, ApplicationId, ParentTags, TypeFits
<1>5. \A d \in components :
          /\ EdgeOK(EdgeFact(now, "BELONGS_TO", ComponentOf(d), ApplicationId))
          /\ EdgeOK(EdgeFact(now, "DEPLOYED_AS", ComponentOf(d), DeployId(d)))
          /\ EdgeOK(EdgeFact(now, "BELONGS_TO", DeployId(d), ComponentOf(d)))
    <2>1. TAKE d \in components
    <2>2. ComponentOf(d)[1] = "comp" /\ ApplicationId[1] = "app" /\ DeployId(d)[1] = "deploy"
        BY DEF ComponentOf, ComponentId, ApplicationId, DeployId
    <2> QED  BY <2>2, K8sEdgeOK DEF EdgeTags, EdgeSource, Class
<1> QED  BY <1>1, <1>2, <1>3, <1>4, <1>5 DEF MapDeployments

LEMMA DataOK ==
    ASSUME NEW images, NEW now, NEW in
    PROVE  \A f \in MapData(in, now) : NodeOK(f, images)
<1> DEFINE Holds(o) == Filled(DataSignals(o.data), ChildOf(NamespaceId, "normal"))
<1>1. \A o : ChildAttrsOK(Holds(o), NamespaceId, "normal")
    <2>1. TAKE o
    <2>2. DOMAIN DataSignals(o.data) = {"data_keys", "data_hash"}  BY DEF DataSignals
    <2> QED  BY <2>2, ChildWithMore
<1>2. NamespaceId[1] = "ns" /\ \A n : ConfigMapId(n)[1] = "cm" /\ SecretId(n)[1] = "secret"
    BY DEF NamespaceId, ConfigMapId, SecretId
<1> HIDE DEF Holds
<1>3. \A o : NodeOK(NodeFact(now, ConfigMapId(o.name), "ConfigMap", Holds(o)), images)
    BY <1>1, <1>2, ChildNodeOK DEF NodeTags, ImageTags, RepoTags, ParentTags, TypeFits
<1>4. \A o : NodeOK(NodeFact(now, SecretId(o.name), "Secret", Holds(o)), images)
    BY <1>1, <1>2, ChildNodeOK DEF NodeTags, ImageTags, RepoTags, ParentTags, TypeFits
<1> USE DEF Holds
<1> QED  BY <1>3, <1>4 DEF MapData

LEMMA PodOK ==
    ASSUME NEW images, NEW now, NEW in, NEW pod
    PROVE  \A f \in MapPod(pod, in, now) : NodeOK(f, images) \/ EdgeOK(f)
<1>1. NodeOK(NodeFact(now, PodId(pod.name), "Pod",
                      Filled([phase |-> pod.phase],
                             ChildOf(PodParent(pod, in.replicasets), PodHealth(pod)))), images)
    <2>1. PICK attrs : attrs = Filled([phase |-> pod.phase],
                                      ChildOf(PodParent(pod, in.replicasets), PodHealth(pod)))
        OBVIOUS
    <2>2. ChildAttrsOK(attrs, PodParent(pod, in.replicasets), PodHealth(pod))  BY <2>1, ChildWithMore
    <2>3. PodParent(pod, in.replicasets)[1] \in {"ns", "deploy"}  BY DEF PodParent, NamespaceId, DeployId
    <2>4. PodId(pod.name)[1] = "pod"  BY DEF PodId
    <2>5. NodeOK(NodeFact(now, PodId(pod.name), "Pod", attrs), images)
        BY <2>2, <2>3, <2>4, ChildNodeOK DEF NodeTags, ImageTags, RepoTags, ParentTags, TypeFits
    <2> QED  BY <2>1, <2>5
<1>2. /\ \A n : EdgeOK(EdgeFact(now, "SCHEDULED_ON", PodId(pod.name), NodeId(n)))
      /\ \A c : EdgeOK(EdgeFact(now, "USES", PodId(pod.name), ConfigMapId(c)))
      /\ \A s : EdgeOK(EdgeFact(now, "USES", PodId(pod.name), SecretId(s)))
    <2>1. /\ PodId(pod.name)[1] = "pod"
          /\ \A n : NodeId(n)[1] = "node" /\ ConfigMapId(n)[1] = "cm" /\ SecretId(n)[1] = "secret"
        BY DEF PodId, NodeId, ConfigMapId, SecretId
    <2> QED  BY <2>1, K8sEdgeOK DEF EdgeTags, EdgeSource, Class, ImageTags
<1> QED  BY <1>1, <1>2 DEF MapPod

\* The images of these containers are among the ids.
ImagesIn(containers, images) == \A c \in containers : c.image.repo # "" => ImageId(c.image) \in images

LEMMA ContainersOK ==
    ASSUME NEW images, NEW now, NEW pod, ImagesIn(pod.containers, images)
    PROVE  \A f \in MapContainers(pod, now) : NodeOK(f, images) \/ EdgeOK(f)
<1> DEFINE withImage == {c \in pod.containers : c.image.repo # ""}
<1> USE DEF NodeTags, ImageTags, RepoTags
<1>1. \A c : NodeOK(NodeFact(now, ContainerId(pod.name, c.name), "Container",
                             Filled([image |-> c.image], Health(ContainerHealth(c)))), images)
    <2>1. TAKE c
    <2>2. PICK risk : risk = Health(ContainerHealth(c))  OBVIOUS
    <2>3. PICK own : own = [image |-> c.image]  OBVIOUS
    <2>4. PICK attrs : attrs = Filled(own, risk)  OBVIOUS
    <2>5. DOMAIN risk = {"health_status", "risk_level"} /\ DOMAIN own = {"image"}
        BY <2>2, <2>3 DEF Health
    <2>6. attrs = [k \in DOMAIN own \cup DOMAIN risk |-> IF k \in DOMAIN own THEN own[k] ELSE risk[k]]
        BY <2>4 DEF Filled
    <2>7. PICK rid : rid = ContainerId(pod.name, c.name)  OBVIOUS
    <2>8. rid[1] = "container"  BY <2>7 DEF ContainerId
    <2>9. AttrsOK(rid, attrs, images)  BY <2>5, <2>6, <2>8 DEF AttrsOK
    <2>10. NodeOK(NodeFact(now, rid, "Container", attrs), images)
        BY <2>8, <2>9 DEF NodeOK, NodeFact, TypeFits
    <2> QED  BY <2>2, <2>3, <2>4, <2>7, <2>10
<1>2. \A c \in withImage :
          NodeOK(NodeFact(now, ImageId(c.image), "ContainerImage",
                          [image |-> c.image, correlation_keys |-> {NormalizeImageRef(c.image)}]), images)
    <2>1. TAKE c \in withImage
    <2>2. PICK attrs : attrs = [image |-> c.image, correlation_keys |-> {NormalizeImageRef(c.image)}]  OBVIOUS
    <2>3. PICK rid : rid = ImageId(c.image)  OBVIOUS
    <2>4. rid[1] = "image" /\ rid[2] = c.image /\ rid \in images  BY <2>3 DEF ImageId, ImagesIn
    <2>5. AttrsOK(rid, attrs, images)  BY <2>2, <2>4 DEF AttrsOK, ImageAttrsOK, KeyOf
    <2>6. NodeOK(NodeFact(now, rid, "ContainerImage", attrs), images)
        BY <2>4, <2>5 DEF NodeOK, NodeFact, TypeFits
    <2> QED  BY <2>2, <2>3, <2>6
<1>3. \A c : /\ EdgeOK(EdgeFact(now, "RUNS", PodId(pod.name), ContainerId(pod.name, c.name)))
             /\ EdgeOK(EdgeFact(now, "USES_IMAGE", ContainerId(pod.name, c.name), ImageId(c.image)))
    <2>1. TAKE c
    <2>2. /\ PodId(pod.name)[1] = "pod" /\ ContainerId(pod.name, c.name)[1] = "container"
          /\ ImageId(c.image)[1] = "image"
        BY DEF PodId, ContainerId, ImageId
    <2> QED  BY <2>2, K8sEdgeOK DEF EdgeTags, EdgeSource, Class
<1> QED  BY <1>1, <1>2, <1>3 DEF MapContainers

LEMMA ServicesOK ==
    ASSUME NEW images, NEW now, NEW in
    PROVE  \A f \in MapServices(in, now) : NodeOK(f, images) \/ EdgeOK(f)
<1>1. /\ \A n : ServiceId(n)[1] = "service" /\ PodId(n)[1] = "pod" /\ DeployId(n)[1] = "deploy"
      /\ NamespaceId[1] = "ns"
    BY DEF ServiceId, PodId, DeployId, NamespaceId
<1>2. \A s : NodeOK(NodeFact(now, ServiceId(s.name), "Service", ChildOf(NamespaceId, "normal")), images)
    BY <1>1, ChildAlone, ChildNodeOK DEF NodeTags, ImageTags, RepoTags, ParentTags, TypeFits
<1>3. \A s, p : /\ EdgeOK(EdgeFact(now, "ROUTES_TO", ServiceId(s.name), PodId(p)))
                /\ EdgeOK(EdgeFact(now, "EXPOSES", ServiceId(s.name), DeployId(p)))
    BY <1>1, K8sEdgeOK DEF EdgeTags, EdgeSource, Class, ImageTags
<1> QED  BY <1>2, <1>3 DEF MapServices

LEMMA MappedFrom ==
    ASSUME NEW in, NEW now
    PROVE  \A f \in MapCluster(in, now) :
               \/ f \in MapNodes(in, now) \/ f \in MapDeployments(in, now) \/ f \in MapData(in, now)
               \/ f \in MapServices(in, now)
               \/ \E p \in in.pods : f \in MapPod(p, in, now) \cup MapContainers(p, now)
<1> DEFINE Of(p) == MapPod(p, in, now) \cup MapContainers(p, now)
           all == UNION {Of(p) : p \in in.pods}
<1>1. MapCluster(in, now) =
          MapNodes(in, now) \cup MapDeployments(in, now) \cup MapData(in, now) \cup MapServices(in, now) \cup all
    BY DEF MapCluster
<1>2. \A f \in all : \E p \in in.pods : f \in Of(p)
    <2> HIDE DEF Of
    <2> QED  OBVIOUS
<1> HIDE DEF all
<1> QED  BY <1>1, <1>2

\* Everything the k8s connector emits has its shape, at the time of the sync.
LEMMA ClusterOK ==
    ASSUME NEW images, NEW now, NEW in, \A p \in in.pods : ImagesIn(p.containers, images)
    PROVE  \A f \in MapCluster(in, now) : NodeOK(f, images) \/ EdgeOK(f)
<1>1. \A p \in in.pods : \A f \in MapPod(p, in, now) \cup MapContainers(p, now) : NodeOK(f, images) \/ EdgeOK(f)
    BY PodOK, ContainersOK
<1> QED  BY <1>1, NodesOK, DeploymentsOK, DataOK, ServicesOK, MappedFrom

LEMMA ClusterNow ==
    ASSUME NEW now, NEW in
    PROVE  \A f \in MapCluster(in, now) : f.ts = now /\ f.kind \in {"topology-node", "topology-edge"}
<1>1. \A r, t, a : NodeFact(now, r, t, a).ts = now /\ NodeFact(now, r, t, a).kind = "topology-node"
    BY DEF NodeFact
<1>2. \A t, r, s : EdgeFact(now, t, r, s).ts = now /\ EdgeFact(now, t, r, s).kind = "topology-edge"
    BY DEF EdgeFact
<1>3. \A f \in MapNodes(in, now) : f.ts = now /\ f.kind = "topology-node"  BY <1>1 DEF MapNodes
<1>4. \A f \in MapDeployments(in, now) : f.ts = now /\ f.kind \in {"topology-node", "topology-edge"}
    BY <1>1, <1>2 DEF MapDeployments
<1>5. \A f \in MapData(in, now) : f.ts = now /\ f.kind = "topology-node"  BY <1>1 DEF MapData
<1>6. \A p : \A f \in MapPod(p, in, now) : f.ts = now /\ f.kind \in {"topology-node", "topology-edge"}
    BY <1>1, <1>2 DEF MapPod
<1>7. \A p : \A f \in MapContainers(p, now) : f.ts = now /\ f.kind \in {"topology-node", "topology-edge"}
    <2>1. TAKE p
    <2>2. TAKE f \in MapContainers(p, now)
    <2>3. (\E r, t, a : f = NodeFact(now, r, t, a)) \/ (\E t, r, q : f = EdgeFact(now, t, r, q))
        BY Zenon DEF MapContainers
    <2> QED  BY <1>1, <1>2, <2>3
<1>8. \A f \in MapServices(in, now) : f.ts = now /\ f.kind \in {"topology-node", "topology-edge"}
    BY <1>1, <1>2 DEF MapServices
<1> QED  BY <1>3, <1>4, <1>5, <1>6, <1>7, <1>8, MappedFrom

-----------------------------------------------------------------------------
(* What the other connectors emit *)

LEMMA TracesOK ==
    ASSUME NEW traces, NEW answered, NEW now
    PROVE  \A f \in SyncJaeger(traces, answered, now) : EdgeOK(f) /\ f.ts = now
<1>1. \A c : EdgeOK(CallsEdge(c, now)) /\ CallsEdge(c, now).ts = now
    <2>1. TAKE c
    <2>2. PICK s, t : s = ServiceToComponentId(c[1]) /\ t = ServiceToComponentId(c[2])  OBVIOUS
    <2>3. s[1] = "comp" /\ t[1] = "comp"  BY <2>2 DEF ServiceToComponentId, ComponentId
    <2>4. CallsEdge(c, now) = FactFrom("jaeger", EdgeFact(now, "CALLS", s, t))
        BY <2>2 DEF CallsEdge
    <2>5. <<"CALLS", Class(s[1]), Class(t[1])>> \in EdgeTags /\ EdgeSource("CALLS") = "jaeger"
        BY <2>3 DEF EdgeTags, EdgeSource, Class, ImageTags
    <2>6. FactFrom("jaeger", EdgeFact(now, "CALLS", s, t)).ts = now  BY DEF FactFrom, EdgeFact
    <2> QED  BY <2>4, <2>5, <2>6, EdgeFactOK
<1> QED  BY <1>1 DEF SyncJaeger

IsImage(i) == i = [host |-> i.host, repo |-> i.repo, tag |-> i.tag, digest |-> i.digest]

LEMMA NormalForm ==
    ASSUME NEW i, IsImage(i)
    PROVE  /\ NormalizeImageRef(i) =
                  [host |-> IF i.host = "docker.io" THEN "" ELSE i.host, repo |-> i.repo,
                   tag |-> IF i.tag = "" THEN "latest" ELSE i.tag, digest |-> ""]
           /\ IsImage(NormalizeImageRef(i))
           /\ NormalizeImageRef(NormalizeImageRef(i)) = NormalizeImageRef(i)
<1>1. PICK h, r, t, d : i = [host |-> h, repo |-> r, tag |-> t, digest |-> d]  BY DEF IsImage
<1>2. \A a, b, c, e :
          LET j == [host |-> a, repo |-> b, tag |-> c, digest |-> e]
          IN NormalizeImageRef(j) =
                 [host |-> IF a = "docker.io" THEN "" ELSE a, repo |-> b,
                  tag |-> IF c = "" THEN "latest" ELSE c, digest |-> ""]
    <2>1. TAKE a, b, c, e
    <2>2. PICK j : j = [host |-> a, repo |-> b, tag |-> c, digest |-> e]  OBVIOUS
    <2>3. PICK n : n = NormalizeImageRef(j)  OBVIOUS
    <2>4. n = [[[j EXCEPT !.digest = ""] EXCEPT !.host = IF @ = "docker.io" THEN "" ELSE @]
                  EXCEPT !.tag = IF @ = "" THEN "latest" ELSE @]
        BY <2>3 DEF NormalizeImageRef
    <2>5. PICK x : x = [j EXCEPT !.digest = ""]  OBVIOUS
    <2>6. x = [host |-> a, repo |-> b, tag |-> c, digest |-> ""]  BY <2>2, <2>5
    <2>7. PICK y : y = [x EXCEPT !.host = IF @ = "docker.io" THEN "" ELSE @]  OBVIOUS
    <2>8. y = [host |-> IF a = "docker.io" THEN "" ELSE a, repo |-> b, tag |-> c, digest |-> ""]
        BY <2>6, <2>7
    <2>9. n = [y EXCEPT !.tag = IF @ = "" THEN "latest" ELSE @]  BY <2>4, <2>5, <2>7
    <2>10. n = [host |-> IF a = "docker.io" THEN "" ELSE a, repo |-> b,
                tag |-> IF c = "" THEN "latest" ELSE c, digest |-> ""]
        BY <2>8, <2>9
    <2> QED  BY <2>2, <2>3, <2>10
<1> DEFINE h2 == IF h = "docker.io" THEN "" ELSE h
           t2 == IF t = "" THEN "latest" ELSE t
<1>3. NormalizeImageRef(i) = [host |-> h2, repo |-> r, tag |-> t2, digest |-> ""]
    BY <1>1, <1>2
<1>4. h2 # "docker.io" /\ t2 # ""  OBVIOUS
<1>5. i.host = h /\ i.repo = r /\ i.tag = t  BY <1>1
<1> HIDE DEF h2, t2
<1>6. NormalizeImageRef([host |-> h2, repo |-> r, tag |-> t2, digest |-> ""]) =
          [host |-> h2, repo |-> r, tag |-> t2, digest |-> ""]
    BY <1>2, <1>4
<1> QED  BY <1>3, <1>5, <1>6 DEF IsImage, h2, t2

\* A fact of another source.
LEMMA FromSource ==
    ASSUME NEW source, NEW now, NEW rid, NEW type, NEW attrs
    PROVE  FactFrom(source, NodeFact(now, rid, type, attrs)) =
               [kind |-> "topology-node", source |-> source, rid |-> rid, type |-> type, ts |-> now,
                attrs |-> attrs]
BY DEF FactFrom, NodeFact

\* The images of this directory's Dockerfile are among the ids.
SourcesIn(dir, images) ==
    "Dockerfile" \in DOMAIN dir.files =>
        \A i \in ParseDockerfile(dir.files["Dockerfile"]) : IsImage(i) /\ ImageRefId(i) \in images

LEMMA RepoOK ==
    ASSUME NEW images, NEW now, NEW dir, SourcesIn(dir, images)
    PROVE  \A f \in {FactFrom("code-repo", g) : g \in ScanRepo(dir, now)} :
               (NodeOK(f, images) \/ EdgeOK(f)) /\ f.ts = now
<1> DEFINE id == RepoId(dir.name)
           from == IF "Dockerfile" \in DOMAIN dir.files THEN ParseDockerfile(dir.files["Dockerfile"]) ELSE {}
           libs == UNION {ParseDeps(m, dir.files[m]) : m \in DOMAIN dir.files \cap DOMAIN Manifests}
<1> DEFINE Good(g) == (NodeOK(FactFrom("code-repo", g), images) \/ EdgeOK(FactFrom("code-repo", g)))
                          /\ FactFrom("code-repo", g).ts = now
<1> USE DEF NodeTags, MiddlewareTags, ImageTags, RepoTags
<1>1. \A rid, type : rid[1] \in {"repo", "pkg"} /\ type \in {"CodeRepo", "Library"} =>
                         Good(NodeFact(now, rid, type, <<>>))
    <2>1. TAKE rid, type
    <2>2. HAVE rid[1] \in {"repo", "pkg"} /\ type \in {"CodeRepo", "Library"}
    <2>3. PICK attrs : attrs = <<>>  OBVIOUS
    <2>4. DOMAIN attrs = {} /\ attrs = [k \in DOMAIN attrs |-> attrs[k]]  BY <2>3
    <2>5. PICK f : f = [kind |-> "topology-node", source |-> "code-repo", rid |-> rid, type |-> type,
                        ts |-> now, attrs |-> attrs]
        OBVIOUS
    <2>6. NodeOK(f, images)  BY <2>2, <2>4, <2>5 DEF NodeOK, TypeFits, AttrsOK
    <2>7. f = FactFrom("code-repo", NodeFact(now, rid, type, <<>>))  BY <2>3, <2>5, FromSource
    <2>8. f.ts = now  BY <2>5
    <2> QED  BY <2>6, <2>7, <2>8
<1>2. \A i \in from : Good(NodeFact(now, ImageRefId(i), "ContainerImage",
                                    [image |-> i, correlation_keys |-> {NormalizeImageRef(i)}]))
    <2>1. TAKE i \in from
    <2>2. IsImage(i) /\ ImageRefId(i) \in images  BY DEF SourcesIn
    <2>3. PICK attrs : attrs = [image |-> i, correlation_keys |-> {NormalizeImageRef(i)}]  OBVIOUS
    <2>4. PICK rid : rid = ImageRefId(i)  OBVIOUS
    <2>5. rid[1] = "image-ref" /\ rid[2] = NormalizeImageRef(i)  BY <2>4 DEF ImageRefId
    <2>6. KeyOf(rid) = NormalizeImageRef(i)  BY <2>2, <2>5, NormalForm DEF KeyOf
    <2>7. PICK f : f = [kind |-> "topology-node", source |-> "code-repo", rid |-> rid,
                        type |-> "ContainerImage", ts |-> now, attrs |-> attrs]
        OBVIOUS
    <2>8. AttrsOK(rid, attrs, images)  BY <2>2, <2>3, <2>4, <2>5, <2>6 DEF AttrsOK, ImageAttrsOK
    <2>9. NodeOK(f, images)  BY <2>5, <2>7, <2>8 DEF NodeOK, TypeFits
    <2>10. f = FactFrom("code-repo", NodeFact(now, ImageRefId(i), "ContainerImage", attrs))
        BY <2>4, <2>7, FromSource
    <2>11. f.ts = now  BY <2>7
    <2> QED  BY <2>3, <2>9, <2>10, <2>11
<1>3. \A i : Good(EdgeFact(now, "BUILDS", id, ImageRefId(i)))
    <2>1. TAKE i
    <2>2. id[1] = "repo" /\ ImageRefId(i)[1] = "image-ref"  BY DEF RepoId, ImageRefId
    <2>3. <<"BUILDS", Class(id[1]), Class(ImageRefId(i)[1])>> \in EdgeTags
          /\ EdgeSource("BUILDS") = "code-repo"
        BY <2>2 DEF EdgeTags, EdgeSource, Class
    <2>4. FactFrom("code-repo", EdgeFact(now, "BUILDS", id, ImageRefId(i))).ts = now
        BY DEF FactFrom, EdgeFact
    <2> QED  BY <2>3, <2>4, EdgeFactOK
<1>4. \A l : Good(EdgeFact(now, "DEPENDS_ON", id, LibraryId(l)))
    <2>1. TAKE l
    <2>2. id[1] = "repo" /\ LibraryId(l)[1] = "pkg"  BY DEF RepoId, LibraryId
    <2>3. <<"DEPENDS_ON", Class(id[1]), Class(LibraryId(l)[1])>> \in EdgeTags
          /\ EdgeSource("DEPENDS_ON") = "code-repo"
        BY <2>2 DEF EdgeTags, EdgeSource, Class
    <2>4. FactFrom("code-repo", EdgeFact(now, "DEPENDS_ON", id, LibraryId(l))).ts = now
        BY DEF FactFrom, EdgeFact
    <2> QED  BY <2>3, <2>4, EdgeFactOK
<1>5. ScanRepo(dir, now) =
          {NodeFact(now, id, "CodeRepo", <<>>)}
            \cup {NodeFact(now, ImageRefId(i), "ContainerImage",
                           [image |-> i, correlation_keys |-> {NormalizeImageRef(i)}]) : i \in from}
            \cup {EdgeFact(now, "BUILDS", id, ImageRefId(i)) : i \in from}
            \cup {NodeFact(now, LibraryId(l), "Library", <<>>) : l \in libs}
            \cup {EdgeFact(now, "DEPENDS_ON", id, LibraryId(l)) : l \in libs}
    BY DEF ScanRepo
<1>6. id[1] = "repo" /\ \A l : LibraryId(l)[1] = "pkg"  BY DEF RepoId, LibraryId
<1> HIDE DEF Good, id, from, libs
<1>7. \A g \in ScanRepo(dir, now) : Good(g)  BY <1>1, <1>2, <1>3, <1>4, <1>5, <1>6
<1> QED  BY <1>7 DEF Good

LEMMA ReposOK ==
    ASSUME NEW images, NEW now, NEW tree, NEW roots,
           \A d \in Entered(tree, roots) : SourcesIn(tree[d], images)
    PROVE  \A f \in SyncCodeRepo(tree, roots, now) : (NodeOK(f, images) \/ EdgeOK(f)) /\ f.ts = now
<1>1. \A f \in SyncCodeRepo(tree, roots, now) :
          \E d \in Entered(tree, roots) : \E g \in ScanRepo(tree[d], now) : f = FactFrom("code-repo", g)
    BY DEF SyncCodeRepo
<1> QED  BY <1>1, RepoOK

LEMMA ReposFrom ==
    ASSUME NEW tree, NEW roots, NEW now
    PROVE  \A f \in SyncCodeRepo(tree, roots, now) : f.source = "code-repo"
<1>1. \A r, t, a : FactFrom("code-repo", NodeFact(now, r, t, a)).source = "code-repo"
    BY DEF FactFrom, NodeFact
<1>2. \A t, r, s : FactFrom("code-repo", EdgeFact(now, t, r, s)).source = "code-repo"
    BY DEF FactFrom, EdgeFact
<1>3. ASSUME NEW dir, NEW g \in ScanRepo(dir, now)
      PROVE  (\E r, t, a : g = NodeFact(now, r, t, a)) \/ (\E t, r, s : g = EdgeFact(now, t, r, s))
    BY <1>3, ZenonT(40) DEF ScanRepo
<1>4. ASSUME NEW f \in SyncCodeRepo(tree, roots, now)
      PROVE  \E dir : \E g \in ScanRepo(dir, now) : f = FactFrom("code-repo", g)
    BY <1>4, Zenon DEF SyncCodeRepo
<1> QED  BY <1>1, <1>2, <1>3, <1>4

LEMMA SamplesOK ==
    ASSUME NEW samples, \A s \in samples : s.value \in Int, NEW now
    PROVE  \A f \in SyncPrometheus(samples, {}, now) :
               /\ MetricOK(f) /\ f.ts = now
               /\ \E s \in samples : f.rid = ResolveTarget(s) /\ s.value >= 0 /\ s.name # <<>>
                                     /\ f.attrs = [metric |-> s.query, value |-> s.value]
BY DEF SyncPrometheus, MetricOK

-----------------------------------------------------------------------------
(* Correlation *)

RowOK(f) ==
    f = [kind |-> f.kind, source |-> f.source, rid |-> f.rid, type |-> f.type, ts |-> f.ts,
         attrs |-> f.attrs, ins |-> f.ins]

FactsOK(F, images, T) == \A f \in F : FactOK(f, images) /\ RowOK(f) /\ f.ts \in Nat /\ f.ts <= T

\* One fact of each resource id.
OneEach(F) == \A f, g \in F : f.rid = g.rid => f = g

\* There are finitely many ids, and they are in order.
OrderedIds(ids) ==
    /\ IsFiniteSet(ids)
    /\ \A a, b \in ids : a # b => (RidLess(a, b) <=> ~RidLess(b, a))
    /\ \A a, b, c \in ids : RidLess(a, b) /\ RidLess(b, c) => RidLess(a, c)

Pictured(F) == {f \in Nodes(F) : f.rid[1] \in ImageTags}

LEMMA NodeShape ==
    ASSUME NEW F, NEW images, NEW T, FactsOK(F, images, T), NEW f \in Nodes(F)
    PROVE  f \in F /\ NodeOK(f, images)
BY DEF FactsOK, FactOK, Nodes, EdgeOK, MetricOK

LEMMA EdgeShape ==
    ASSUME NEW F, NEW images, NEW T, FactsOK(F, images, T), NEW f \in Edges(F)
    PROVE  f \in F /\ EdgeOK(f)
BY DEF FactsOK, FactOK, Edges, NodeOK, MetricOK

LEMMA KeysAre ==
    ASSUME NEW F, NEW images, NEW T, FactsOK(F, images, T), NEW f \in Nodes(F)
    PROVE  Keys(f) = IF f.rid[1] \in ImageTags THEN {KeyOf(f.rid)} ELSE {}
<1>1. NodeOK(f, images)  BY NodeShape
<1> QED  BY <1>1 DEF NodeOK, AttrsOK, ImageAttrsOK, Keys, Attr

LEMMA SharingIs ==
    ASSUME NEW F, NEW images, NEW T, FactsOK(F, images, T), NEW f \in Nodes(F), NEW g \in Nodes(F)
    PROVE  SharesKey(f, g) <=> f \in Pictured(F) /\ g \in Pictured(F) /\ KeyOf(f.rid) = KeyOf(g.rid)
<1>1. /\ Keys(f) = IF f.rid[1] \in ImageTags THEN {KeyOf(f.rid)} ELSE {}
      /\ Keys(g) = IF g.rid[1] \in ImageTags THEN {KeyOf(g.rid)} ELSE {}
    BY KeysAre
<1> QED  BY <1>1 DEF SharesKey, Pictured

\* The images with the same normal form.
Mates(F, r) == {f.rid : f \in {g \in Pictured(F) : KeyOf(g.rid) = KeyOf(r)}}

\* A cluster is all the images of one normal form.
LEMMA ClustersAre ==
    ASSUME NEW F, NEW images, NEW T, FactsOK(F, images, T)
    PROVE  /\ \A c \in Clusters(F) : \E f \in Pictured(F) : c = Mates(F, f.rid)
           /\ \A f, g \in Pictured(F) :
                  f.rid # g.rid /\ KeyOf(f.rid) = KeyOf(g.rid) => Mates(F, f.rid) \in Clusters(F)
<1> DEFINE keyed == {f \in Nodes(F) : Keys(f) # {}}
           shared == {f \in keyed : \E g \in keyed : g.rid # f.rid /\ SharesKey(f, g)}
           Apart(c) == c # {} /\ Closed(shared, c)
<1>1. Clusters(F) = {c \in SUBSET {f.rid : f \in shared} :
                        Apart(c) /\ \A d \in SUBSET c : Apart(d) => d = c}
    BY DEF Clusters
<1>2. keyed = Pictured(F)
    <2>1. \A f \in Nodes(F) : Keys(f) # {} <=> f.rid[1] \in ImageTags  BY KeysAre
    <2> QED  BY <2>1 DEF Pictured
<1>3. \A f, g \in Pictured(F) : SharesKey(f, g) <=> KeyOf(f.rid) = KeyOf(g.rid)
    BY SharingIs DEF Pictured
<1>4. shared = {f \in Pictured(F) : \E g \in Pictured(F) : g.rid # f.rid /\ KeyOf(f.rid) = KeyOf(g.rid)}
    BY <1>2, <1>3
<1> HIDE DEF keyed, shared
<1>5. \A c : Closed(shared, c) <=>
                 \A f, g \in shared : f.rid \in c /\ KeyOf(f.rid) = KeyOf(g.rid) => g.rid \in c
    <2>1. \A f, g \in shared : SharesKey(f, g) <=> KeyOf(f.rid) = KeyOf(g.rid)  BY <1>3, <1>4
    <2> QED  BY <2>1 DEF Closed
<1>6. \A f \in shared : /\ Mates(F, f.rid) \subseteq {g.rid : g \in shared}
                        /\ Apart(Mates(F, f.rid))
    <2>1. TAKE f \in shared
    <2>2. PICK g \in Pictured(F) : g.rid # f.rid /\ KeyOf(f.rid) = KeyOf(g.rid)  BY <1>4
    <2>3. \A h \in Pictured(F) : KeyOf(h.rid) = KeyOf(f.rid) => h \in shared  BY <1>4, <2>2
    <2>4. f.rid \in Mates(F, f.rid)  BY <1>4 DEF Mates
    <2>5. \A h \in shared : h.rid \in Mates(F, f.rid) <=> KeyOf(h.rid) = KeyOf(f.rid)
        BY <1>4 DEF Mates
    <2>6. Closed(shared, Mates(F, f.rid))  BY <1>5, <2>5
    <2> QED  BY <2>3, <2>4, <2>6 DEF Mates
<1>7. ASSUME NEW c \in Clusters(F)  PROVE \E f \in Pictured(F) : c = Mates(F, f.rid)
    <2>1. c \subseteq {f.rid : f \in shared} /\ Apart(c) /\ \A d \in SUBSET c : Apart(d) => d = c
        BY <1>1, <1>7
    <2>2. PICK f \in shared : f.rid \in c  BY <2>1
    <2>3. Mates(F, f.rid) \subseteq c
        <3>1. \A g \in shared : KeyOf(f.rid) = KeyOf(g.rid) => g.rid \in c  BY <1>5, <2>1, <2>2
        <3>2. \A r \in Mates(F, f.rid) : \E g \in shared : g.rid = r /\ KeyOf(g.rid) = KeyOf(f.rid)
            BY <1>6 DEF Mates
        <3> QED  BY <3>1, <3>2
    <2>4. Mates(F, f.rid) = c  BY <1>6, <2>1, <2>3
    <2> QED  BY <1>4, <2>4
<1>8. ASSUME NEW f \in Pictured(F), NEW g \in Pictured(F), f.rid # g.rid, KeyOf(f.rid) = KeyOf(g.rid)
      PROVE  Mates(F, f.rid) \in Clusters(F)
    <2>1. f \in shared  BY <1>4, <1>8
    <2>2. ASSUME NEW d \in SUBSET Mates(F, f.rid), Apart(d)  PROVE d = Mates(F, f.rid)
        <3>1. PICK h \in shared : h.rid \in d /\ KeyOf(h.rid) = KeyOf(f.rid)
            <4>1. PICK r \in d : r \in Mates(F, f.rid)  BY <2>2
            <4>2. PICK h \in shared : h.rid = r  BY <1>6, <2>1, <4>1
            <4> QED  BY <4>1, <4>2 DEF Mates
        <3>2. \A k \in shared : KeyOf(h.rid) = KeyOf(k.rid) => k.rid \in d  BY <1>5, <2>2, <3>1
        <3>3. \A r \in Mates(F, f.rid) : \E k \in shared : k.rid = r /\ KeyOf(k.rid) = KeyOf(f.rid)
            BY <1>6, <2>1 DEF Mates
        <3> QED  BY <3>1, <3>2, <3>3
    <2> QED  BY <1>1, <1>6, <2>1, <2>2
<1> QED  BY <1>7, <1>8

\* The winner of a cluster is one of it.
LEMMA WinnerIsThere ==
    ASSUME NEW F, NEW images, NEW T, FactsOK(F, images, T), OrderedIds(images),
           NEW c, c \subseteq {f.rid : f \in Pictured(F)}, c # {}
    PROVE  Winner(F, c) \in c
<1> DEFINE P(r) == RidPriority(F, r)
           Beats(q, r) == P(q) > P(r) \/ (P(q) = P(r) /\ RidLess(q, r))
           Above(r) == {q \in c : q # r /\ Beats(q, r)}
<1>1. \A r \in c : P(r) \in Nat
    <2>1. TAKE r \in c
    <2>2. PICK S : S = {SourcePriority(f.source) : f \in {g \in Nodes(F) : g.rid = r}}  OBVIOUS
    <2>3. S # {}  BY <2>2 DEF Pictured
    <2>4. \A f \in Nodes(F) : f.rid = r => f.source \in {"k8s", "code-repo"}  BY NodeShape DEF NodeOK
    <2>5. S \subseteq 1..10  BY <2>2, <2>4 DEF SourcePriority
    <2>6. Max(S) \in 1..10  BY <2>3, <2>5, MaxIsThere
    <2> QED  BY <2>2, <2>6 DEF RidPriority
<1>2. c \subseteq images /\ IsFiniteSet(c)
    <2>1. \A f \in Pictured(F) : f.rid \in images  BY NodeShape DEF Pictured, NodeOK, AttrsOK
    <2>2. c \subseteq images  BY <2>1
    <2> QED  BY <2>2, FS_Subset DEF OrderedIds
<1>3. \A q, r \in c : q # r => (Beats(q, r) <=> ~Beats(r, q))
    <2>1. \A q, r \in c : q # r => (RidLess(q, r) <=> ~RidLess(r, q))  BY <1>2 DEF OrderedIds
    <2> HIDE DEF P
    <2> QED  BY <1>1, <2>1
<1>4. \A q, r, s \in c : Beats(q, r) /\ Beats(r, s) => Beats(q, s)
    <2>1. \A q, r, s \in c : RidLess(q, r) /\ RidLess(r, s) => RidLess(q, s)  BY <1>2 DEF OrderedIds
    <2> HIDE DEF P
    <2> QED  BY <1>1, <2>1
<1> HIDE DEF P, Beats
<1>5. \E w \in c : Above(w) = {}
    <2>1. PICK sizes : sizes = {Cardinality(Above(r)) : r \in c}  OBVIOUS
    <2>2. \A r \in c : IsFiniteSet(Above(r)) /\ Cardinality(Above(r)) \in Nat
        BY <1>2, FS_Subset, FS_CardinalityType
    <2>3. sizes \in SUBSET Nat /\ sizes # {}  BY <2>1, <2>2
    <2>4. PICK n \in sizes : \A k \in sizes : n <= k  BY <2>3, LeastNatural
    <2>5. PICK w \in c : n = Cardinality(Above(w))  BY <2>1, <2>4
    <2>6. ASSUME NEW q \in Above(w)  PROVE FALSE
        <3>1. Above(q) \subseteq Above(w) /\ q \notin Above(q) /\ q \in c
            BY <1>3, <1>4, <2>6
        <3>2. Above(q) # Above(w)  BY <2>6, <3>1
        <3>3. Cardinality(Above(q)) <= Cardinality(Above(w))
              /\ Cardinality(Above(q)) # Cardinality(Above(w))
            <4> HIDE DEF Above
            <4> QED  BY <2>2, <3>1, <3>2, FS_Subset
        <3>4. n <= Cardinality(Above(q))  BY <2>1, <2>4, <3>1
        <3> QED  BY <2>2, <2>5, <3>1, <3>3, <3>4
    <2> QED  BY <2>6
<1>6. \E w \in c : \A r \in c \ {w} : Beats(w, r)  BY <1>3, <1>5
<1> QED  BY <1>6 DEF Winner, Beats, P

LEMMA ClusterOfImages ==
    ASSUME NEW F, NEW images, NEW T, FactsOK(F, images, T), NEW c \in Clusters(F)
    PROVE  c # {} /\ c \subseteq {f.rid : f \in Pictured(F)} /\ c \subseteq images /\ (IsFiniteSet(images) => IsFiniteSet(c))
<1>1. PICK f \in Pictured(F) : c = Mates(F, f.rid)  BY ClustersAre
<1>2. f.rid \in c /\ c \subseteq {g.rid : g \in Pictured(F)}  BY <1>1 DEF Mates
<1>3. \A g \in Pictured(F) : g.rid \in images
    <2>1. \A g \in Pictured(F) : NodeOK(g, images) /\ g.rid[1] \in ImageTags  BY NodeShape DEF Pictured
    <2> QED  BY <2>1 DEF NodeOK, AttrsOK
<1>4. c \subseteq images  BY <1>2, <1>3
<1> QED  BY <1>2, <1>4, FS_Subset

\* What stands for a resource: the winner of its cluster, or itself.
Stands(F, r) == Remapped(Remap(F), r)

LEMMA StandsFor ==
    ASSUME NEW F, NEW images, NEW T, FactsOK(F, images, T), OrderedIds(images)
    PROVE  /\ \A f, g \in Pictured(F) :
                  KeyOf(f.rid) = KeyOf(g.rid) => Stands(F, f.rid) = Stands(F, g.rid)
           /\ \A c \in Clusters(F) : Winner(F, c) \in c /\ Stands(F, Winner(F, c)) = Winner(F, c)
           /\ \A r \in DOMAIN Remap(F) : \E c \in Clusters(F) : r \in c /\ Stands(F, r) = Winner(F, c)
           /\ DOMAIN Remap(F) = UNION Clusters(F)
<1>1. DOMAIN Remap(F) = UNION Clusters(F)  BY DEF Remap
<1>2. \A c \in Clusters(F) : c \subseteq {f.rid : f \in Pictured(F)} /\ c # {}
    BY ClusterOfImages
<1>3. \A c \in Clusters(F) : Winner(F, c) \in c  BY <1>2, WinnerIsThere
<1>4. \A c, d \in Clusters(F) : \A r : r \in c /\ r \in d => c = d
    <2>1. TAKE c, d \in Clusters(F)
    <2>2. PICK f, g \in Pictured(F) : c = Mates(F, f.rid) /\ d = Mates(F, g.rid)  BY ClustersAre
    <2> QED  BY <2>2 DEF Mates
<1>5. \A c \in Clusters(F) : \A r \in c : Stands(F, r) = Winner(F, c)
    <2>1. TAKE c \in Clusters(F)
    <2>2. TAKE r \in c
    <2>3. r \in UNION Clusters(F)  BY <2>1
    <2>4. (CHOOSE d \in Clusters(F) : r \in d) = c  BY <1>4
    <2>5. Remap(F) = [q \in UNION Clusters(F) |-> Winner(F, CHOOSE d \in Clusters(F) : q \in d)]
        BY DEF Remap
    <2>6. Remap(F)[r] = Winner(F, c)  BY <2>3, <2>4, <2>5
    <2> QED  BY <1>1, <2>3, <2>6 DEF Stands, Remapped
<1>6. \A r : r \notin DOMAIN Remap(F) => Stands(F, r) = r  BY DEF Stands, Remapped
<1>7. \A r \in DOMAIN Remap(F) : \E c \in Clusters(F) : r \in c /\ Stands(F, r) = Winner(F, c)
    BY <1>1, <1>5
<1>8. \A c \in Clusters(F) : Stands(F, Winner(F, c)) = Winner(F, c)  BY <1>3, <1>5
<1>9. ASSUME NEW f \in Pictured(F), NEW g \in Pictured(F), KeyOf(f.rid) = KeyOf(g.rid), f.rid # g.rid
      PROVE  Stands(F, f.rid) = Stands(F, g.rid)
    <2>1. Mates(F, f.rid) \in Clusters(F)  BY <1>9, ClustersAre
    <2>2. f.rid \in Mates(F, f.rid) /\ g.rid \in Mates(F, f.rid)  BY <1>9 DEF Mates
    <2> QED  BY <1>5, <2>1, <2>2
<1> QED  BY <1>1, <1>3, <1>7, <1>8, <1>9

LEMMA StandsForImage ==
    ASSUME NEW F, NEW images, NEW T, FactsOK(F, images, T), OrderedIds(images),
           NEW r, Stands(F, r) # r
    PROVE  \E f, g \in Pictured(F) : /\ f.rid = r /\ g.rid = Stands(F, r)
                                     /\ KeyOf(f.rid) = KeyOf(g.rid) /\ Stands(F, g.rid) = g.rid
<1>1. r \in DOMAIN Remap(F)  BY DEF Stands, Remapped
<1>2. PICK c \in Clusters(F) : r \in c /\ Stands(F, r) = Winner(F, c)  BY <1>1, StandsFor
<1>3. Winner(F, c) \in c /\ Stands(F, Winner(F, c)) = Winner(F, c)  BY StandsFor
<1>4. PICK h \in Pictured(F) : c = Mates(F, h.rid)  BY ClustersAre
<1>5. PICK f \in Pictured(F) : f.rid = r /\ KeyOf(f.rid) = KeyOf(h.rid)  BY <1>2, <1>4 DEF Mates
<1>6. PICK g \in Pictured(F) : g.rid = Winner(F, c) /\ KeyOf(g.rid) = KeyOf(h.rid)
    BY <1>3, <1>4 DEF Mates
<1> QED  BY <1>2, <1>3, <1>5, <1>6

\* The fact of a resource.
LEMMA BaseIs ==
    ASSUME NEW F, NEW images, NEW T \in Nat, FactsOK(F, images, T), OneEach(F), NEW f \in Nodes(F)
    PROVE  Base(F, f.rid) = f
<1> DEFINE same == {g \in Nodes(F) : g.rid = f.rid}
<1>1. same = {f}  BY DEF OneEach, Nodes
<1>2. f.ts \in Nat /\ f.ts <= T  BY DEF FactsOK, Nodes
<1>3. Newest({f}) \subseteq {f} /\ \E g \in Newest({f}) : g.rid = f.rid  BY <1>2, NewestOf
<1>4. Newest(same) = {f}  BY <1>1, <1>3
<1> QED  BY <1>4 DEF Base

\* Images of one normal form have the same attributes: nothing is filled in.
LEMMA MergesAre ==
    ASSUME NEW F, NEW images, NEW T \in Nat, FactsOK(F, images, T), OneEach(F), OrderedIds(images),
           NEW c \in Clusters(F)
    PROVE  Merges(F, c) = {Base(F, Winner(F, c))}
<1>1. Winner(F, c) \in c /\ c \subseteq {f.rid : f \in Pictured(F)}
    BY StandsFor, ClusterOfImages
<1>2. PICK w \in Pictured(F) : w.rid = Winner(F, c)  BY <1>1
<1>3. Base(F, Winner(F, c)) = w  BY <1>2, BaseIs DEF Pictured
<1>4. \A f \in Pictured(F) : DOMAIN f.attrs = {"image", "correlation_keys"}
                             /\ f.attrs = [k \in DOMAIN f.attrs |-> f.attrs[k]]
    <2>1. \A f \in Pictured(F) : NodeOK(f, images) /\ f.rid[1] \in ImageTags  BY NodeShape DEF Pictured
    <2> QED  BY <2>1 DEF NodeOK, AttrsOK, ImageAttrsOK
<1>5. \A f \in Pictured(F) : Filled(w.attrs, f.attrs) = w.attrs  BY <1>4 DEF Filled
<1>6. IsFiniteSet(c \ {Winner(F, c)})
    BY ClusterOfImages, FS_Subset DEF OrderedIds
<1>7. ASSUME NEW order \in SetToSeqs(c \ {Winner(F, c)})
      PROVE  /\ Len(order) \in Nat
             /\ \A n \in 1..Len(order) : Filled(w.attrs, Base(F, order[n]).attrs) = w.attrs
    <2>1. PICK size \in Nat : size = Cardinality(c \ {Winner(F, c)})  BY <1>6, FS_CardinalityType
    <2>2. order \in [1..size -> c \ {Winner(F, c)}]  BY <2>1 DEF SetToSeqs
    <2>3. Len(order) = size /\ \A n \in 1..Len(order) : order[n] \in c  BY <2>2
    <2>4. \A n \in 1..Len(order) : \E f \in Pictured(F) : Base(F, order[n]) = f
        BY <1>1, <2>3, BaseIs DEF Pictured
    <2> QED  BY <1>5, <2>1, <2>3, <2>4
<1> DEFINE Chain(order, g) ==
               g = [n \in 0..Len(order) |->
                        IF n = 0 THEN Base(F, Winner(F, c)).attrs
                        ELSE Filled(g[n - 1], Base(F, order[n]).attrs)]
           Fill(order) == (CHOOSE g : Chain(order, g))[Len(order)]
<1>8. Merges(F, c) = {[Base(F, Winner(F, c)) EXCEPT !.attrs = Fill(order)] :
                          order \in SetToSeqs(c \ {Winner(F, c)})}
    BY Zenon DEF Merges
<1>9. ASSUME NEW order \in SetToSeqs(c \ {Winner(F, c)})
      PROVE  Fill(order) = w.attrs
    <2>1. PICK g : g = CHOOSE h : Chain(order, h)  OBVIOUS
    <2>2. Chain(order, [n \in 0..Len(order) |-> w.attrs])
        <3>1. PICK h : h = [n \in 0..Len(order) |-> w.attrs]  OBVIOUS
        <3>2. \A n \in 0..Len(order) : h[n] = IF n = 0 THEN Base(F, Winner(F, c)).attrs
                                              ELSE Filled(h[n - 1], Base(F, order[n]).attrs)
            <4>1. TAKE n \in 0..Len(order)
            <4>2. h[n] = w.attrs  BY <3>1
            <4>3. n # 0 => n \in 1..Len(order) /\ h[n - 1] = w.attrs  BY <1>7, <3>1
            <4> QED  BY <1>3, <1>7, <4>2, <4>3
        <3>3. h = [n \in 0..Len(order) |-> h[n]]  BY <3>1
        <3> QED  BY <3>1, <3>2, <3>3
    <2>3. Chain(order, g)  BY <2>1, <2>2
    <2>4. \A n \in 0..Len(order) : g[n] = IF n = 0 THEN w.attrs ELSE Filled(g[n - 1], Base(F, order[n]).attrs)
        BY <1>3, <2>3
    <2>5. \A n \in 0..Len(order) : g[n] = w.attrs
        <3> DEFINE Bad == {n \in 0..Len(order) : g[n] # w.attrs}
        <3>1. SUFFICES ASSUME Bad # {}  PROVE FALSE  OBVIOUS
        <3>2. PICK n \in Bad : \A k \in Bad : n <= k
            <4>1. Bad \in SUBSET Nat  OBVIOUS
            <4> QED  BY <3>1, <4>1, LeastNatural
        <3>3. n # 0  BY <2>4, <3>2
        <3>4. n - 1 \in 0..Len(order) /\ n - 1 \notin Bad  BY <1>7, <3>2, <3>3
        <3>5. n \in 1..Len(order) /\ g[n - 1] = w.attrs  BY <1>7, <3>2, <3>3, <3>4
        <3>6. g[n] = w.attrs  BY <1>7, <2>4, <3>3, <3>5
        <3> QED  BY <3>2, <3>6
    <2> HIDE DEF Chain
    <2> QED  BY <1>7, <2>1, <2>5
<1> HIDE DEF Fill
<1>10. [w EXCEPT !.attrs = w.attrs] = w
    <2>1. w = [kind |-> w.kind, source |-> w.source, rid |-> w.rid, type |-> w.type, ts |-> w.ts,
               attrs |-> w.attrs, ins |-> w.ins]
        BY DEF FactsOK, RowOK, Pictured, Nodes
    <2>2. PICK x : x = [w EXCEPT !.attrs = w.attrs]  OBVIOUS
    <2> QED  BY <2>1, <2>2
<1>11. \E order : order \in SetToSeqs(c \ {Winner(F, c)})
    <2>1. PICK S : S = c \ {Winner(F, c)}  OBVIOUS
    <2>2. IsFiniteSet(S)  BY <1>6, <2>1
    <2>3. PICK order : order \in Bijection(1..Cardinality(S), S)
        BY <2>2, FS_CardinalityType DEF ExistsBijection
    <2>4. order \in SetToSeqs(S)  BY <2>3 DEF SetToSeqs, Bijection, Injection, IsInjective
    <2> QED  BY <2>1, <2>4
<1> QED  BY <1>3, <1>8, <1>9, <1>10, <1>11

\* Ends and parents keep their kind, and nothing but an image is replaced.
LEMMA StandsKeeps ==
    ASSUME NEW F, NEW images, NEW T, FactsOK(F, images, T), OrderedIds(images)
    PROVE  \A r : /\ Class(Stands(F, r)[1]) = Class(r[1])
                  /\ r[1] \notin ImageTags => Stands(F, r) = r
<1>1. \A f \in Pictured(F) : f.rid[1] \in ImageTags  BY DEF Pictured
<1>2. ASSUME NEW r, Stands(F, r) # r
      PROVE  r[1] \in ImageTags /\ Stands(F, r)[1] \in ImageTags
    <2>1. PICK f, g \in Pictured(F) : f.rid = r /\ g.rid = Stands(F, r)  BY <1>2, StandsForImage
    <2> QED  BY <1>1, <2>1
<1>3. \A r : Stands(F, r) = r \/ (r[1] \in ImageTags /\ Stands(F, r)[1] \in ImageTags)  BY <1>2
<1>4. \A r : Class(Stands(F, r)[1]) = Class(r[1])  BY <1>3 DEF Class
<1> QED  BY <1>3, <1>4

\* The facts that the graph is made of: the nodes that stand for themselves, and the
\* edges between what stands for their ends.
LEMMA Rewritten ==
    ASSUME NEW F, NEW images, NEW T \in Nat, FactsOK(F, images, T), OneEach(F), OrderedIds(images)
    PROVE  LET G == RewriteByCorrelationKey(F)
           IN /\ Nodes(G) = {f \in Nodes(F) : Stands(F, f.rid) = f.rid}
              /\ \A g \in Edges(G) : /\ EdgeOK(g) /\ g.ts \in Nat /\ g.ts <= T
                                     /\ \E f \in Edges(F) : g.rid = <<"edge", f.attrs.edge_type,
                                            Stands(F, f.attrs.source), Stands(F, f.attrs.target)>>
              /\ \A f \in Edges(F) : \E g \in Edges(G) : g.rid = <<"edge", f.attrs.edge_type,
                                            Stands(F, f.attrs.source), Stands(F, f.attrs.target)>>
<1>1. PICK G : G = RewriteByCorrelationKey(F)  OBVIOUS
<1>2. \A f \in Nodes(F) : RemapNodeParent(Remap(F), f) = f
    <2>1. TAKE f \in Nodes(F)
    <2>2. NodeOK(f, images) /\ RowOK(f)  BY NodeShape DEF FactsOK
    <2>3. CASE "parent_resource_id" \notin DOMAIN f.attrs  BY <2>3 DEF RemapNodeParent
    <2>4. CASE "parent_resource_id" \in DOMAIN f.attrs
        <3>1. <<f.attrs.parent_resource_id[1], f.rid[1]>> \in ParentTags
              /\ f.attrs = [k \in DOMAIN f.attrs |-> f.attrs[k]]
            BY <2>2, <2>4 DEF NodeOK, AttrsOK
        <3>2. f.attrs.parent_resource_id[1] \notin ImageTags  BY <3>1 DEF ParentTags, ImageTags
        <3>3. Remapped(Remap(F), f.attrs.parent_resource_id) = f.attrs.parent_resource_id
            BY <3>2, StandsKeeps DEF Stands
        <3>4. RemapNodeParent(Remap(F), f) =
                  [f EXCEPT !.attrs.parent_resource_id = Remapped(Remap(F), @)]
            BY <2>4 DEF RemapNodeParent
        <3>5. PICK a : a = [f.attrs EXCEPT !.parent_resource_id = f.attrs.parent_resource_id]  OBVIOUS
        <3>6. a = f.attrs  BY <3>1, <3>5
        <3>7. PICK x : x = [f EXCEPT !.attrs = a]  OBVIOUS
        <3>8. x = f  BY <2>2, <3>6, <3>7 DEF RowOK
        <3>9. RemapNodeParent(Remap(F), f) = x  BY <3>3, <3>4, <3>5, <3>7
        <3> QED  BY <3>8, <3>9
    <2> QED  BY <2>3, <2>4
<1>3. \A f \in Edges(F) :
          LET g == RemapEdge(Remap(F), f)
          IN /\ EdgeOK(g) /\ g.ts = f.ts
             /\ g.rid = <<"edge", f.attrs.edge_type, Stands(F, f.attrs.source), Stands(F, f.attrs.target)>>
    <2>1. TAKE f \in Edges(F)
    <2>2. EdgeOK(f) /\ RowOK(f)  BY EdgeShape DEF FactsOK
    <2>3. PICK s, t, e : s = f.attrs.source /\ t = f.attrs.target /\ e = f.attrs.edge_type  OBVIOUS
    <2>4. f.attrs = [source |-> s, target |-> t, edge_type |-> e]  BY <2>2, <2>3 DEF EdgeOK
    <2>5. PICK ms, mt : ms = Stands(F, s) /\ mt = Stands(F, t)  OBVIOUS
    <2>6. DOMAIN f.attrs = {"source", "target", "edge_type"}  BY <2>4
    <2>7. PICK a : a = [f.attrs EXCEPT !.source = ms, !.target = mt]  OBVIOUS
    <2>8. a = [source |-> ms, target |-> mt, edge_type |-> e]
        <3>1. PICK b : b = [f.attrs EXCEPT !.source = ms]  OBVIOUS
        <3>2. b = [source |-> ms, target |-> t, edge_type |-> e]  BY <2>4, <3>1
        <3>3. a = [b EXCEPT !.target = mt]  BY <2>7, <3>1
        <3> QED  BY <3>2, <3>3
    <2>9. PICK g : g = [f EXCEPT !.rid = <<"edge", e, ms, mt>>, !.attrs = a]  OBVIOUS
    <2>10. g = RemapEdge(Remap(F), f)
        BY <2>3, <2>5, <2>6, <2>7, <2>9 DEF RemapEdge, Stands, Attr
    <2>11. /\ g.kind = f.kind /\ g.source = f.source /\ g.ts = f.ts
           /\ g.rid = <<"edge", e, ms, mt>> /\ g.attrs = a
        <3>1. PICK x : x = [f EXCEPT !.rid = <<"edge", e, ms, mt>>]  OBVIOUS
        <3>2. x = [kind |-> f.kind, source |-> f.source, rid |-> <<"edge", e, ms, mt>>, type |-> f.type,
                   ts |-> f.ts, attrs |-> f.attrs, ins |-> f.ins]
            BY <2>2, <3>1 DEF RowOK
        <3>3. g = [x EXCEPT !.attrs = a]  BY <2>9, <3>1
        <3> QED  BY <3>2, <3>3
    <2>12. a.source = ms /\ a.target = mt /\ a.edge_type = e  BY <2>8
    <2>13. Class(ms[1]) = Class(s[1]) /\ Class(mt[1]) = Class(t[1])  BY <2>5, StandsKeeps
    <2>14. EdgeOK(g)  BY <2>2, <2>3, <2>8, <2>11, <2>12, <2>13 DEF EdgeOK
    <2> QED  BY <2>3, <2>5, <2>10, <2>11, <2>14
<1>4. PICK won : won = {CHOOSE m \in Merges(F, c) : TRUE : c \in Clusters(F)}  OBVIOUS
<1>5. PICK kept : kept = {RemapNodeParent(Remap(F), f) :
                              f \in {g \in Nodes(F) : g.rid \notin DOMAIN Remap(F)}}
    OBVIOUS
<1>6. PICK ends : ends = {RemapEdge(Remap(F), f) : f \in Edges(F)}  OBVIOUS
<1>7. kept = {f \in Nodes(F) : f.rid \notin DOMAIN Remap(F)}  BY <1>2, <1>5
<1>8. won = {f \in Nodes(F) : f.rid \in DOMAIN Remap(F) /\ Stands(F, f.rid) = f.rid}
    <2>1. \A c \in Clusters(F) : (CHOOSE m \in Merges(F, c) : TRUE) = Base(F, Winner(F, c))  BY MergesAre
    <2>2. \A c \in Clusters(F) : \E f \in Nodes(F) : f.rid = Winner(F, c) /\ Base(F, Winner(F, c)) = f
        <3>1. TAKE c \in Clusters(F)
        <3>2. Winner(F, c) \in c /\ c \subseteq {f.rid : f \in Pictured(F)}
            BY StandsFor, ClusterOfImages
        <3>3. PICK f \in Pictured(F) : f.rid = Winner(F, c)  BY <3>2
        <3> QED  BY <3>3, BaseIs DEF Pictured
    <2>3. \A c \in Clusters(F) : Winner(F, c) \in DOMAIN Remap(F) /\ Stands(F, Winner(F, c)) = Winner(F, c)
        BY StandsFor
    <2>4. \A f \in won : /\ f \in Nodes(F) /\ f.rid \in DOMAIN Remap(F)
                         /\ Stands(F, f.rid) = f.rid
        BY <1>4, <2>1, <2>2, <2>3
    <2>5. ASSUME NEW f \in Nodes(F), f.rid \in DOMAIN Remap(F), Stands(F, f.rid) = f.rid
          PROVE  f \in won
        <3>1. PICK c \in Clusters(F) : Stands(F, f.rid) = Winner(F, c)  BY <2>5, StandsFor
        <3>2. Base(F, Winner(F, c)) = f  BY <2>5, <3>1, BaseIs
        <3> QED  BY <1>4, <2>1, <3>1, <3>2
    <2> QED  BY <2>4, <2>5
<1>9. \A r : r \notin DOMAIN Remap(F) => Stands(F, r) = r  BY DEF Stands, Remapped
<1>10. CASE DOMAIN Remap(F) # {}
    <2>1. G = won \cup kept \cup ends  BY <1>1, <1>4, <1>5, <1>6, <1>10 DEF RewriteByCorrelationKey
    <2>2. \A g \in ends : g.kind = "topology-edge"  BY <1>3, <1>6 DEF EdgeOK
    <2>3. \A f \in won \cup kept : f.kind = "topology-node"  BY <1>7, <1>8 DEF Nodes
    <2>4. Nodes(G) = won \cup kept /\ Edges(G) = ends  BY <2>1, <2>2, <2>3 DEF Nodes, Edges
    <2>5. won \cup kept = {f \in Nodes(F) : Stands(F, f.rid) = f.rid}  BY <1>7, <1>8, <1>9
    <2>6. \A f \in Edges(F) : f.ts \in Nat /\ f.ts <= T  BY DEF Edges, FactsOK
    <2>7. \A g \in ends : /\ EdgeOK(g) /\ g.ts \in Nat /\ g.ts <= T
                          /\ \E f \in Edges(F) : g.rid = <<"edge", f.attrs.edge_type,
                                 Stands(F, f.attrs.source), Stands(F, f.attrs.target)>>
        BY <1>3, <1>6, <2>6
    <2>8. \A f \in Edges(F) : \E g \in ends : g.rid = <<"edge", f.attrs.edge_type,
                                 Stands(F, f.attrs.source), Stands(F, f.attrs.target)>>
        BY <1>3, <1>6
    <2> QED  BY <1>1, <2>4, <2>5, <2>7, <2>8
<1>11. CASE DOMAIN Remap(F) = {}
    <2>1. G = F  BY <1>1, <1>11 DEF RewriteByCorrelationKey
    <2>2. \A r : Stands(F, r) = r  BY <1>9, <1>11
    <2>3. \A f \in Edges(F) : /\ EdgeOK(f) /\ f.ts \in Nat /\ f.ts <= T
                              /\ f.rid = <<"edge", f.attrs.edge_type, f.attrs.source, f.attrs.target>>
        BY EdgeShape DEF FactsOK, EdgeOK
    <2> QED  BY <1>1, <2>1, <2>2, <2>3
<1> QED  BY <1>10, <1>11

-----------------------------------------------------------------------------
(* The graph *)

LEMMA NewestSame ==
    ASSUME NEW F, OneEach(F), NEW T \in Nat, \A f \in F : f.ts \in Nat /\ f.ts <= T
    PROVE  Newest(F) = F
<1>1. Newest(F) \subseteq F /\ \A f \in F : \E g \in Newest(F) : g.rid = f.rid  BY NewestOf
<1>2. \A f \in F : f \in Newest(F)  BY <1>1 DEF OneEach
<1> QED  BY <1>1, <1>2

\* An edge is of a type that relates these kinds, or leads from a parent.
EdgeFits(e) ==
    /\ e = Edge(e.source, e.target, e.edge_type)
    /\ \/ <<e.edge_type, Class(e.source[1]), Class(e.target[1])>> \in EdgeTags
       \/ e.edge_type = "CONTAINS" /\ <<e.source[1], e.target[1]>> \in ParentTags

TopologyOK(G) ==
    /\ G = [nodes |-> G.nodes, edges |-> G.edges]
    /\ G.nodes = [r \in DOMAIN G.nodes |-> G.nodes[r]]
    /\ \A e \in G.edges : EdgeFits(e) /\ e.source \in DOMAIN G.nodes /\ e.target \in DOMAIN G.nodes

LEMMA ResolvedGraph ==
    ASSUME NEW F, NEW images, NEW T \in Nat, FactsOK(F, images, T), OneEach(F), OrderedIds(images),
           NEW G, G = Resolve(F)
    PROVE  /\ TopologyOK(G)
           /\ \A r : r \in DOMAIN G.nodes <=> \E f \in Nodes(F) : f.rid = r /\ Stands(F, r) = r
           /\ \A f \in Nodes(F) :
                  Stands(F, f.rid) = f.rid => G.nodes[f.rid] = [type |-> f.type, attrs |-> f.attrs]
           /\ \A f \in Nodes(F) :
                  /\ "parent_resource_id" \in DOMAIN f.attrs
                  /\ f.rid \in DOMAIN G.nodes /\ f.attrs.parent_resource_id \in DOMAIN G.nodes
                  => Edge(f.attrs.parent_resource_id, f.rid, "CONTAINS") \in G.edges
           /\ \A f \in Edges(F) : \A s, t :
                  /\ s = Stands(F, f.attrs.source) /\ t = Stands(F, f.attrs.target)
                  /\ s # t /\ s \in DOMAIN G.nodes /\ t \in DOMAIN G.nodes
                  => Edge(s, t, f.attrs.edge_type) \in G.edges
<1>1. PICK R : R = RewriteByCorrelationKey(F)  OBVIOUS
<1>2. Nodes(R) = {f \in Nodes(F) : Stands(F, f.rid) = f.rid}  BY <1>1, Rewritten
<1>3. \A g \in Edges(R) : EdgeOK(g) /\ g.ts \in Nat /\ g.ts <= T  BY <1>1, Rewritten
<1>4. \A f \in Edges(F) : \E g \in Edges(R) : g.rid = <<"edge", f.attrs.edge_type,
          Stands(F, f.attrs.source), Stands(F, f.attrs.target)>>
    BY <1>1, Rewritten
<1>5. PICK nodes : nodes = Newest(Nodes(R))  OBVIOUS
<1>6. nodes = Nodes(R)
    <2>1. OneEach(Nodes(R)) /\ \A f \in Nodes(R) : f.ts \in Nat /\ f.ts <= T
        BY <1>2 DEF OneEach, Nodes, FactsOK
    <2> QED  BY <1>5, <2>1, NewestSame
<1>7. PICK links : links = Newest(Edges(R))  OBVIOUS
<1>8. links \subseteq Edges(R) /\ \A g \in Edges(R) : \E h \in links : h.rid = g.rid
    BY <1>3, <1>7, NewestOf
<1>9. PICK ids : ids = {f.rid : f \in nodes}  OBVIOUS
<1> DEFINE NodeOf(r) == CHOOSE f \in nodes : f.rid = r
<1>10. PICK drawn : drawn = ContainsEdges(nodes) \cup ExplicitEdges(links)  OBVIOUS
<1>11. G = [nodes |-> [r \in ids |-> [type |-> NodeOf(r).type, attrs |-> NodeOf(r).attrs]],
            edges |-> {e \in drawn : {e.source, e.target} \subseteq ids}]
    BY <1>1, <1>5, <1>7, <1>9, <1>10 DEF Resolve, FactsToGraph
<1>12. \A f \in nodes : NodeOf(f.rid) = f
    BY <1>2, <1>6 DEF OneEach, Nodes
<1> HIDE DEF NodeOf
<1>13. /\ DOMAIN G.nodes = ids /\ G.nodes = [r \in DOMAIN G.nodes |-> G.nodes[r]]
       /\ G = [nodes |-> G.nodes, edges |-> G.edges]
       /\ G.edges = {e \in drawn : {e.source, e.target} \subseteq ids}
       /\ \A r \in ids : G.nodes[r] = [type |-> NodeOf(r).type, attrs |-> NodeOf(r).attrs]
    BY <1>11
<1>14. \A r : r \in DOMAIN G.nodes <=> \E f \in Nodes(F) : f.rid = r /\ Stands(F, r) = r
    BY <1>2, <1>6, <1>9, <1>13
<1>15. \A f \in Nodes(F) :
          Stands(F, f.rid) = f.rid => G.nodes[f.rid] = [type |-> f.type, attrs |-> f.attrs]
    BY <1>2, <1>6, <1>9, <1>12, <1>13
<1>16. \A f \in Nodes(F) :
          "parent_resource_id" \in DOMAIN f.attrs =>
              /\ <<f.attrs.parent_resource_id[1], f.rid[1]>> \in ParentTags
              /\ f.attrs.parent_resource_id # f.rid
    <2>1. \A f \in Nodes(F) : NodeOK(f, images)  BY NodeShape
    <2>2. \A t : <<t, t>> \notin ParentTags  BY DEF ParentTags, MiddlewareTags
    <2> QED  BY <2>1, <2>2 DEF NodeOK, AttrsOK
<1>17. \A s, t, e : Edge(s, t, e).source = s /\ Edge(s, t, e).target = t /\ Edge(s, t, e).edge_type = e
    BY DEF Edge
<1>18. \A f \in Nodes(F) :
          /\ "parent_resource_id" \in DOMAIN f.attrs
          /\ f.rid \in DOMAIN G.nodes /\ f.attrs.parent_resource_id \in DOMAIN G.nodes
          => Edge(f.attrs.parent_resource_id, f.rid, "CONTAINS") \in G.edges
    <2>1. TAKE f \in Nodes(F)
    <2>2. HAVE /\ "parent_resource_id" \in DOMAIN f.attrs
               /\ f.rid \in DOMAIN G.nodes /\ f.attrs.parent_resource_id \in DOMAIN G.nodes
    <2>3. f \in nodes  BY <1>2, <1>6, <1>14, <2>2
    <2>4. Edge(f.attrs.parent_resource_id, f.rid, "CONTAINS") \in ContainsEdges(nodes)
        BY <1>16, <2>2, <2>3 DEF ContainsEdges
    <2> QED  BY <1>10, <1>13, <1>17, <2>2, <2>4
<1>19. \A g \in Edges(R) : /\ {"source", "target"} \subseteq DOMAIN g.attrs
                           /\ Attr(g, "edge_type", "RELATED_TO") = g.attrs.edge_type
                           /\ g.rid = <<"edge", g.attrs.edge_type, g.attrs.source, g.attrs.target>>
    <2>1. TAKE g \in Edges(R)
    <2>2. EdgeOK(g)  BY <1>3
    <2>3. DOMAIN g.attrs = {"source", "target", "edge_type"}  BY <2>2 DEF EdgeOK
    <2> QED  BY <2>2, <2>3 DEF EdgeOK, Attr
<1>20. ExplicitEdges(links) =
          {Edge(g.attrs.source, g.attrs.target, g.attrs.edge_type) :
              g \in {h \in links : h.attrs.source # h.attrs.target}}
    <2>1. {g \in links : {"source", "target"} \subseteq DOMAIN g.attrs} = links  BY <1>8, <1>19
    <2>2. \A g \in links : Attr(g, "edge_type", "RELATED_TO") = g.attrs.edge_type  BY <1>8, <1>19
    <2> QED  BY <2>1, <2>2 DEF ExplicitEdges
<1>21. ASSUME NEW f \in Edges(F), NEW s, NEW t,
              s = Stands(F, f.attrs.source), t = Stands(F, f.attrs.target),
              s # t, s \in DOMAIN G.nodes, t \in DOMAIN G.nodes
       PROVE  Edge(s, t, f.attrs.edge_type) \in G.edges
    <2>1. PICK g \in links : g.rid = <<"edge", f.attrs.edge_type, s, t>>  BY <1>4, <1>8, <1>21
    <2>2. g.attrs.source = s /\ g.attrs.target = t /\ g.attrs.edge_type = f.attrs.edge_type
        <3>1. g.rid = <<"edge", g.attrs.edge_type, g.attrs.source, g.attrs.target>>  BY <1>8, <1>19
        <3> QED  BY <2>1, <3>1
    <2>3. Edge(s, t, f.attrs.edge_type) \in ExplicitEdges(links)  BY <1>20, <1>21, <2>2
    <2> QED  BY <1>10, <1>13, <1>17, <1>21, <2>3
<1>22. ASSUME NEW e \in G.edges
       PROVE  EdgeFits(e) /\ e.source \in DOMAIN G.nodes /\ e.target \in DOMAIN G.nodes
    <2>1. e \in drawn /\ e.source \in DOMAIN G.nodes /\ e.target \in DOMAIN G.nodes  BY <1>13
    <2>2. CASE e \in ContainsEdges(nodes)
        <3>1. PICK f \in nodes : /\ "parent_resource_id" \in DOMAIN f.attrs
                                 /\ e = Edge(f.attrs.parent_resource_id, f.rid, "CONTAINS")
            BY <2>2 DEF ContainsEdges
        <3>2. f \in Nodes(F)  BY <1>2, <1>6
        <3>3. <<e.source[1], e.target[1]>> \in ParentTags  BY <1>16, <1>17, <3>1, <3>2
        <3> QED  BY <1>17, <2>1, <3>1, <3>3 DEF EdgeFits
    <2>3. CASE e \in ExplicitEdges(links)
        <3>1. PICK g \in links : e = Edge(g.attrs.source, g.attrs.target, g.attrs.edge_type)
            BY <1>20, <2>3
        <3>2. <<g.attrs.edge_type, Class(g.attrs.source[1]), Class(g.attrs.target[1])>> \in EdgeTags
            BY <1>3, <1>8 DEF EdgeOK
        <3> QED  BY <1>17, <2>1, <3>1, <3>2 DEF EdgeFits
    <2> QED  BY <1>10, <2>1, <2>2, <2>3
<1>23. TopologyOK(G)  BY <1>13, <1>22 DEF TopologyOK
<1> QED  BY <1>14, <1>15, <1>18, <1>21, <1>23

-----------------------------------------------------------------------------
(* The search *)

\* One step of the search.
Onward(last, edges, dir, d) == Filled(last, [r \in UNION {Next1(edges, dir, q) : q \in DOMAIN last} |-> d])

Grown(reach, edges, dir) == reach \cup UNION {Next1(edges, dir, q) : q \in reach}

LEMMA OnwardReaches ==
    ASSUME NEW last, NEW edges, NEW dir, NEW d
    PROVE  DOMAIN Onward(last, edges, dir, d) = Grown(DOMAIN last, edges, dir)
<1>1. PICK more : more = [r \in UNION {Next1(edges, dir, q) : q \in DOMAIN last} |-> d]  OBVIOUS
<1>2. DOMAIN more = UNION {Next1(edges, dir, q) : q \in DOMAIN last}  BY <1>1
<1>3. PICK all : all = Filled(last, more)  OBVIOUS
<1>4. DOMAIN all = DOMAIN last \cup DOMAIN more  BY <1>3 DEF Filled
<1> QED  BY <1>1, <1>2, <1>3, <1>4 DEF Onward, Grown

Typed(topology, types) == {e \in topology.edges : e.edge_type \in types}
Reach(topology, start, types, dir, d) == DOMAIN Visited(topology, start, types, dir, d)

GoesOn(topology, start, types, dir, d) ==
    Visited(topology, start, types, dir, d + 1) =
        Onward(Visited(topology, start, types, dir, d), Typed(topology, types), dir, d + 1)

\* What the search finds to each depth, and at which distance.
LEMMA VisitedSteps ==
    ASSUME NEW topology, NEW start, NEW types, NEW dir
    PROVE  /\ Visited(topology, start, types, dir, 0) = [r \in {start} \cap DOMAIN topology.nodes |-> 0]
           /\ \A d \in Nat : GoesOn(topology, start, types, dir, d)
<1> DEFINE edges == Typed(topology, types)
           first == [r \in {start} \cap DOMAIN topology.nodes |-> 0]
           Step(last, d) == Onward(last, edges, dir, d)
           At(g, d) == IF d = 0 THEN first ELSE Step(g[d - 1], d)
           Chain(n, g) == \A d \in 0..n : g[d] = At(g, d)
           All(g) == g = [d \in Nat |-> At(g, d)]
           found == CHOOSE g : All(g)
<1>1. \A d : Visited(topology, start, types, dir, d) = found[d]
    BY Zenon DEF Visited, Onward, Typed
<1> HIDE DEF Step
<1>2. \A n \in Nat : \E g : Chain(n, g)
    <2> DEFINE Missing == {n \in Nat : ~\E g : Chain(n, g)}
    <2>1. SUFFICES ASSUME Missing # {}  PROVE FALSE  OBVIOUS
    <2>2. PICK n \in Missing : \A k \in Missing : n <= k  BY <2>1, LeastNatural
    <2>3. CASE n = 0
        <3>1. PICK g : g = [d \in {0} |-> first]  OBVIOUS
        <3>2. Chain(0, g)  BY <3>1
        <3> QED  BY <2>2, <2>3, <3>2
    <2>4. CASE n # 0
        <3>1. n - 1 \in Nat /\ n \in Nat /\ n - 1 \notin Missing
            <4>1. n \in Nat /\ \A k \in Missing : n <= k  BY <2>2
            <4> HIDE DEF Missing
            <4> QED  BY <2>4, <4>1
        <3>2. PICK g : Chain(n - 1, g)  BY <3>1
        <3>3. PICK h : h = [d \in 0..n |-> IF d = n THEN Step(g[n - 1], n) ELSE g[d]]  OBVIOUS
        <3>4. ASSUME NEW d \in 0..n  PROVE h[d] = At(h, d)
            <4>1. CASE d = n  BY <2>4, <3>1, <3>3, <4>1
            <4>2. CASE d # n
                <5>1. d \in 0..(n - 1) /\ h[d] = g[d]  BY <3>1, <3>3, <4>2
                <5>2. g[d] = At(g, d)  BY <3>2, <5>1
                <5>3. d # 0 => h[d - 1] = g[d - 1]  BY <3>1, <3>3, <4>2
                <5> QED  BY <5>1, <5>2, <5>3
            <4> QED  BY <4>1, <4>2
        <3>5. Chain(n, h)  BY <3>4
        <3> QED  BY <2>2, <3>5
    <2> QED  BY <2>3, <2>4
<1>3. ASSUME NEW m \in Nat, NEW n \in Nat, NEW g, NEW h, Chain(m, g), Chain(n, h), m <= n
      PROVE  g[m] = h[m]
    <2> DEFINE Apart == {d \in 0..m : g[d] # h[d]}
    <2>1. SUFFICES ASSUME Apart # {}  PROVE FALSE  OBVIOUS
    <2>2. PICK d \in Apart : \A k \in Apart : d <= k
        <3>1. Apart \in SUBSET Nat  OBVIOUS
        <3> QED  BY <2>1, <3>1, LeastNatural
    <2>3. d \in 0..m /\ d \in 0..n  BY <1>3, <2>2
    <2>4. g[d] = At(g, d) /\ h[d] = At(h, d)  BY <1>3, <2>3
    <2>5. d # 0  BY <2>2, <2>4
    <2>6. d - 1 \in 0..m /\ d - 1 \notin Apart  BY <2>2, <2>3, <2>5
    <2> QED  BY <2>2, <2>4, <2>5, <2>6
<1>4. \E g : All(g)
    <2> DEFINE Upto(n) == CHOOSE g : Chain(n, g)
    <2>1. \A n \in Nat : Chain(n, Upto(n))  BY <1>2
    <2> HIDE DEF Upto
    <2>2. PICK h : h = [n \in Nat |-> Upto(n)[n]]  OBVIOUS
    <2>3. ASSUME NEW n \in Nat  PROVE h[n] = At(h, n)
        <3>1. Upto(n)[n] = At(Upto(n), n)  BY <2>1
        <3>2. CASE n = 0  BY <2>2, <3>1, <3>2
        <3>3. CASE n # 0
            <4>1. n - 1 \in Nat /\ n - 1 <= n  BY <3>3
            <4>2. Upto(n - 1)[n - 1] = Upto(n)[n - 1]
                <5>1. Chain(n - 1, Upto(n - 1)) /\ Chain(n, Upto(n))  BY <2>1, <4>1
                <5> HIDE DEF Chain
                <5> QED  BY <1>3, <4>1, <5>1
            <4> QED  BY <2>2, <3>1, <3>3, <4>1, <4>2
        <3> QED  BY <3>2, <3>3
    <2>4. h = [n \in Nat |-> h[n]]  BY <2>2
    <2>5. All(h)  BY <2>3, <2>4
    <2> QED  BY <2>5
<1>5. All(found)  BY <1>4
<1> HIDE DEF found
<1>6. \A d \in Nat : found[d] = At(found, d)  BY <1>5
<1>7. found[0] = first  BY <1>6
<1>8. \A d \in Nat : found[d + 1] = Step(found[d], d + 1)  BY <1>6
<1> QED  BY <1>1, <1>7, <1>8, Zenon DEF Step, GoesOn

LEMMA VisitedNext ==
    ASSUME NEW topology, NEW start, NEW types, NEW dir
    PROVE  /\ Reach(topology, start, types, dir, 0) = {start} \cap DOMAIN topology.nodes
           /\ \A d \in Nat : Reach(topology, start, types, dir, d + 1) =
                  Grown(Reach(topology, start, types, dir, d), Typed(topology, types), dir)
<1>1. PICK first : first = Visited(topology, start, types, dir, 0)  OBVIOUS
<1>2. DOMAIN first = {start} \cap DOMAIN topology.nodes
    <2>1. first = [r \in {start} \cap DOMAIN topology.nodes |-> 0]  BY <1>1, VisitedSteps, Zenon
    <2> QED  BY <2>1
<1>3. ASSUME NEW d \in Nat
      PROVE  Reach(topology, start, types, dir, d + 1) =
                 Grown(Reach(topology, start, types, dir, d), Typed(topology, types), dir)
    <2>1. PICK last : last = Visited(topology, start, types, dir, d)  OBVIOUS
    <2>2. Visited(topology, start, types, dir, d + 1) = Onward(last, Typed(topology, types), dir, d + 1)
        <3>1. GoesOn(topology, start, types, dir, d)  BY VisitedSteps
        <3> QED  BY <2>1, <3>1, Zenon DEF GoesOn
    <2>3. DOMAIN Onward(last, Typed(topology, types), dir, d + 1) = Grown(DOMAIN last, Typed(topology, types), dir)
        BY OnwardReaches
    <2> QED  BY <2>1, <2>2, <2>3, Zenon DEF Reach
<1> QED  BY <1>1, <1>2, <1>3, Zenon DEF Reach

LEMMA ReachesOn ==
    ASSUME NEW topology, NEW start, NEW types, NEW dir, NEW n \in Nat
    PROVE  /\ Reach(topology, start, types, dir, n) \subseteq Reach(topology, start, types, dir, n + 1)
           /\ \A e \in topology.edges : e.edge_type \in types =>
                  /\ dir \in {"reverse", "both"} /\ e.target \in Reach(topology, start, types, dir, n)
                     => e.source \in Reach(topology, start, types, dir, n + 1)
                  /\ dir \in {"forward", "both"} /\ e.source \in Reach(topology, start, types, dir, n)
                     => e.target \in Reach(topology, start, types, dir, n + 1)
<1>0. Reach(topology, start, types, dir, n + 1) =
          Grown(Reach(topology, start, types, dir, n), Typed(topology, types), dir)
    BY VisitedNext
<1> DEFINE edges == Typed(topology, types)
           V == Reach(topology, start, types, dir, n)
<1>1. Reach(topology, start, types, dir, n + 1) = V \cup UNION {Next1(edges, dir, q) : q \in V}
    BY <1>0, Zenon DEF Grown
<1>2. \A e \in edges : /\ dir \in {"reverse", "both"} => e.source \in Next1(edges, dir, e.target)
                       /\ dir \in {"forward", "both"} => e.target \in Next1(edges, dir, e.source)
    BY DEF Next1
<1> HIDE DEF V
<1>3. \A q \in V : Next1(edges, dir, q) \subseteq Reach(topology, start, types, dir, n + 1)
    <2> HIDE DEF edges
    <2> QED  BY <1>1
<1> QED  BY <1>1, <1>2, <1>3 DEF V, Typed

\* Two steps against the edges, by depths that are at least that.
LEMMA ReachesBack ==
    ASSUME NEW topology, NEW start \in DOMAIN topology.nodes, NEW types, NEW dir \in {"reverse", "both"},
           NEW n \in {2, 4, 5}
    PROVE  /\ start \in Reach(topology, start, types, dir, n)
           /\ \A e \in topology.edges : e.edge_type \in types /\ e.target = start =>
                  /\ e.source \in Reach(topology, start, types, dir, n)
                  /\ \A f \in topology.edges : f.edge_type \in types /\ f.target = e.source =>
                         f.source \in Reach(topology, start, types, dir, n)
<1> DEFINE V(d) == Reach(topology, start, types, dir, d)
<1>1. V(0) = {start}  BY VisitedNext
<1>2. \A d \in Nat : V(d) \subseteq V(d + 1)  BY ReachesOn
<1>3. \A d \in Nat : \A e \in topology.edges : e.edge_type \in types /\ e.target \in V(d) => e.source \in V(d + 1)
    BY ReachesOn
<1> HIDE DEF V
<1>4. V(0) \subseteq V(1) /\ V(1) \subseteq V(2) /\ V(2) \subseteq V(3) /\ V(3) \subseteq V(4) /\ V(4) \subseteq V(5)
    <2>1. V(0) \subseteq V(0 + 1) /\ V(1) \subseteq V(1 + 1) /\ V(2) \subseteq V(2 + 1)
          /\ V(3) \subseteq V(3 + 1) /\ V(4) \subseteq V(4 + 1)
        BY <1>2
    <2> QED  BY <2>1
<1>5. V(2) \subseteq V(n) /\ V(1) \subseteq V(n) /\ V(0) \subseteq V(n)  BY <1>4
<1>6. \A e \in topology.edges : e.edge_type \in types /\ e.target \in V(0) => e.source \in V(1)
    <2>1. \A e \in topology.edges : e.edge_type \in types /\ e.target \in V(0) => e.source \in V(0 + 1)
        BY <1>3
    <2> QED  BY <2>1
<1>7. \A e \in topology.edges : e.edge_type \in types /\ e.target \in V(1) => e.source \in V(2)
    <2>1. \A e \in topology.edges : e.edge_type \in types /\ e.target \in V(1) => e.source \in V(1 + 1)
        BY <1>3
    <2> QED  BY <2>1
<1>8. ASSUME NEW e \in topology.edges, e.edge_type \in types, e.target = start
      PROVE  /\ e.source \in V(n)
             /\ \A f \in topology.edges : f.edge_type \in types /\ f.target = e.source => f.source \in V(n)
    <2>1. e.source \in V(1)  BY <1>1, <1>6, <1>8
    <2> QED  BY <1>5, <1>7, <2>1
<1> QED  BY <1>1, <1>5, <1>8 DEF V

\* Three steps against the edges.
LEMMA ReachesFarBack ==
    ASSUME NEW topology, NEW start \in DOMAIN topology.nodes, NEW types, NEW dir \in {"reverse", "both"},
           NEW e \in topology.edges, NEW f \in topology.edges, NEW g \in topology.edges,
           {e.edge_type, f.edge_type, g.edge_type} \subseteq types,
           e.target = start, f.target = e.source, g.target = f.source
    PROVE  {e.source, f.source, g.source} \subseteq Reach(topology, start, types, dir, 4)
<1> DEFINE V(d) == Reach(topology, start, types, dir, d)
<1>1. V(0) = {start}  BY VisitedNext
<1>2. \A d \in Nat : V(d) \subseteq V(d + 1)  BY ReachesOn
<1>3. \A d \in Nat : \A h \in topology.edges : h.edge_type \in types /\ h.target \in V(d) => h.source \in V(d + 1)
    BY ReachesOn
<1> HIDE DEF V
<1>4. e.source \in V(0 + 1)  BY <1>1, <1>3
<1>5. f.source \in V(1 + 1)  BY <1>3, <1>4
<1>6. g.source \in V(2 + 1)  BY <1>3, <1>5
<1>7. V(1) \subseteq V(1 + 1) /\ V(2) \subseteq V(2 + 1) /\ V(3) \subseteq V(3 + 1)  BY <1>2
<1>8. {e.source, f.source, g.source} \subseteq V(4)  BY <1>4, <1>5, <1>6, <1>7
<1> QED  BY <1>8 DEF V

\* A step with an edge, and from there another, either way.
LEMMA ReachesForth ==
    ASSUME NEW topology, NEW start \in DOMAIN topology.nodes, NEW types, NEW n \in {2, 5},
           NEW e \in topology.edges, e.edge_type \in types, e.source = start
    PROVE  /\ e.target \in Reach(topology, start, types, "both", n)
           /\ \A f \in topology.edges : f.edge_type \in types =>
                  /\ f.source = e.target => f.target \in Reach(topology, start, types, "both", n)
                  /\ f.target = e.target => f.source \in Reach(topology, start, types, "both", n)
<1> DEFINE V(d) == Reach(topology, start, types, "both", d)
<1>1. V(0) = {start}  BY VisitedNext
<1>2. \A d \in Nat : V(d) \subseteq V(d + 1)  BY ReachesOn
<1>3. \A d \in Nat : \A h \in topology.edges : h.edge_type \in types =>
          /\ h.target \in V(d) => h.source \in V(d + 1)
          /\ h.source \in V(d) => h.target \in V(d + 1)
    BY ReachesOn
<1> HIDE DEF V
<1>4. e.target \in V(0 + 1)  BY <1>1, <1>3
<1>5. \A f \in topology.edges : f.edge_type \in types =>
          /\ f.source = e.target => f.target \in V(1 + 1)
          /\ f.target = e.target => f.source \in V(1 + 1)
    BY <1>3, <1>4
<1>6. V(1) \subseteq V(1 + 1) /\ V(2) \subseteq V(2 + 1) /\ V(3) \subseteq V(3 + 1) /\ V(4) \subseteq V(4 + 1)
    BY <1>2
<1>7. V(1) \subseteq V(n) /\ V(2) \subseteq V(n)  BY <1>6
<1> QED  BY <1>4, <1>5, <1>7 DEF V

\* Three steps with the edges, and from there another.
LEMMA ReachesFarForth ==
    ASSUME NEW topology, NEW start \in DOMAIN topology.nodes, NEW types,
           NEW e \in topology.edges, NEW f \in topology.edges, NEW g \in topology.edges,
           {e.edge_type, f.edge_type, g.edge_type} \subseteq types,
           e.source = start, f.source = e.target, g.source = f.target
    PROVE  /\ {e.target, f.target, g.target} \subseteq Reach(topology, start, types, "forward", 6)
           /\ \A h \in topology.edges : h.edge_type \in types /\ h.source = g.target =>
                  h.target \in Reach(topology, start, types, "forward", 6)
<1> DEFINE V(d) == Reach(topology, start, types, "forward", d)
<1>1. V(0) = {start}  BY VisitedNext
<1>2. \A d \in Nat : V(d) \subseteq V(d + 1)  BY ReachesOn
<1>3. \A d \in Nat : \A h \in topology.edges : h.edge_type \in types /\ h.source \in V(d) => h.target \in V(d + 1)
    BY ReachesOn
<1> HIDE DEF V
<1>4. e.target \in V(0 + 1)  BY <1>1, <1>3
<1>5. f.target \in V(1 + 1)  BY <1>3, <1>4
<1>6. g.target \in V(2 + 1)  BY <1>3, <1>5
<1>7. \A h \in topology.edges : h.edge_type \in types /\ h.source = g.target => h.target \in V(3 + 1)
    BY <1>3, <1>6
<1>8. /\ V(1) \subseteq V(1 + 1) /\ V(2) \subseteq V(2 + 1) /\ V(3) \subseteq V(3 + 1)
      /\ V(4) \subseteq V(4 + 1) /\ V(5) \subseteq V(5 + 1)
    BY <1>2
<1>9. V(1) \subseteq V(6) /\ V(2) \subseteq V(6) /\ V(3) \subseteq V(6) /\ V(4) \subseteq V(6)  BY <1>8
<1> QED  BY <1>4, <1>5, <1>6, <1>7, <1>9 DEF V

\* What the views and searches make of what they visit.
LEMMA SubgraphHolds ==
    ASSUME NEW topology, NEW start, NEW depth, NEW types, NEW dir
    PROVE  \A r : r \in DOMAIN topology.nodes /\ r \in Reach(topology, start, types, dir, depth) =>
               r \in DOMAIN Subgraph(topology, start, depth, types, dir).nodes
<1>1. PICK visited : visited = Reach(topology, start, types, dir, depth)  OBVIOUS
<1>2. PICK nodes : nodes = Restrict(topology.nodes, DOMAIN topology.nodes \cap visited)  OBVIOUS
<1>3. DOMAIN nodes = DOMAIN topology.nodes \cap visited  BY <1>2 DEF Restrict
<1>4. Subgraph(topology, start, depth, types, dir).nodes = nodes
    BY <1>1, <1>2 DEF Subgraph, Reach
<1> QED  BY <1>1, <1>3, <1>4

LEMMA PropagatesTo ==
    ASSUME NEW topology, NEW target
    PROVE  \A r : r # target /\ r \in Reach(topology, target, PropagationEdges, "reverse", 4) =>
               r \in DOMAIN DerivePropagation(topology, target)
<1>1. PICK visited : visited = Visited(topology, target, PropagationEdges, "reverse", PropagationDepth)  OBVIOUS
<1>2. PICK found : found = Restrict(visited, DOMAIN visited \ {target})  OBVIOUS
<1>3. DOMAIN found = DOMAIN visited \ {target}  BY <1>2 DEF Restrict
<1>4. DerivePropagation(topology, target) = found  BY <1>1, <1>2 DEF DerivePropagation, Distances
<1> QED  BY <1>1, <1>3, <1>4 DEF Reach, PropagationDepth

LEMMA DescendsTo ==
    ASSUME NEW topology, NEW start
    PROVE  \A r : r # start /\ r \in Reach(topology, start, PropagationEdges, "forward", 6) =>
               r \in FindDescendants(topology, start)
<1>1. PICK visited : visited = Visited(topology, start, PropagationEdges, "forward", DescendantsDepth)  OBVIOUS
<1>2. PICK found : found = Restrict(visited, DOMAIN visited \ {start})  OBVIOUS
<1>3. DOMAIN found = DOMAIN visited \ {start}  BY <1>2 DEF Restrict
<1>4. FindDescendants(topology, start) = DOMAIN found  BY <1>1, <1>2 DEF FindDescendants, Distances
<1> QED  BY <1>1, <1>3, <1>4 DEF Reach, DescendantsDepth

\* What is found keeps its distance, and what is found later is farther away.
LEMMA OnwardKeeps ==
    ASSUME NEW last, NEW edges, NEW dir, NEW d, NEW next, next = Onward(last, edges, dir, d)
    PROVE  /\ \A r \in DOMAIN last : r \in DOMAIN next /\ next[r] = last[r]
           /\ \A r \in DOMAIN next \ DOMAIN last : next[r] = d
<1>1. PICK more : more = [r \in UNION {Next1(edges, dir, q) : q \in DOMAIN last} |-> d]  OBVIOUS
<1>2. \A r \in DOMAIN more : more[r] = d  BY <1>1
<1>3. next = [k \in DOMAIN last \cup DOMAIN more |-> IF k \in DOMAIN last THEN last[k] ELSE more[k]]
    BY <1>1 DEF Onward, Filled
<1> QED  BY <1>2, <1>3

\* Against the edges, who leads to the start is one step away, who leads there is
\* no more than two, and everyone else is two at least.
LEMMA StepsAway ==
    ASSUME NEW topology, NEW start \in DOMAIN topology.nodes, NEW types,
           NEW V, V = Visited(topology, start, types, "reverse", 4)
    PROVE  /\ \A r \in DOMAIN V :
                  /\ V[r] \in 0..4
                  /\ \/ V[r] >= 2
                     \/ r = start
                     \/ \E e \in Typed(topology, types) : e.target = start /\ e.source = r
           /\ \A e, f \in Typed(topology, types) :
                  e.target = start /\ f.target = e.source => f.source \in DOMAIN V /\ V[f.source] <= 2
<1> DEFINE edges == Typed(topology, types)
           At(d) == Visited(topology, start, types, "reverse", d)
<1>1. \A d \in Nat : At(d + 1) = Onward(At(d), edges, "reverse", d + 1)
    <2>1. TAKE d \in Nat
    <2>2. GoesOn(topology, start, types, "reverse", d)  BY VisitedSteps
    <2> QED  BY <2>2, Zenon DEF GoesOn
<1>2. DOMAIN At(0) = {start} /\ At(0)[start] = 0
    <2>1. At(0) = [r \in {start} \cap DOMAIN topology.nodes |-> 0]  BY VisitedSteps, Zenon
    <2> HIDE DEF At
    <2> QED  BY <2>1
<1> HIDE DEF At
<1>3. \A d \in Nat : /\ \A r \in DOMAIN At(d) : r \in DOMAIN At(d + 1) /\ At(d + 1)[r] = At(d)[r]
                     /\ \A r \in DOMAIN At(d + 1) \ DOMAIN At(d) : At(d + 1)[r] = d + 1
                     /\ DOMAIN At(d + 1) = Grown(DOMAIN At(d), edges, "reverse")
    <2>1. TAKE d \in Nat
    <2>2. PICK last, next : last = At(d) /\ next = At(d + 1)  OBVIOUS
    <2>3. next = Onward(last, edges, "reverse", d + 1)  BY <1>1, <2>2, Zenon
    <2> HIDE DEF edges
    <2>4. /\ \A r \in DOMAIN last : r \in DOMAIN next /\ next[r] = last[r]
          /\ \A r \in DOMAIN next \ DOMAIN last : next[r] = d + 1
          /\ DOMAIN next = Grown(DOMAIN last, edges, "reverse")
        BY <2>3, OnwardKeeps, OnwardReaches
    <2> QED  BY <2>2, <2>4, Zenon
<1>4. \A R, r : r \in Grown(R, edges, "reverse") <=> r \in R \/ \E e \in edges : e.target \in R /\ e.source = r
    <2> HIDE DEF edges
    <2>1. \A q, r : r \in Next1(edges, "reverse", q) <=> \E e \in edges : e.target = q /\ e.source = r  BY DEF Next1
    <2>2. TAKE R, r
    <2>3. r \in UNION {Next1(edges, "reverse", q) : q \in R} <=> \E q \in R : r \in Next1(edges, "reverse", q)
        <3>1. PICK N : N = [q \in R |-> Next1(edges, "reverse", q)]  OBVIOUS
        <3>2. {Next1(edges, "reverse", q) : q \in R} = {N[q] : q \in R}  BY <3>1
        <3>3. r \in UNION {N[q] : q \in R} <=> \E q \in R : r \in N[q]  OBVIOUS
        <3> QED  BY <3>1, <3>2, <3>3
    <2>4. r \in Grown(R, edges, "reverse") <=> r \in R \/ \E q \in R : r \in Next1(edges, "reverse", q)
        BY <2>3, Zenon DEF Grown
    <2>5. (\E q \in R : r \in Next1(edges, "reverse", q)) <=> \E e \in edges : e.target \in R /\ e.source = r
        BY <2>1
    <2> QED  BY <2>4, <2>5
<1> HIDE DEF edges
<1>5. PICK v0, v1, v2, v3, v4 : v0 = At(0) /\ v1 = At(1) /\ v2 = At(2) /\ v3 = At(3) /\ v4 = At(4)  OBVIOUS
<1>6. /\ \A r \in DOMAIN v0 : r \in DOMAIN v1 /\ v1[r] = v0[r]
      /\ \A r \in DOMAIN v1 \ DOMAIN v0 : v1[r] = 1
      /\ DOMAIN v1 = Grown(DOMAIN v0, edges, "reverse")
    BY <1>3, <1>5, 0 + 1 = 1
<1>7. /\ \A r \in DOMAIN v1 : r \in DOMAIN v2 /\ v2[r] = v1[r]
      /\ \A r \in DOMAIN v2 \ DOMAIN v1 : v2[r] = 2
      /\ DOMAIN v2 = Grown(DOMAIN v1, edges, "reverse")
    BY <1>3, <1>5, 1 + 1 = 2
<1>8. /\ \A r \in DOMAIN v2 : r \in DOMAIN v3 /\ v3[r] = v2[r]
      /\ \A r \in DOMAIN v3 \ DOMAIN v2 : v3[r] = 3
    BY <1>3, <1>5, 2 + 1 = 3
<1>9. /\ \A r \in DOMAIN v3 : r \in DOMAIN v4 /\ v4[r] = v3[r]
      /\ \A r \in DOMAIN v4 \ DOMAIN v3 : v4[r] = 4
    BY <1>3, <1>5, 3 + 1 = 4
<1>10. V = v4 /\ DOMAIN v0 = {start} /\ v0[start] = 0  BY <1>2, <1>5 DEF At
<1>11. \A r \in DOMAIN v1 : v1[r] \in {0, 1} /\ (r = start \/ \E e \in edges : e.target = start /\ e.source = r)
    BY <1>4, <1>6, <1>10
<1>12. \A r \in DOMAIN v2 : v2[r] \in 0..2 /\ v4[r] = v2[r] /\ r \in DOMAIN v4
    BY <1>7, <1>8, <1>9, <1>11
<1>13. \A r \in DOMAIN v4 : r \in DOMAIN v1 \/ v4[r] \in {2, 3, 4}
    BY <1>7, <1>8, <1>9
<1>14. \A r \in DOMAIN V : V[r] \in 0..4
    BY <1>7, <1>10, <1>11, <1>12, <1>13
<1>15. ASSUME NEW e \in edges, NEW f \in edges, e.target = start, f.target = e.source
       PROVE  f.source \in DOMAIN V /\ V[f.source] <= 2
    <2>1. e.source \in DOMAIN v1  BY <1>4, <1>6, <1>10, <1>15
    <2>2. f.source \in DOMAIN v2  BY <1>4, <1>7, <1>15, <2>1
    <2> QED  BY <1>10, <1>12, <2>2
<1>16. \A r \in DOMAIN V : V[r] >= 2 \/ r = start \/ \E e \in edges : e.target = start /\ e.source = r
    BY <1>10, <1>11, <1>13
<1> QED  BY <1>14, <1>15, <1>16 DEF edges

-----------------------------------------------------------------------------
(* What is stored *)

LEMMA StoredOK ==
    ASSUME NEW rows, NEW images, NEW now \in Nat, FactsOK(rows, images, now),
           NEW batch, \A f \in batch : FactOK(f, images) /\ f.ts = now
    PROVE  FactsOK(UpsertFacts(rows, batch, now), images, now)
<1>1. SUFFICES ASSUME NEW r \in UpsertFacts(rows, batch, now)
               PROVE  FactOK(r, images) /\ RowOK(r) /\ r.ts \in Nat /\ r.ts <= now
    BY DEF FactsOK
<1>2. CASE r \in rows  BY <1>2 DEF FactsOK
<1>3. CASE r \notin rows
    <2>1. PICK f \in batch : r = [kind |-> f.kind, source |-> f.source, rid |-> f.rid, type |-> f.type,
                                  ts |-> f.ts, attrs |-> f.attrs, ins |-> now]
        BY <1>3 DEF UpsertFacts
    <2>2. /\ r.kind = f.kind /\ r.source = f.source /\ r.rid = f.rid /\ r.type = f.type
          /\ r.ts = now /\ r.attrs = f.attrs
        BY <2>1
    <2>3. FactOK(r, images)
        <3>1. FactOK(f, images)  OBVIOUS
        <3> QED  BY <2>2, <3>1 DEF FactOK, NodeOK, EdgeOK, MetricOK
    <2>4. RowOK(r)  BY <2>1 DEF RowOK
    <2> QED  BY <2>2, <2>3, <2>4
<1> QED  BY <1>2, <1>3

\* What is read back of such rows.
LEMMA LatestOK ==
    ASSUME NEW rows, NEW images, NEW T \in Nat, FactsOK(rows, images, T)
    PROVE  /\ LatestTopologyFacts(rows) \subseteq rows
           /\ FactsOK(LatestTopologyFacts(rows), images, T)
           /\ OneEach(LatestTopologyFacts(rows))
<1>1. \A f \in Nodes(rows) \cup Edges(rows) : f \in rows /\ f.ts \in Nat /\ f.ts <= T
    BY DEF FactsOK, Nodes, Edges
<1>2. /\ LatestTopologyFacts(rows) \subseteq Nodes(rows) \cup Edges(rows)
      /\ \A f, g \in LatestTopologyFacts(rows) : f.rid = g.rid => f = g
    BY <1>1, NewestOf DEF LatestTopologyFacts
<1> QED  BY <1>1, <1>2 DEF FactsOK, OneEach

LEMMA LatestHolds ==
    ASSUME NEW rows, NEW images, NEW T \in Nat, FactsOK(rows, images, T),
           NEW f \in rows, f.kind \in {"topology-node", "topology-edge"}
    PROVE  \E g \in LatestTopologyFacts(rows) : g.rid = f.rid /\ f.ts <= g.ts
<1>1. \A g \in Nodes(rows) \cup Edges(rows) : g \in rows /\ g.ts \in Nat /\ g.ts <= T
    BY DEF FactsOK, Nodes, Edges
<1>2. /\ \A g \in Nodes(rows) \cup Edges(rows) : \E h \in LatestTopologyFacts(rows) : h.rid = g.rid
      /\ \A h \in LatestTopologyFacts(rows), g \in Nodes(rows) \cup Edges(rows) :
             g.rid = h.rid => g.ts <= h.ts
    BY <1>1, NewestOf DEF LatestTopologyFacts
<1>3. f \in Nodes(rows) \cup Edges(rows)  BY DEF Nodes, Edges
<1> QED  BY <1>2, <1>3

\* An id tells of which kind a fact is, and from which source.
LEMMA SameId ==
    ASSUME NEW images, NEW f, NEW g, NodeOK(f, images) \/ EdgeOK(f), NodeOK(g, images) \/ EdgeOK(g),
           f.rid = g.rid, f.ts = g.ts
    PROVE  f.kind = g.kind /\ FactId(f) = FactId(g)
<1>1. \A t \in NodeTags : t # "edge"
    BY DEF NodeTags, MiddlewareTags, ImageTags, RepoTags
<1>2. \A h : NodeOK(h, images) => h.rid[1] # "edge" /\ Attr(h, "metric", "") = ""
    BY <1>1 DEF NodeOK, AttrsOK, Attr
<1>3. \A h : EdgeOK(h) => h.rid[1] = "edge" /\ h.rid[2] = h.attrs.edge_type /\ Attr(h, "metric", "") = ""
    <2>1. TAKE h
    <2>2. HAVE EdgeOK(h)
    <2>3. DOMAIN h.attrs = {"source", "target", "edge_type"}  BY <2>2 DEF EdgeOK
    <2> QED  BY <2>2, <2>3 DEF EdgeOK, Attr
<1>4. CASE NodeOK(f, images) /\ NodeOK(g, images)  BY <1>2, <1>4 DEF NodeOK, FactId
<1>5. CASE EdgeOK(f) /\ EdgeOK(g)
    <2>1. f.attrs.edge_type = g.attrs.edge_type  BY <1>3, <1>5
    <2> QED  BY <1>3, <1>5, <2>1 DEF EdgeOK, FactId
<1> QED  BY <1>2, <1>3, <1>4, <1>5

\* What a sync stores of a resource is what is read back of it.
LEMMA FreshIsLatest ==
    ASSUME NEW rows, NEW images, NEW now \in Nat, FactsOK(rows, images, now),
           NEW batch, \A f \in batch : FactOK(f, images) /\ f.ts = now,
           NEW f \in batch, NodeOK(f, images) \/ EdgeOK(f)
    PROVE  \E g \in LatestTopologyFacts(UpsertFacts(rows, batch, now)) : \E h \in batch :
               /\ g.rid = f.rid /\ h.rid = f.rid /\ h.kind = f.kind
               /\ g.kind = h.kind /\ g.type = h.type /\ g.attrs = h.attrs
<1>1. PICK stored : stored = UpsertFacts(rows, batch, now)  OBVIOUS
<1>2. FactsOK(stored, images, now)  BY <1>1, StoredOK
<1>3. PICK r \in stored : r.rid = f.rid /\ r.kind = f.kind /\ r.ts = now
    <2>1. PICK r : r = [kind |-> f.kind, source |-> f.source, rid |-> f.rid, type |-> f.type,
                        ts |-> f.ts, attrs |-> f.attrs, ins |-> now]
        OBVIOUS
    <2>2. r \in stored  BY <1>1, <2>1 DEF UpsertFacts
    <2> QED  BY <2>1, <2>2
<1>4. PICK g \in LatestTopologyFacts(stored) : g.rid = f.rid /\ now <= g.ts
    <2>1. r.kind \in {"topology-node", "topology-edge"}  BY <1>3 DEF NodeOK, EdgeOK
    <2> QED  BY <1>2, <1>3, <2>1, LatestHolds
<1>5. g \in stored /\ g.ts = now /\ (NodeOK(g, images) \/ EdgeOK(g))
    <2>1. g \in Nodes(stored) \cup Edges(stored) /\ g \in stored
        <3>1. \A h \in Nodes(stored) \cup Edges(stored) : h.ts \in Nat /\ h.ts <= now
            BY <1>2 DEF FactsOK, Nodes, Edges
        <3>2. LatestTopologyFacts(stored) \subseteq Nodes(stored) \cup Edges(stored)
            BY <3>1, NewestOf DEF LatestTopologyFacts
        <3> QED  BY <3>2 DEF Nodes, Edges
    <2>2. g.ts \in Nat /\ g.ts <= now  BY <1>2, <2>1 DEF FactsOK
    <2> QED  BY <1>2, <1>4, <2>1, <2>2, NodeShape, EdgeShape
<1>6. FactId(g) = FactId(f) /\ g.kind = f.kind  BY <1>4, <1>5, SameId
<1>7. PICK h \in batch : g = [kind |-> h.kind, source |-> h.source, rid |-> h.rid, type |-> h.type,
                              ts |-> h.ts, attrs |-> h.attrs, ins |-> now]
    BY <1>1, <1>5, <1>6 DEF UpsertFacts
<1>8. g.kind = h.kind /\ g.type = h.type /\ g.attrs = h.attrs /\ g.rid = h.rid  BY <1>7
<1> QED  BY <1>1, <1>4, <1>6, <1>8

\* A resource of a sync is in the graph, and so is an edge of a sync.
LEMMA FreshNode ==
    ASSUME NEW rows, NEW images, NEW now \in Nat, FactsOK(rows, images, now), OrderedIds(images),
           NEW batch, \A f \in batch : FactOK(f, images) /\ f.ts = now,
           NEW F, F = LatestTopologyFacts(UpsertFacts(rows, batch, now)),
           NEW f \in batch, f.kind = "topology-node"
    PROVE  /\ Stands(F, f.rid) \in DOMAIN Resolve(F).nodes
           /\ \E h \in batch : /\ h.rid = f.rid /\ h.kind = "topology-node"
                               /\ \E g \in Nodes(F) : g.rid = f.rid /\ g.type = h.type /\ g.attrs = h.attrs
<1>1. FactsOK(F, images, now) /\ OneEach(F)  BY StoredOK, LatestOK
<1>2. NodeOK(f, images)
    <2>1. FactOK(f, images)  OBVIOUS
    <2> QED  BY <2>1 DEF FactOK, EdgeOK, MetricOK
<1>3. PICK g \in F, h \in batch : /\ g.rid = f.rid /\ h.rid = f.rid /\ h.kind = f.kind
                                  /\ g.kind = h.kind /\ g.type = h.type /\ g.attrs = h.attrs
    BY <1>2, FreshIsLatest
<1>4. g \in Nodes(F)  BY <1>3 DEF Nodes
<1>5. \E q \in Nodes(F) : q.rid = Stands(F, f.rid) /\ Stands(F, q.rid) = q.rid
    <2>1. CASE Stands(F, f.rid) = f.rid  BY <1>3, <1>4, <2>1
    <2>2. CASE Stands(F, f.rid) # f.rid
        <3>1. PICK q \in Pictured(F) : q.rid = Stands(F, f.rid) /\ Stands(F, q.rid) = q.rid
            BY <1>1, <2>2, StandsForImage
        <3> QED  BY <3>1 DEF Pictured
    <2> QED  BY <2>1, <2>2
<1>6. PICK G : G = Resolve(F)  OBVIOUS
<1>7. \A r : r \in DOMAIN G.nodes <=> \E q \in Nodes(F) : q.rid = r /\ Stands(F, r) = r
    BY <1>1, <1>6, ResolvedGraph
<1> QED  BY <1>3, <1>4, <1>5, <1>6, <1>7

LEMMA FreshEdge ==
    ASSUME NEW rows, NEW images, NEW now \in Nat, FactsOK(rows, images, now), OrderedIds(images),
           NEW batch, \A f \in batch : FactOK(f, images) /\ f.ts = now,
           NEW F, F = LatestTopologyFacts(UpsertFacts(rows, batch, now)),
           NEW f \in batch, EdgeOK(f), NEW s, NEW t,
           s = Stands(F, f.attrs.source), t = Stands(F, f.attrs.target), s # t,
           s \in DOMAIN Resolve(F).nodes, t \in DOMAIN Resolve(F).nodes
    PROVE  Edge(s, t, f.attrs.edge_type) \in Resolve(F).edges
<1>1. FactsOK(F, images, now) /\ OneEach(F)  BY StoredOK, LatestOK
<1>2. PICK g \in F, h \in batch : /\ g.rid = f.rid /\ h.kind = f.kind /\ g.kind = h.kind
    BY FreshIsLatest
<1>3. g \in Edges(F)  BY <1>2 DEF Edges, EdgeOK
<1>4. /\ g.attrs.source = f.attrs.source /\ g.attrs.target = f.attrs.target
      /\ g.attrs.edge_type = f.attrs.edge_type
    <2>1. EdgeOK(g)  BY <1>1, <1>3, EdgeShape
    <2>2. /\ g.rid = <<"edge", g.attrs.edge_type, g.attrs.source, g.attrs.target>>
          /\ f.rid = <<"edge", f.attrs.edge_type, f.attrs.source, f.attrs.target>>
        BY <2>1 DEF EdgeOK
    <2>3. <<"edge", g.attrs.edge_type, g.attrs.source, g.attrs.target>>
            = <<"edge", f.attrs.edge_type, f.attrs.source, f.attrs.target>>
        BY <1>2, <2>2
    <2> QED  BY <2>3
<1>5. PICK G : G = Resolve(F)  OBVIOUS
<1>6. \A q \in Edges(F) : \A x, y :
          /\ x = Stands(F, q.attrs.source) /\ y = Stands(F, q.attrs.target)
          /\ x # y /\ x \in DOMAIN G.nodes /\ y \in DOMAIN G.nodes
          => Edge(x, y, q.attrs.edge_type) \in G.edges
    BY <1>1, <1>5, ResolvedGraph
<1> QED  BY <1>3, <1>4, <1>5, <1>6

PodFact(pod, in, now) ==
    NodeFact(now, PodId(pod.name), "Pod",
             Filled([phase |-> pod.phase], ChildOf(PodParent(pod, in.replicasets), PodHealth(pod))))

\* Whatever the k8s connector says of a pod, it says as the pod.
LEMMA PodFacts ==
    ASSUME NEW now, NEW in, NEW f \in MapCluster(in, now), f.kind = "topology-node", f.rid[1] = "pod"
    PROVE  \E p \in in.pods : f = PodFact(p, in, now)
<1>1. \A r, t, a : NodeFact(now, r, t, a).rid = r  BY DEF NodeFact
<1>2. \A t, r, s : EdgeFact(now, t, r, s).kind = "topology-edge"  BY DEF EdgeFact
<1>3. f \notin MapNodes(in, now)
    <2>1. \A n : ClusterId[1] # "pod" /\ NamespaceId[1] # "pod" /\ ApplicationId[1] # "pod" /\ NodeId(n)[1] # "pod"
        BY DEF ClusterId, NamespaceId, ApplicationId, NodeId
    <2>2. SUFFICES ASSUME f \in MapNodes(in, now) PROVE FALSE  OBVIOUS
    <2>3. \E r, t, a : f = NodeFact(now, r, t, a) /\ r[1] # "pod"
        BY <2>1, <2>2, ZenonT(40) DEF MapNodes
    <2> QED  BY <1>1, <2>3
<1>4. f \notin MapDeployments(in, now)
    <2>1. \A d : DeployId(d)[1] = "deploy" /\ ComponentOf(d)[1] = "comp"
        BY DEF DeployId, ComponentOf, ComponentId
    <2>2. \A d : IsMiddleware(d) => MiddlewareId(d)[1] # "pod"
        BY DetectedMiddleware DEF MiddlewareId, MiddlewareTags
    <2> QED  BY <1>1, <1>2, <2>1, <2>2 DEF MapDeployments
<1>5. f \notin MapData(in, now)
    <2>1. \A n : ConfigMapId(n)[1] # "pod" /\ SecretId(n)[1] # "pod"  BY DEF ConfigMapId, SecretId
    <2>2. SUFFICES ASSUME f \in MapData(in, now) PROVE FALSE  OBVIOUS
    <2>3. \E r, t, a : f = NodeFact(now, r, t, a) /\ r[1] # "pod"
        BY <2>1, <2>2, ZenonT(40) DEF MapData
    <2> QED  BY <1>1, <2>3
<1>6. f \notin MapServices(in, now)
    <2>1. \A n : ServiceId(n)[1] # "pod"  BY DEF ServiceId
    <2>2. SUFFICES ASSUME f \in MapServices(in, now) PROVE FALSE  OBVIOUS
    <2>3. CASE \E s \in in.services : f = NodeFact(now, ServiceId(s.name), "Service", ChildOf(NamespaceId, "normal"))
        BY <1>1, <2>1, <2>3
    <2>4. CASE \E t, r, s : f = EdgeFact(now, t, r, s)  BY <1>2, <2>4
    <2> QED  BY <2>2, <2>3, <2>4, ZenonT(40) DEF MapServices
<1>7. \A p : f \notin MapContainers(p, now)
    <2>1. TAKE p
    <2>2. \A c : ContainerId(p.name, c.name)[1] = "container" /\ ImageId(c.image)[1] = "image"
        BY DEF ContainerId, ImageId
    <2>3. SUFFICES ASSUME f \in MapContainers(p, now) PROVE FALSE  OBVIOUS
    <2>4. \/ \E r, t, a : f = NodeFact(now, r, t, a) /\ r[1] \in {"container", "image"}
          \/ \E t, r, s : f = EdgeFact(now, t, r, s)
        <3>1. \A c : ContainerId(p.name, c.name)[1] \in {"container", "image"} /\ ImageId(c.image)[1] \in {"container", "image"}
            BY <2>2
        <3> QED  BY <2>3, <3>1, ZenonT(40) DEF MapContainers
    <2> QED  BY <1>1, <1>2, <2>4
<1>8. \A p : f \in MapPod(p, in, now) => f = PodFact(p, in, now)
    BY <1>2 DEF MapPod, PodFact
<1> QED  BY <1>3, <1>4, <1>5, <1>6, <1>7, <1>8, MappedFrom

-----------------------------------------------------------------------------
(* Health, and what is stored of a graph *)

\* Each node has a type and attributes.
NodesTyped(G) == \A r \in DOMAIN G.nodes : G.nodes[r] = [type |-> G.nodes[r].type, attrs |-> G.nodes[r].attrs]

\* H is G, but for the health of its nodes.
SameButHealth(G, H) ==
    /\ DOMAIN H.nodes = DOMAIN G.nodes /\ H.edges = G.edges
    /\ \A r \in DOMAIN G.nodes :
           /\ H.nodes[r].type = G.nodes[r].type
           /\ \A k \in DOMAIN G.nodes[r].attrs : k \notin {"health_status", "risk_level"} =>
                  k \in DOMAIN H.nodes[r].attrs /\ H.nodes[r].attrs[k] = G.nodes[r].attrs[k]

LEMMA OverlaidKeeps ==
    ASSUME NEW node, node = [type |-> node.type, attrs |-> node.attrs], NEW derived, NEW new,
           new = Overlaid(node, derived)
    PROVE  /\ new = [type |-> new.type, attrs |-> new.attrs] /\ new.type = node.type
           /\ \A k \in DOMAIN node.attrs : k \notin {"health_status", "risk_level"} =>
                  k \in DOMAIN new.attrs /\ new.attrs[k] = node.attrs[k]
           /\ "health_status" \in DOMAIN new.attrs
           /\ new.attrs.health_status =
                  IF SeverityRank(derived) >= SeverityRank(Attr(node, "health_status", "unknown"))
                  THEN derived ELSE Attr(node, "health_status", "unknown")
<1>1. PICK merged : merged =
          [health_status |-> IF SeverityRank(derived) >= SeverityRank(Attr(node, "health_status", "unknown"))
                             THEN derived ELSE Attr(node, "health_status", "unknown"),
           risk_level |-> IF SeverityRank(derived) >= SeverityRank(Attr(node, "health_status", "unknown"))
                          THEN RiskForHealth(derived) ELSE Attr(node, "risk_level", "unknown")]
    OBVIOUS
<1>2. PICK attrs : attrs = Filled(merged, node.attrs)  OBVIOUS
<1>3. new = [node EXCEPT !.attrs = attrs]  BY <1>1, <1>2 DEF Overlaid
<1>4. new = [type |-> node.type, attrs |-> attrs]  BY <1>3
<1>5. /\ DOMAIN merged = {"health_status", "risk_level"}
      /\ merged.health_status =
             IF SeverityRank(derived) >= SeverityRank(Attr(node, "health_status", "unknown"))
             THEN derived ELSE Attr(node, "health_status", "unknown")
    BY <1>1
<1>6. attrs = [k \in DOMAIN merged \cup DOMAIN node.attrs |->
                  IF k \in DOMAIN merged THEN merged[k] ELSE node.attrs[k]]
    BY <1>2 DEF Filled
<1>7. "health_status" \in DOMAIN attrs /\ attrs["health_status"] = merged["health_status"]  BY <1>5, <1>6
<1>8. \A k \in DOMAIN node.attrs : k \notin {"health_status", "risk_level"} =>
          k \in DOMAIN attrs /\ attrs[k] = node.attrs[k]
    BY <1>5, <1>6
<1> QED  BY <1>4, <1>5, <1>7, <1>8

\* What the metrics say of a resource.
Derived(metrics, r) == {DeriveMetricHealth(f) : f \in {g \in metrics : g.rid = r /\ Derivable(g)}}

\* Metrics change the health of nodes, and nothing else.
LEMMA MergedGraph ==
    ASSUME NEW G, TopologyOK(G), NodesTyped(G), NEW metrics, NEW H, H = MergeMetricHealth(G, metrics)
    PROVE  /\ TopologyOK(H) /\ NodesTyped(H) /\ SameButHealth(G, H)
           /\ \A r \in DOMAIN G.nodes :
                  H.nodes[r] = IF Derived(metrics, r) = {} THEN G.nodes[r]
                               ELSE Overlaid(G.nodes[r],
                                        CHOOSE h \in Derived(metrics, r) : \A g \in Derived(metrics, r) :
                                            SeverityRank(g) <= SeverityRank(h))
<1> DEFINE Shown(r) == IF Derived(metrics, r) = {} THEN G.nodes[r]
                       ELSE Overlaid(G.nodes[r],
                                CHOOSE h \in Derived(metrics, r) : \A g \in Derived(metrics, r) :
                                    SeverityRank(g) <= SeverityRank(h))
<1>1. PICK nodes : nodes = [r \in DOMAIN G.nodes |-> Shown(r)]  OBVIOUS
<1>2. H = [G EXCEPT !.nodes = nodes]  BY <1>1, Zenon DEF MergeMetricHealth, Derived
<1>3. H = [nodes |-> nodes, edges |-> G.edges]  BY <1>2 DEF TopologyOK
<1>4. H.nodes = nodes /\ H.edges = G.edges  BY <1>3
<1>5. \A r \in DOMAIN G.nodes : nodes[r] = Shown(r)  BY <1>1
<1>6. ASSUME NEW r \in DOMAIN G.nodes
      PROVE  /\ nodes[r] = [type |-> nodes[r].type, attrs |-> nodes[r].attrs]
             /\ nodes[r].type = G.nodes[r].type
             /\ \A k \in DOMAIN G.nodes[r].attrs : k \notin {"health_status", "risk_level"} =>
                    k \in DOMAIN nodes[r].attrs /\ nodes[r].attrs[k] = G.nodes[r].attrs[k]
    <2>1. G.nodes[r] = [type |-> G.nodes[r].type, attrs |-> G.nodes[r].attrs]  BY DEF NodesTyped
    <2>2. CASE Derived(metrics, r) = {}
        <3>1. nodes[r] = G.nodes[r]  BY <1>5, <2>2
        <3> QED  BY <2>1, <3>1
    <2>3. CASE Derived(metrics, r) # {}
        <3>1. PICK h : nodes[r] = Overlaid(G.nodes[r], h)  BY <1>5, <2>3
        <3>2. PICK old, new : old = G.nodes[r] /\ new = nodes[r]  OBVIOUS
        <3>3. old = [type |-> old.type, attrs |-> old.attrs] /\ new = Overlaid(old, h)
            BY <2>1, <3>1, <3>2
        <3>4. /\ new = [type |-> new.type, attrs |-> new.attrs] /\ new.type = old.type
              /\ \A k \in DOMAIN old.attrs : k \notin {"health_status", "risk_level"} =>
                     k \in DOMAIN new.attrs /\ new.attrs[k] = old.attrs[k]
            BY <3>3, OverlaidKeeps
        <3> QED  BY <3>2, <3>4
    <2> QED  BY <2>2, <2>3
<1>7. TopologyOK(H)
    <2>1. nodes = [r \in DOMAIN nodes |-> nodes[r]] /\ DOMAIN nodes = DOMAIN G.nodes  BY <1>1
    <2> QED  BY <1>3, <1>4, <2>1 DEF TopologyOK
<1>8. DOMAIN nodes = DOMAIN G.nodes  BY <1>1
<1> QED  BY <1>4, <1>5, <1>6, <1>7, <1>8 DEF NodesTyped, SameButHealth

\* Two edges between the same ends are one: which kinds they relate tells their type.
LEMMA EdgesApart ==
    ASSUME NEW d, NEW e, EdgeFits(d), EdgeFits(e), EdgeId(d) = EdgeId(e)
    PROVE  d = e
<1>1. d.source = e.source /\ d.target = e.target
    <2>1. <<d.source, d.target>> = <<e.source, e.target>>  BY DEF EdgeId
    <2> QED  BY <2>1
<1>2. PICK s, t : s = d.source[1] /\ t = d.target[1]  OBVIOUS
<1>3. \A type : <<type, Class(s), Class(t)>> \in EdgeTags => <<s, t>> \notin ParentTags
    BY DEF EdgeTags, ParentTags, Class, ImageTags, MiddlewareTags
<1>4. \A a, b : <<a, Class(s), Class(t)>> \in EdgeTags /\ <<b, Class(s), Class(t)>> \in EdgeTags => a = b
    BY DEF EdgeTags, MiddlewareTags
<1>5. d.edge_type = e.edge_type  BY <1>1, <1>2, <1>3, <1>4 DEF EdgeFits
<1> QED  BY <1>1, <1>5 DEF EdgeFits, Edge

LEMMA TypePlaced ==
    ASSUME NEW e, EdgeFits(e)
    PROVE  (CHOOSE i \in DOMAIN WriteOrder : WriteOrder[i] = e.edge_type) \in Nat
<1>1. e.edge_type \in {"CONTAINS", "BELONGS_TO", "BUILDS", "CALLS", "DEPENDS_ON", "DEPLOYED_AS", "EXPOSES",
                       "ROUTES_TO", "RUNS", "SCHEDULED_ON", "USES", "USES_IMAGE"}
    BY DEF EdgeFits, EdgeTags
<1>2. PICK order : order = WriteOrder  OBVIOUS
<1>3. DOMAIN order \subseteq Nat  BY <1>2 DEF WriteOrder
<1>4. \E i \in DOMAIN order : order[i] = e.edge_type
    <2>1. /\ DOMAIN order = 1..13
          /\ order[1] = "CONTAINS" /\ order[2] = "BELONGS_TO" /\ order[3] = "BUILDS" /\ order[4] = "CALLS"
          /\ order[5] = "DEPENDS_ON" /\ order[6] = "DEPLOYED_AS" /\ order[7] = "EXPOSES"
          /\ order[9] = "ROUTES_TO" /\ order[10] = "RUNS" /\ order[11] = "SCHEDULED_ON"
          /\ order[12] = "USES" /\ order[13] = "USES_IMAGE"
        BY <1>2 DEF WriteOrder
    <2> QED  BY <1>1, <2>1
<1> QED  BY <1>2, <1>3, <1>4

\* Whatever is stored, the difference to a graph turns it into that graph.
LEMMA AppliedIsNext ==
    ASSUME NEW stored, NEW next, TopologyOK(stored), TopologyOK(next)
    PROVE  ApplyChangeSet(stored, Diff(stored, next)) = next
<1>1. PICK cs : cs = Diff(stored, next)  OBVIOUS
<1>2. PICK up : up = {r \in DOMAIN next.nodes : HasNode(stored, r) => stored.nodes[r] # next.nodes[r]}  OBVIOUS
<1>3. /\ cs.nodesUp = [r \in up |-> next.nodes[r]]
      /\ cs.nodesRm = DOMAIN stored.nodes \ DOMAIN next.nodes
      /\ cs.edgesUp = next.edges \ stored.edges
      /\ cs.edgesRm = {EdgeId(e) : e \in stored.edges} \ {EdgeId(e) : e \in next.edges}
    BY <1>1, <1>2 DEF Diff, Restrict
<1>4. PICK written : written = Filled(cs.nodesUp, stored.nodes)  OBVIOUS
<1>5. PICK nodes : nodes = Restrict(written, DOMAIN written \ cs.nodesRm)  OBVIOUS
<1>6. nodes = next.nodes
    <2>1. DOMAIN cs.nodesUp = up /\ \A r \in up : cs.nodesUp[r] = next.nodes[r]  BY <1>3
    <2>2. /\ DOMAIN written = up \cup DOMAIN stored.nodes
          /\ \A r \in DOMAIN written : written[r] = IF r \in up THEN next.nodes[r] ELSE stored.nodes[r]
        BY <1>4, <2>1 DEF Filled
    <2>3. up \cup DOMAIN stored.nodes = DOMAIN next.nodes \cup DOMAIN stored.nodes
        BY <1>2 DEF HasNode
    <2>4. DOMAIN written \ cs.nodesRm = DOMAIN next.nodes  BY <1>3, <2>2, <2>3
    <2>5. nodes = [r \in DOMAIN next.nodes |-> written[r]]  BY <1>5, <2>4 DEF Restrict
    <2>6. \A r \in DOMAIN next.nodes : written[r] = next.nodes[r]  BY <1>2, <2>2, <2>3 DEF HasNode
    <2>7. next.nodes = [r \in DOMAIN next.nodes |-> next.nodes[r]]  BY DEF TopologyOK
    <2> QED  BY <2>5, <2>6, <2>7
<1>7. \A e \in next.edges \cup stored.edges : EdgeFits(e)  BY DEF TopologyOK
<1>8. \A d, e \in next.edges \cup stored.edges : EdgeId(d) = EdgeId(e) => d = e  BY <1>7, EdgesApart
<1>9. LastWritten(cs.edgesUp) = cs.edgesUp
    <2>1. \A e \in cs.edgesUp :
              (CHOOSE i \in DOMAIN WriteOrder : WriteOrder[i] = e.edge_type) \in Nat
        BY <1>3, <1>7, TypePlaced
    <2>2. \A d, e \in cs.edgesUp : EdgeId(d) = EdgeId(e) => d = e  BY <1>3, <1>8
    <2>3. \A e \in cs.edgesUp : (CHOOSE i \in DOMAIN WriteOrder : WriteOrder[i] = e.edge_type)
                                   <= (CHOOSE i \in DOMAIN WriteOrder : WriteOrder[i] = e.edge_type)
        BY <2>1
    <2>4. ASSUME NEW e \in cs.edgesUp, NEW d \in cs.edgesUp, EdgeId(d) = EdgeId(e)
          PROVE  (CHOOSE i \in DOMAIN WriteOrder : WriteOrder[i] = d.edge_type)
                     <= (CHOOSE i \in DOMAIN WriteOrder : WriteOrder[i] = e.edge_type)
        <3>1. d = e  BY <2>2, <2>4
        <3> QED  BY <2>3, <3>1
    <2> QED  BY <2>4, Zenon DEF LastWritten
<1>10. PICK ids : ids = {EdgeId(e) : e \in cs.edgesUp}  OBVIOUS
<1>11. PICK edges : edges = {e \in cs.edgesUp \cup {d \in stored.edges : EdgeId(d) \notin ids} :
                                 EdgeId(e) \notin cs.edgesRm}
    OBVIOUS
<1>12. edges = next.edges
    <2>1. ASSUME NEW e \in edges  PROVE e \in next.edges
        <3>1. CASE e \in cs.edgesUp  BY <1>3, <3>1
        <3>2. CASE e \notin cs.edgesUp
            <4>1. e \in stored.edges /\ EdgeId(e) \notin ids /\ EdgeId(e) \notin cs.edgesRm
                BY <1>11, <3>2
            <4>2. PICK d \in next.edges : EdgeId(d) = EdgeId(e)  BY <1>3, <4>1
            <4> QED  BY <1>8, <4>1, <4>2
        <3> QED  BY <3>1, <3>2
    <2>2. ASSUME NEW e \in next.edges  PROVE e \in edges
        <3>1. EdgeId(e) \notin cs.edgesRm  BY <1>3
        <3>2. CASE e \notin stored.edges  BY <1>3, <1>11, <3>1, <3>2
        <3>3. CASE e \in stored.edges
            <4>1. EdgeId(e) \notin ids
                <5>1. SUFFICES ASSUME NEW d \in cs.edgesUp, EdgeId(d) = EdgeId(e)  PROVE FALSE  BY <1>10
                <5>2. d \in next.edges /\ d \notin stored.edges  BY <1>3
                <5> QED  BY <1>8, <3>3, <5>1, <5>2
            <4> QED  BY <1>11, <3>1, <3>3, <4>1
        <3> QED  BY <3>2, <3>3
    <2> QED  BY <2>1, <2>2
<1>13. ApplyChangeSet(stored, cs) = [nodes |-> nodes, edges |-> edges]
    BY <1>4, <1>5, <1>9, <1>10, <1>11 DEF ApplyChangeSet
<1> QED  BY <1>1, <1>6, <1>12, <1>13 DEF TopologyOK
===============================================================================
