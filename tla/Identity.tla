------------------------------- MODULE Identity -------------------------------
(***************************************************************************)
(* From raw facts to the materialized topology: the pure part of the sync  *)
(* pipeline.  Connectors emit facts; the newest fact of each resource is   *)
(* read back, nodes that share a correlation key are merged (correlation), *)
(* the rest becomes a graph (facts_to_graph), metric health is laid over   *)
(* it (health_merge), and the difference to the stored topology is applied *)
(* (changeset, apply_change_set) and searched for changes (watch).         *)
(*                                                                         *)
(* A resource id is a tuple such as <<"pod", "api-1">>; an edge id is the  *)
(* pair of its ends, as in the code's "{source}->{target}"; the attributes *)
(* of a fact are a record, so that a missing key is a missing field.       *)
(* A label is a function of the id and the attributes, and left out.       *)
(***************************************************************************)
EXTENDS Integers, Sequences, FiniteSets, SequencesExt

CONSTANT RidLess(_, _)   \* lexicographic order of resource ids

Attr(f, k, default) == IF k \in DOMAIN f.attrs THEN f.attrs[k] ELSE default

\* The attributes f with those of g for the keys f lacks.
Filled(f, g) ==
    [k \in DOMAIN f \cup DOMAIN g |-> IF k \in DOMAIN f THEN f[k] ELSE g[k]]

Nodes(facts) == {f \in facts : f.kind = "topology-node"}
Edges(facts) == {f \in facts : f.kind = "topology-edge"}

\* The newest fact of each resource id.
Newest(facts) ==
    LET latest == {f \in facts : \A g \in facts : g.ts > f.ts => g.rid # f.rid}
    IN {CHOOSE f \in latest : f.rid = r : r \in {f.rid : f \in latest}}

-----------------------------------------------------------------------------
(* The facts table *)

\* A fact's id tells its source, what it is about and the time of the sync, and
\* of a measurement the query.
FactId(f) == <<f.source, f.kind, f.rid, Attr(f, "metric", ""), f.ts>>

\* Rows are facts with the time they were stored, one per fact id.
UpsertFacts(rows, batch, now) ==
    LET ids == {FactId(f) : f \in batch}
    IN {r \in rows : FactId(r) \notin ids}
         \cup {[kind |-> f.kind, source |-> f.source, rid |-> f.rid, type |-> f.type,
                ts |-> f.ts, attrs |-> f.attrs, ins |-> now] : f \in batch}

\* Strictly before the cutoff, by the time stored and not the time collected.
DeleteFactsBefore(rows, cutoff) == {r \in rows : r.ins >= cutoff}

\* Mutant: the oldest row of each resource.
OldestTopologyFacts(rows) ==
    LET facts == Nodes(rows) \cup Edges(rows)
    IN {r \in facts : \A f \in facts : f.rid = r.rid => r.ts <= f.ts}

LatestTopologyFacts(rows) == Newest(Nodes(rows) \cup Edges(rows))

\* Mutant: of every metric sync.
AllMetricFacts(rows) == {r \in rows : r.kind = "metric"}

\* The facts of the most recent metric sync, however long ago that was.
LatestMetricFacts(rows) ==
    LET metrics == {r \in rows : r.kind = "metric"}
    IN {r \in metrics : \A m \in metrics : m.ts <= r.ts}

-----------------------------------------------------------------------------
(* Correlation: one node for one real thing *)

SourcePriority(source) ==
    CASE source = "k8s" -> 10 [] source = "code-repo" -> 5 [] OTHER -> 0

Keys(f) == Attr(f, "correlation_keys", {})

SharesKey(f, g) == Keys(f) \cap Keys(g) # {}

\* No shared key leads out of c.
Closed(nodes, c) == \A f, g \in nodes : f.rid \in c /\ SharesKey(f, g) => g.rid \in c

\* Clusters of two or more: resources that share a key, directly or over others.
Clusters(facts) ==
    LET keyed == {f \in Nodes(facts) : Keys(f) # {}}
        shared == {f \in keyed : \E g \in keyed : g.rid # f.rid /\ SharesKey(f, g)}
        Apart(c) == c # {} /\ Closed(shared, c)
    IN {c \in SUBSET {f.rid : f \in shared} :
           Apart(c) /\ \A d \in SUBSET c : Apart(d) => d = c}

RidPriority(facts, r) ==
    Max({SourcePriority(f.source) : f \in {g \in Nodes(facts) : g.rid = r}})

Winner(facts, cluster) ==
    CHOOSE w \in cluster :
        \A r \in cluster \ {w} :
            \/ RidPriority(facts, w) > RidPriority(facts, r)
            \/ RidPriority(facts, w) = RidPriority(facts, r) /\ RidLess(w, r)

Base(facts, r) == CHOOSE f \in Newest({g \in Nodes(facts) : g.rid = r}) : TRUE

\* The winner's newest fact, its missing attributes filled from the losers in
\* some order: the visit order of a HashMap.
Merges(facts, cluster) ==
    LET w == Winner(facts, cluster)
        Fill(order) ==
            LET filled[n \in 0..Len(order)] ==
                    IF n = 0 THEN Base(facts, w).attrs
                    ELSE Filled(filled[n - 1], Base(facts, order[n]).attrs)
            IN filled[Len(order)]
    IN {[Base(facts, w) EXCEPT !.attrs = Fill(order)] :
            order \in SetToSeqs(cluster \ {w})}

\* Each member of a cluster, with the winner that stands for it.
Remap(facts) ==
    LET clusters == Clusters(facts)
    IN [r \in UNION clusters |-> Winner(facts, CHOOSE c \in clusters : r \in c)]

Remapped(remap, r) == IF r \in DOMAIN remap THEN remap[r] ELSE r

RemapEdge(remap, f) ==
    LET To(k) == Remapped(remap, f.attrs[k])
    IN IF {"source", "target"} \subseteq DOMAIN f.attrs
       THEN [f EXCEPT !.rid = <<"edge", Attr(f, "edge_type", "RELATED_TO"),
                                To("source"), To("target")>>,
                      !.attrs = [f.attrs EXCEPT !.source = To("source"),
                                                !.target = To("target")]]
       ELSE f

RemapNodeParent(remap, f) ==
    IF "parent_resource_id" \in DOMAIN f.attrs
    THEN [f EXCEPT !.attrs.parent_resource_id = Remapped(remap, @)]
    ELSE f

\* A merged node keeps the parent its winner names; every other end of an edge
\* and every other parent follows the merge.
RewriteByCorrelationKey(facts) ==
    LET remap == Remap(facts)
    IN IF DOMAIN remap = {} THEN facts
       ELSE {CHOOSE m \in Merges(facts, c) : TRUE : c \in Clusters(facts)}
              \cup {RemapNodeParent(remap, f) : f \in {g \in Nodes(facts) : g.rid \notin DOMAIN remap}}
              \cup {RemapEdge(remap, f) : f \in Edges(facts)}

-----------------------------------------------------------------------------
(* The graph *)

Edge(s, t, type) == [source |-> s, target |-> t, edge_type |-> type]
EdgeId(e) == <<e.source, e.target>>

NoTopology == [nodes |-> <<>>, edges |-> {}]
HasNode(topology, r) == r \in DOMAIN topology.nodes

ContainsEdges(nodes) ==
    LET parented == {f \in nodes : "parent_resource_id" \in DOMAIN f.attrs}
    IN {Edge(f.attrs.parent_resource_id, f.rid, "CONTAINS") :
            f \in {g \in parented : g.attrs.parent_resource_id # g.rid}}

ExplicitEdges(edges) ==
    LET whole == {f \in edges : {"source", "target"} \subseteq DOMAIN f.attrs}
    IN {Edge(f.attrs.source, f.attrs.target, Attr(f, "edge_type", "RELATED_TO")) :
            f \in {g \in whole : g.attrs.source # g.attrs.target}}

FactsToGraph(facts) ==
    LET nodes == Newest(Nodes(facts))
        ids == {f.rid : f \in nodes}
        NodeOf(r) == CHOOSE f \in nodes : f.rid = r
    IN [nodes |-> [r \in ids |-> [type |-> NodeOf(r).type, attrs |-> NodeOf(r).attrs]],
        edges |-> {e \in ContainsEdges(nodes) \cup ExplicitEdges(Newest(Edges(facts))) :
                       {e.source, e.target} \subseteq ids}]

Resolve(facts) == FactsToGraph(RewriteByCorrelationKey(facts))

-----------------------------------------------------------------------------
(* Health from metrics *)

\* Error rate in percent and p99 latency in milliseconds.
HealthThresholds ==
    [span_error_rate_pct |-> [warning |-> 1, critical |-> 5],
     span_p99_ms |-> [warning |-> 300, critical |-> 1000]]

\* A value that is no number is a fact without a value.
Derivable(f) ==
    /\ f.kind = "metric"
    /\ {"metric", "value"} \subseteq DOMAIN f.attrs
    /\ f.attrs.metric \in DOMAIN HealthThresholds

DeriveMetricHealth(f) ==
    LET threshold == HealthThresholds[f.attrs.metric]
    IN CASE f.attrs.value >= threshold.critical -> "critical"
         [] f.attrs.value < threshold.critical /\ f.attrs.value >= threshold.warning -> "warning"
         [] OTHER -> "normal"

SeverityRank(health) ==
    CASE health = "critical" -> 3 [] health = "warning" -> 2 [] health = "normal" -> 1
      [] OTHER -> 0

RiskForHealth(health) ==
    CASE health = "critical" -> "high" [] health = "warning" -> "medium"
      [] health = "normal" -> "low" [] OTHER -> "unknown"

\* The worse of what the metrics say and what the node says; a node that is
\* worse keeps its own risk.
Overlaid(node, derived) ==
    LET own == Attr(node, "health_status", "unknown")
        worse == SeverityRank(derived) >= SeverityRank(own)
        merged == [health_status |-> IF worse THEN derived ELSE own,
                   risk_level |-> IF worse THEN RiskForHealth(derived)
                                  ELSE Attr(node, "risk_level", "unknown")]
    IN [node EXCEPT !.attrs = Filled(merged, @)]

MergeMetricHealth(topology, metrics) ==
    LET Derived(r) == {DeriveMetricHealth(f) : f \in {g \in metrics : g.rid = r /\ Derivable(g)}}
        Worst(healths) == CHOOSE h \in healths : \A g \in healths : SeverityRank(g) <= SeverityRank(h)
    IN [topology EXCEPT !.nodes =
            [r \in DOMAIN @ |-> IF Derived(r) = {} THEN @[r]
                                ELSE Overlaid(@[r], Worst(Derived(r)))]]

-----------------------------------------------------------------------------
(* Difference and application *)

\* Mutant: a node that is already stored is never written again.
DiffNewOnly(current, next) ==
    [nodesUp |-> Restrict(next.nodes, DOMAIN next.nodes \ DOMAIN current.nodes),
     nodesRm |-> DOMAIN current.nodes \ DOMAIN next.nodes,
     edgesUp |-> next.edges \ current.edges,
     edgesRm |-> {EdgeId(e) : e \in current.edges} \ {EdgeId(e) : e \in next.edges}]

Diff(current, next) ==
    [nodesUp |-> Restrict(next.nodes,
                          {r \in DOMAIN next.nodes :
                              HasNode(current, r) => current.nodes[r] # next.nodes[r]}),
     nodesRm |-> DOMAIN current.nodes \ DOMAIN next.nodes,
     edgesUp |-> next.edges \ current.edges,
     edgesRm |-> {EdgeId(e) : e \in current.edges} \ {EdgeId(e) : e \in next.edges}]

\* Edges of one pair are written in this order, and the last one stays: the
\* derived CONTAINS first, then by the type in the edge's resource id.
WriteOrder ==
    <<"CONTAINS", "BELONGS_TO", "BUILDS", "CALLS", "DEPENDS_ON", "DEPLOYED_AS", "EXPOSES",
      "RELATED_TO", "ROUTES_TO", "RUNS", "SCHEDULED_ON", "USES", "USES_IMAGE">>

LastWritten(edges) ==
    LET Place(e) == CHOOSE i \in DOMAIN WriteOrder : WriteOrder[i] = e.edge_type
    IN {e \in edges : \A d \in edges : EdgeId(d) = EdgeId(e) => Place(d) <= Place(e)}

\* One transaction: rows are written by id and then deleted by id, whatever
\* the tables hold by then.
ApplyChangeSet(stored, cs) ==
    [nodes |-> LET written == Filled(cs.nodesUp, stored.nodes)
               IN Restrict(written, DOMAIN written \ cs.nodesRm),
     edges |-> LET ids == {EdgeId(e) : e \in cs.edgesUp}
                   written == LastWritten(cs.edgesUp) \cup {e \in stored.edges : EdgeId(e) \notin ids}
               IN {e \in written : EdgeId(e) \notin cs.edgesRm}]

-----------------------------------------------------------------------------
(* Changes between two syncs *)

SignalKeys ==
    [ConfigMap |-> {"data_keys", "data_hash"},
     Secret |-> {"data_keys", "data_hash"},
     Deployment |-> {"current_revision", "images", "replicas_desired", "replicas_ready"}]

ChangeTypeFor ==
    [ConfigMap |-> "configmap_updated", Secret |-> "secret_rotated",
     Deployment |-> "deployment_rolled"]

\* A signal field counts when it is there: an absent one and a new one differ.
Signals(node) ==
    Restrict(node.attrs, SignalKeys[node.type] \cap DOMAIN node.attrs)

\* Only resources both sides know; a new one is no change.
DetectChanges(current, next) ==
    LET Old(r) == Signals([type |-> next.nodes[r].type, attrs |-> current.nodes[r].attrs])
        New(r) == Signals(next.nodes[r])
    IN {[change_type |-> ChangeTypeFor[next.nodes[r].type], target |-> r, source |-> "k8s_api",
         old |-> Old(r), new |-> New(r)] :
            r \in {n \in DOMAIN next.nodes \cap DOMAIN current.nodes :
                      next.nodes[n].type \in DOMAIN SignalKeys /\ Old(n) # New(n)}}
===============================================================================
