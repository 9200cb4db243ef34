------------------------------ MODULE Traversals ------------------------------
(***************************************************************************)
(* What depends on what, over a topology: the propagation of a change, the *)
(* views the console draws around a resource, and the preview of a         *)
(* recovery action (cascade).  All are searches to a bounded depth along   *)
(* some types of edges.  A list in the order of the search is a function   *)
(* from each resource to its distance.                                     *)
(***************************************************************************)
EXTENDS Identity

Catalogue == INSTANCE RecoveryActions WITH Mode <- "real"

-----------------------------------------------------------------------------
(* The search *)

\* One step along an edge, with it, against it, or either way.
Next1(edges, dir, r) ==
    (IF dir \in {"forward", "both"} THEN {e.target : e \in {d \in edges : d.source = r}} ELSE {})
      \cup (IF dir \in {"reverse", "both"} THEN {e.source : e \in {d \in edges : d.target = r}} ELSE {})

\* Each resource visited, with its distance, breadth first to a depth; none from
\* a start that is not there.
Visited(topology, start, types, dir, depth) ==
    LET edges == {e \in topology.edges : e.edge_type \in types}
        found[d \in Nat] ==
            IF d = 0 THEN [r \in {start} \cap DOMAIN topology.nodes |-> 0]
            ELSE LET last == found[d - 1]
                 IN Filled(last, [r \in UNION {Next1(edges, dir, q) : q \in DOMAIN last} |-> d])
    IN found[depth]

\* Each resource but the start.
Distances(topology, start, types, dir, depth) ==
    LET visited == Visited(topology, start, types, dir, depth)
    IN Restrict(visited, DOMAIN visited \ {start})

-----------------------------------------------------------------------------
(* Propagation *)

\* An image does not pass changes on.
PropagationEdges ==
    {"USES", "CONTAINS", "DEPLOYED_AS", "BELONGS_TO", "RUNS", "SCHEDULED_ON", "EXPOSES", "ROUTES_TO"}

PropagationDepth == 4
DescendantsDepth == 6

\* Who is affected by a change: those that depend on the target.
DerivePropagation(topology, target) ==
    Distances(topology, target, PropagationEdges, "reverse", PropagationDepth)

\* The length of the shortest path, 0 when there is none.
FindPropagationPath(topology, source, affected) ==
    LET reached == DerivePropagation(topology, source)
    IN IF affected \in DOMAIN reached THEN reached[affected] ELSE 0

\* Who belongs to a resource: the subtree of an application or a cluster.
FindDescendants(topology, start) ==
    DOMAIN Distances(topology, start, PropagationEdges, "forward", DescendantsDepth)

-----------------------------------------------------------------------------
(* Views *)

NodeImpactEdges ==
    {"SCHEDULED_ON", "CONTAINS", "DEPLOYED_AS", "BELONGS_TO", "RUNS", "CONTROLLED_BY", "AFFECTS",
     "FIRED_ON"}
\* Mutant: the services are left out.
ConfigEdgesUnrouted ==
    {"USES", "CONTAINS", "DEPLOYED_AS", "BELONGS_TO", "RUNS", "SCHEDULED_ON"}
ConfigImpactEdges ==
    {"USES", "CONTAINS", "DEPLOYED_AS", "BELONGS_TO", "RUNS", "SCHEDULED_ON", "EXPOSES", "ROUTES_TO"}
AccessLinkEdges ==
    {"ROUTES_TO", "EXPOSES", "DEPLOYED_IN", "BELONGS_TO", "CONTAINS", "DEPLOYED_AS", "RUNS",
     "SCHEDULED_ON", "CALLS"}
ImageRiskEdges ==
    {"USES", "USES_IMAGE", "CONTAINS", "DEPLOYED_AS", "BELONGS_TO", "RUNS", "SCHEDULED_ON", "STORED_IN"}

\* The visited nodes with the edges of these types between them.
Subgraph(topology, start, depth, types, dir) ==
    LET visited == DOMAIN Visited(topology, start, types, dir, depth)
    IN [nodes |-> Restrict(topology.nodes, DOMAIN topology.nodes \cap visited),
        edges |-> {e \in topology.edges : e.edge_type \in types /\ {e.source, e.target} \subseteq visited}]

NodeImpact(topology, r) == Subgraph(topology, r, 4, NodeImpactEdges, "reverse")
ConfigImpact(topology, r) == Subgraph(topology, r, 4, ConfigImpactEdges, "reverse")
AccessLink(topology, r) == Subgraph(topology, r, 5, AccessLinkEdges, "both")
ImageRisk(topology, r) == Subgraph(topology, r, 4, ImageRiskEdges, "reverse")

\* What a view offers to start from.
ListResourcesByTypes(topology, types) ==
    {r \in DOMAIN topology.nodes : topology.nodes[r].type \in types}

-----------------------------------------------------------------------------
(* The preview of a recovery action *)

Rule(edge, dir, depth, type, impact) ==
    [edge |-> edge, dir |-> dir, depth |-> depth, type |-> type, impact |-> impact]

Upwards(depth, impact) == Rule("BELONGS_TO", "forward", depth, "any", impact)

PropagationRules ==
    [restart_pod |->
        {Rule("ROUTES_TO", "reverse", 1, "Service", "low"),
         Rule("CONTAINS", "reverse", 1, "Deployment", "minimal"), Upwards(3, "minimal")},
     scale_deployment |-> {Rule("CONTAINS", "forward", 1, "Pod", "minimal"), Upwards(2, "minimal")},
     rollback_deployment |->
        {Rule("CONTAINS", "forward", 1, "Pod", "medium"),
         Rule("ROUTES_TO", "reverse", 2, "Service", "medium"), Upwards(2, "medium")},
     refresh_secret |->
        {Rule("USES", "reverse", 2, "Pod", "medium"), Rule("USES", "reverse", 1, "Deployment", "low"),
         Upwards(3, "low")},
     drain_node |->
        {Rule("SCHEDULED_ON", "reverse", 1, "Pod", "high"),
         Rule("CONTAINS", "reverse", 2, "Deployment", "medium"), Upwards(3, "medium")},
     kill_query |-> {Rule("USES", "reverse", 2, "Pod", "low"), Upwards(3, "low")},
     restart_service |-> {Rule("ROUTES_TO", "forward", 1, "Pod", "minimal"), Upwards(3, "minimal")},
     clear_cache |->
        {Rule("USES", "reverse", 2, "Pod", "high"), Rule("USES", "reverse", 1, "MySQL", "high"),
         Upwards(3, "medium")}]

Impacts == <<"minimal", "low", "medium", "high">>

\* The resources one rule reaches: through any type, of its own type.
Walk(topology, start, rule) ==
    {r \in DOMAIN Distances(topology, start, {rule.edge}, rule.dir, rule.depth) :
        HasNode(topology, r) /\ (rule.type = "any" \/ topology.nodes[r].type = rule.type)}

\* Each resource once, with the worst impact and every relation that reached it.
Affected(topology, action, target) ==
    LET rules == PropagationRules[action]
        Hits(r) == {rule \in rules : r \in Walk(topology, target, rule)}
    IN [r \in UNION {Walk(topology, target, rule) : rule \in rules} |->
           [impact |-> Impacts[Max({i \in DOMAIN Impacts : \E h \in Hits(r) : h.impact = Impacts[i]})],
            via |-> {h.edge : h \in Hits(r)}]]

TargetValid(topology, action, target) ==
    /\ HasNode(topology, target)
    /\ topology.nodes[target].type = Catalogue!ActionDefs[action].target

\* No parameters to roll back with means that there is no way back.
RollbackParams(action, delta) ==
    CASE action = "scale_deployment" -> {[replicas_delta |-> -delta]}
      [] action = "rollback_deployment" -> {<<>>}
      [] OTHER -> {}

\* The action and the target are looked up first; an invalid preview affects
\* nothing.
DryRun(topology, action, target, delta) ==
    IF action \in DOMAIN Catalogue!ActionDefs /\ TargetValid(topology, action, target)
    THEN [valid |-> TRUE, affected |-> Affected(topology, action, target),
          rollback |-> RollbackParams(action, delta)]
    ELSE [valid |-> FALSE, affected |-> <<>>, rollback |-> {}]

-----------------------------------------------------------------------------
(* The catalogue, asked *)

ListActionsFiltered(targetTypes, risks) ==
    {a \in DOMAIN Catalogue!ActionDefs :
        Catalogue!ActionDefs[a].target \in targetTypes /\ Catalogue!ActionDefs[a].risk \in risks}

SuggestForRule ==
    ("rule-001" :> {"scale_deployment", "restart_pod"})
    @@ ("rule-002" :> {"rollback_deployment", "restart_pod"})
    @@ ("rule-003" :> {"scale_deployment", "rollback_deployment"})
    @@ ("rule-004" :> {"refresh_secret"}) @@ ("rule-005" :> {"rollback_deployment"})
    @@ ("rule-006" :> {"restart_service"}) @@ ("rule-007" :> {"refresh_secret"})
    @@ ("rule-008" :> {"drain_node"}) @@ ("rule-009" :> {"rollback_deployment"})
    @@ ("rule-010" :> {"rollback_deployment"})

\* Every rule suggests actions of the catalogue, and the filter finds every action.
ASSUME SuggestionsAssumption ==
    /\ \A rule \in DOMAIN SuggestForRule : SuggestForRule[rule] \subseteq DOMAIN Catalogue!ActionDefs
    /\ \A a \in DOMAIN Catalogue!ActionDefs :
           LET def == Catalogue!ActionDefs[a]
           IN a \in ListActionsFiltered({def.target}, {def.risk})

\* A manual change of any other type has no suggestion.
SuggestForChange(change_type) ==
    CASE change_type \in {"configmap_updated", "deployment_rolled", "image_pushed"} ->
             {"rollback_deployment"}
      [] change_type = "secret_rotated" -> {"refresh_secret", "rollback_deployment"}
      [] OTHER -> {}
===============================================================================
