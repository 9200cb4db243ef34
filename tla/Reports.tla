-------------------------------- MODULE Reports --------------------------------
(***************************************************************************)
(* What a report says: the sections of the three templates, computed from  *)
(* the topology, the changes and the recovery executions at hand.          *)
(*                                                                         *)
(* The rendering to Markdown is left out, and with it names, reasons and   *)
(* labels.  An execution has a target, an action, a status and the time it *)
(* was started.  A cluster is given as the set of the resource ids it      *)
(* matches.  There are no faults in this system, so the parts about faults *)
(* are empty.                                                              *)
(***************************************************************************)
EXTENDS ChangeEvents

\* An unknown health counts as a good one.
ShownHealth(node) ==
    LET h == Attr(node, "health_status", "normal")
    IN IF h \in {"critical", "warning"} THEN h ELSE "normal"

\* Mutant: the applications that a resource belongs to are searched, and not
\* what an application is made of.
SubtreeUpwards(topology, app) == {app} \cup DOMAIN DerivePropagation(topology, app)

\* An application, in the topology or not, and all that belongs to it.
Subtree(topology, app) == {app} \cup FindDescendants(topology, app)

Placed(topology, rids) == {r \in rids : HasNode(topology, r)}

WithHealth(topology, rids, health) ==
    {r \in Placed(topology, rids) : ShownHealth(topology.nodes[r]) = health}

OfType(topology, rids, type) == {r \in Placed(topology, rids) : topology.nodes[r].type = type}

\* The places in a list of the events against these resources.
Against(events, rids) == {i \in DOMAIN events : events[i].target \in rids}

Column(events, places, field) == [i \in places |-> events[i][field]]

\* How often each value is there.
Tally(values) == [v \in Range(values) |-> Cardinality({i \in DOMAIN values : values[i] = v})]

\* What is at these places of a list, the least key first, and of one key in the order
\* of the list.
Sorted(list, places, key) ==
    LET Before(i, j) == key[i] < key[j] \/ (key[i] = key[j] /\ i < j)
        Place(i) == Cardinality({j \in places : Before(j, i)})
    IN [k \in 1..Cardinality(places) |-> list[CHOOSE i \in places : Place(i) = k - 1]]

-----------------------------------------------------------------------------
(* The health of an application *)

Rating(score) ==
    CASE score >= 80 -> "healthy" [] score >= 60 /\ score < 80 -> "health_warning"
      [] score >= 40 /\ score < 60 -> "risk_medium" [] score < 40 -> "risk_high"

ComputeHealthScore(topology, app) ==
    LET subtree == Subtree(topology, app)
        critical == Cardinality(WithHealth(topology, subtree, "critical"))
        warning == Cardinality(WithHealth(topology, subtree, "warning"))
        score == Max({0, 100 - 10 * critical - 3 * warning})
    IN [application |-> app, score |-> score, rating |-> Rating(score), critical |-> critical,
        warning |-> warning, total_nodes |-> Cardinality(subtree)]

\* A pod is ready by its phase alone, and one of unknown phase is.
GatherSevenViews(topology, changes, executions, app) ==
    LET subtree == Subtree(topology, app)
        pods == OfType(topology, subtree, "Pod")
    IN [components |-> OfType(topology, subtree, "ApplicationComponent"),
        deployments |-> OfType(topology, subtree, "Deployment"),
        pods |-> pods,
        services |-> OfType(topology, subtree, "Service"),
        health |-> [h \in {"normal", "warning", "critical"} |-> WithHealth(topology, subtree, h)],
        not_ready_pods |-> {p \in pods : Attr(topology.nodes[p], "phase", "") \notin {"", "Running"}},
        changes |-> Tally(Column(changes, Against(changes, subtree), "change_type")),
        recoveries |-> Tally(Column(executions, Against(executions, subtree), "status"))]

IsHigh(change) == change.severity = "high"

GatherRiskList(topology, changes, app) ==
    LET subtree == Subtree(topology, app)
    IN [critical |-> WithHealth(topology, subtree, "critical"),
        warning |-> WithHealth(topology, subtree, "warning"),
        change |-> {c \in {changes[i] : i \in Against(changes, subtree)} : IsHigh(c)}]

\* Each action once for each changed resource: the target is that resource,
\* whether or not it is one the action can take.
GatherRecommendedActions(topology, changes, app) ==
    UNION {{<<a, c.target>> : a \in SuggestForChange(c.change_type)} :
               c \in GatherRiskList(topology, changes, app).change}

Day(time) == time \div (2 * 24 * 60 * 60)
Days(events, places) == [i \in places |-> Day(events[i].at)]

\* Every day of the past; the number of days is only a heading.
GatherHistoricalTrends(topology, changes, executions, app) ==
    LET subtree == Subtree(topology, app)
    IN [changes |-> Tally(Days(changes, Against(changes, subtree))),
        recoveries |-> Tally(Days(executions, Against(executions, subtree)))]

-----------------------------------------------------------------------------
(* The overview of a cluster *)

ListApplications(topology, cluster) ==
    OfType(topology, cluster, "Application")

\* The applications, the worst score first, and how many have each rating.
GatherClusterHealth(topology, cluster) ==
    LET scores == SetToSeq({ComputeHealthScore(topology, a) : a \in ListApplications(topology, cluster)})
    IN [apps |-> Sorted(scores, DOMAIN scores, Column(scores, DOMAIN scores, "score")),
        ratings |-> Tally(Column(scores, DOMAIN scores, "rating"))]

TopN == 5

GatherClusterRiskTopN(topology, changes, cluster) ==
    LET apps == GatherClusterHealth(topology, cluster).apps
    IN [apps |-> SubSeq(apps, 1, Min({TopN, Len(apps)})),
        high |-> Cardinality({i \in Against(changes, cluster) : IsHigh(changes[i])})]

\* Of targets that changed as often, any may be cut off.
GatherClusterChanges(changes, cluster) ==
    LET counted == Against(changes, cluster)
        byTarget == Tally(Column(changes, counted, "target"))
        Busiest(top, i) ==
            LET rest == DOMAIN byTarget \ top
            IN top \cup {CHOOSE t \in rest : \A u \in rest : byTarget[u] <= byTarget[t]}
    IN [by_type |-> Tally(Column(changes, counted, "change_type")),
        top_targets |-> FoldLeft(Busiest, {},
                            [i \in 1..Min({TopN, Cardinality(DOMAIN byTarget)}) |-> i])]

\* The share of succeeded executions, as a pair.  Those that were rolled back are
\* listed as rolledback and looked up as rolled_back, and so never count.
GatherClusterRecoveries(executions, cluster) ==
    LET Key(status) == IF status = "rolled_back" THEN "rolledback" ELSE status
        counted == Against(executions, cluster)
        status == Tally([i \in counted |-> Key(executions[i].status)])
        Count(s) == IF s \in DOMAIN status THEN status[s] ELSE 0
    IN [status |-> status,
        success_rate |-> <<Count("succeeded"), Count("succeeded") + Count("failed") + Count("rolled_back")>>]

-----------------------------------------------------------------------------
(* The report of an incident *)

\* A change is the only anchor there is; without one there is no report.
ResolveAnchor(changes, scope) ==
    IF scope.fault_id = 0 /\ Known(changes, scope.change_event_id)
    THEN {Get(changes, scope.change_event_id)} ELSE {}

\* An hour in the code, the window given here.
WithinWindow(time, anchor, window) == SecondsBetween(time, anchor.at) <= window \div 2

\* Who depends on the target in the topology of now, and the target.
PropagatedWithTarget(topology, anchor) ==
    DOMAIN DerivePropagation(topology, anchor.target) \cup {anchor.target}

GatherIncidentSummary(topology, anchor) ==
    Placed(topology, DOMAIN DerivePropagation(topology, anchor.target))

Item(kind, e) == [kind |-> kind, at |-> e.at, target |-> e.target]

\* Changes and executions around the anchor, the oldest first.
GatherIncidentTimeline(topology, changes, executions, anchor, window) ==
    LET Items(kind, events) == [i \in DOMAIN events |-> Item(kind, events[i])]
        items == Items("change", changes) \o Items("recovery", executions)
        around == {i \in Against(items, PropagatedWithTarget(topology, anchor)) :
                      WithinWindow(items[i].at, anchor, window)}
    IN Sorted(items, around, [i \in around |-> Lexical(items[i].at)])

\* Executions of any time; the recommendation is for the anchor's target.
GatherIncidentRecoveries(topology, executions, anchor) ==
    [executed |-> {executions[i] : i \in Against(executions, PropagatedWithTarget(topology, anchor))},
     recommended |-> {<<a, anchor.target>> : a \in SuggestForChange(anchor.change_type)}]

-----------------------------------------------------------------------------
(* A report *)

ValidModules ==
    [application_health |->
        {"health_score", "seven_views", "risk_list", "recommended_actions", "historical_trends"},
     cluster_overview |->
        {"cluster_health", "cluster_risk_top_n", "cluster_changes", "cluster_recoveries"},
     incident_report |-> {"incident_summary", "incident_timeline", "incident_recoveries"}]

\* None stands for all; one that the template does not have is passed over.
EnabledModules(template, modules) ==
    IF modules = {} THEN ValidModules[template] ELSE ValidModules[template] \cap modules

\* No cluster is asked for.
Everything(topology, changes, executions) ==
    DOMAIN topology.nodes \cup {c.target : c \in Range(changes)} \cup {e.target : e \in Range(executions)}

Section(m, topology, changes, executions, app, anchor, window) ==
    LET cluster == Everything(topology, changes, executions) IN
    CASE m = "health_score" -> ComputeHealthScore(topology, app)
      [] m = "seven_views" -> GatherSevenViews(topology, changes, executions, app)
      [] m = "risk_list" -> GatherRiskList(topology, changes, app)
      [] m = "recommended_actions" -> GatherRecommendedActions(topology, changes, app)
      [] m = "historical_trends" -> GatherHistoricalTrends(topology, changes, executions, app)
      [] m = "cluster_health" -> GatherClusterHealth(topology, cluster)
      [] m = "cluster_risk_top_n" -> GatherClusterRiskTopN(topology, changes, cluster)
      [] m = "cluster_changes" -> GatherClusterChanges(changes, cluster)
      [] m = "cluster_recoveries" -> GatherClusterRecoveries(executions, cluster)
      [] m = "incident_summary" -> GatherIncidentSummary(topology, anchor)
      [] m = "incident_timeline" -> GatherIncidentTimeline(topology, changes, executions, anchor, window)
      [] m = "incident_recoveries" -> GatherIncidentRecoveries(topology, executions, anchor)

\* Only the report of an incident can fail; the overview is of all clusters.
GenerateReport(template, modules, scope, topology, changes, executions, window) ==
    LET anchors == IF template = "incident_report" THEN ResolveAnchor(changes, scope) ELSE {"none"}
    IN {[m \in EnabledModules(template, modules) |->
            Section(m, topology, changes, executions, scope.application_id, anchor, window)] :
           anchor \in anchors}
=============================================================================
