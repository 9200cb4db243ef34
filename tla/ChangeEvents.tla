----------------------------- MODULE ChangeEvents -----------------------------
(***************************************************************************)
(* Changes and alerts as the engine keeps and relates them: recording a    *)
(* change with its impact, severity and frequency, finding the changes     *)
(* that concern a resource, the alerts that go with a change and the       *)
(* changes that go with an alert, and suggesting a recovery.               *)
(*                                                                         *)
(* Registries are sequences in the order of recording.  What is selected   *)
(* of them is a set: nothing depends on the order of an answer.  Times     *)
(* count half seconds, so that an odd one carries a fraction; the engine   *)
(* itself writes whole seconds only.  An event's propagated_to is a        *)
(* function from the affected resources to their distance, which is the    *)
(* order of the list.  Fields that no decision reads are left out.         *)
(***************************************************************************)
EXTENDS Traversals

CONSTANTS FrequencyWindow, FrequencyThreshold,   \* DEFAULT_WINDOW_SECONDS, DEFAULT_THRESHOLD
          MediumFrom, HighFrom                   \* affected resources, 5 and 10

ASSUME ChangeEventsAssumption ==
    {FrequencyWindow, FrequencyThreshold, MediumFrom, HighFrom} \subseteq Nat

ChangeTypes == {"configmap_updated", "secret_rotated", "deployment_rolled", "image_pushed"}
Sources == {"k8s_api", "argo_cd", "gitops", "manual", "unknown", "flagd"}

-----------------------------------------------------------------------------
(* Time: instants, and the strings that stand for them *)

\* The place of a time among all times as strings of the form 08:00:00Z and
\* 08:00:00.5Z: the point comes before the Z, so that the fraction sorts first.
Lexical(t) == IF t % 2 = 0 THEN t + 1 ELSE t - 1

NotBefore(t, since) == Lexical(t) >= Lexical(since)
NotAfter(t, until) == Lexical(t) <= Lexical(until)

\* A shifted time is written without its fraction.
ShiftIso(t, delta) == LET shifted == t + delta IN shifted - (shifted % 2)

\* Whole seconds between two instants.
SecondsBetween(s, t) == (IF s > t THEN s - t ELSE t - s) \div 2

-----------------------------------------------------------------------------
(* The registries *)

Get(registry, id) == registry[Min({i \in DOMAIN registry : registry[i].id = id})]
Known(registry, id) == \E i \in DOMAIN registry : registry[i].id = id

ListChanges(registry, since, until) ==
    {e \in Range(registry) : NotBefore(e.at, since) /\ NotAfter(e.at, until)}

\* An alert without a time is in no window.
ListAlerts(registry, since, until) ==
    {a \in Range(registry) :
        a.fired_at > 0 /\ NotBefore(a.fired_at, since) /\ NotAfter(a.fired_at, until)}

-----------------------------------------------------------------------------
(* Recording a change *)

EstimateSeverity(count) ==
    CASE count >= HighFrom -> "high" [] count < HighFrom /\ count >= MediumFrom -> "medium"
      [] OTHER -> "low"

\* The changes of a target since the window began, future ones included.
RecentOf(registry, target, now, window) ==
    {i \in DOMAIN registry : registry[i].target = target /\ registry[i].at >= now - window}

IsFrequent(registry, target, now) ==
    Cardinality(RecentOf(registry, target, now, FrequencyWindow)) > FrequencyThreshold

DetectFrequentChanges(registry, now, window, threshold) ==
    {t \in {registry[i].target : i \in DOMAIN registry} :
        Cardinality(RecentOf(registry, t, now, window)) > threshold}

\* The count includes the change itself; the severity only rises.
ApplyFrequencyCheck(event, registry, now) ==
    IF IsFrequent(registry, event.target, now)
    THEN [event EXCEPT !.frequent = TRUE, !.severity = IF @ = "low" THEN "medium" ELSE @]
    ELSE event

ValidRequest(req) == req.change_type \in ChangeTypes /\ req.source \in Sources

\* The target's type and impact are those of the topology at hand: a target
\* that is not there has neither.  A request without a time gets the present.
NewChange(registry, topology, req, now) ==
    LET propagated == DerivePropagation(topology, req.target)
    IN [id |-> Len(registry) + 1, change_type |-> req.change_type, target |-> req.target,
        target_type |-> IF HasNode(topology, req.target) THEN topology.nodes[req.target].type ELSE "",
        source |-> req.source, at |-> IF req.at = 0 THEN now ELSE req.at,
        propagated |-> propagated,
        severity |-> EstimateSeverity(Cardinality(DOMAIN propagated)), frequent |-> FALSE]

\* Mutant: the change itself is not counted.
RecordUncounted(registry, topology, req, now) ==
    IF ~ValidRequest(req) THEN registry
    ELSE LET event == NewChange(registry, topology, req, now)
         IN Append(registry, ApplyFrequencyCheck(event, registry, now))

RecordChange(registry, topology, req, now) ==
    IF ~ValidRequest(req) THEN registry
    ELSE LET event == NewChange(registry, topology, req, now)
         IN Append(registry, ApplyFrequencyCheck(event, Append(registry, event), now))

-----------------------------------------------------------------------------
(* Changes that concern a resource *)

\* Both ends given, one, or none; without a start the window ends at until.
CorrelatedWindow(window, since, until, now) ==
    CASE since > 0 /\ until > 0 -> <<since, until>>
      [] since > 0 /\ until = 0 -> <<since, ShiftIso(since, window)>>
      [] since = 0 -> LET end == IF until = 0 THEN now ELSE until IN <<ShiftIso(end, -window), end>>

\* Of the changes in the window, those of the resource and those that reach it,
\* with the length of the path in the topology of now, one when it is gone; in
\* any order.
CorrelatedChanges(registry, topology, target, win, include) ==
    {[event |-> e, distance |-> IF e.target = target THEN 0
                                ELSE Max({1, FindPropagationPath(topology, e.target, target)})] :
        e \in {d \in ListChanges(registry, win[1], win[2]) :
                   d.target = target \/ (include /\ target \in DOMAIN d.propagated)}}

\* The impact is searched again in the topology of now.
ChangeEventImpact(registry, topology, id) ==
    DOMAIN DerivePropagation(topology, Get(registry, id).target)

-----------------------------------------------------------------------------
(* Changes and alerts *)

Concerns(event, ref) == event.target = ref \/ ref \in DOMAIN event.propagated

\* The alerts around a change, by their time as a string.
CorrelateAlerts(registry, alerts, id, window) ==
    LET event == Get(registry, id)
    IN {a \in ListAlerts(alerts, ShiftIso(event.at, -window), ShiftIso(event.at, window)) :
           Concerns(event, a.ref)}

\* Mutant: the ends of the window are left out.
ChangesWithin(registry, ref, fired, window) ==
    {e \in Range(registry) :
        Concerns(e, ref) /\ (fired > 0 => SecondsBetween(e.at, fired) < window \div 2)}

\* The changes around a time, by the instants: any time, when it is not known.
ChangesAround(registry, ref, fired, window) ==
    {e \in Range(registry) :
        Concerns(e, ref) /\ (fired > 0 => SecondsBetween(e.at, fired) <= window \div 2)}

\* An alert that is not known has none.
CorrelateChangesForAlert(registry, alerts, id, window) ==
    IF ~Known(alerts, id) THEN {}
    ELSE LET alert == Get(alerts, id)
         IN ChangesAround(registry, alert.ref, alert.fired_at, window)

AlertContextEdges ==
    {"CONTAINS", "DEPLOYED_AS", "BELONGS_TO", "SCHEDULED_ON", "RUNS", "ROUTES_TO", "EXPOSES", "USES"}

\* Every firing alert, tied to its resource if that is in the topology, with
\* the surroundings of the resource.
AlertAggregationGraph(alerts, topology, severities, depth) ==
    LET firing == {a \in Range(alerts) : a.status = "firing" /\ a.severity \in severities}
        placed == {a \in firing : HasNode(topology, a.ref)}
        around == {Subgraph(topology, a.ref, depth, AlertContextEdges, "both") : a \in placed}
    IN [alerts |-> {a.id : a \in firing},
        firedOn |-> {<<a.id, a.ref>> : a \in placed},
        nodes |-> UNION {DOMAIN g.nodes : g \in around},
        edges |-> UNION {g.edges : g \in around}]

-----------------------------------------------------------------------------
(* Suggesting a recovery *)

\* The change's own target if the action takes its type, or else the nearest
\* affected resource of that type that is in the topology of now; which one
\* of several as near is the order of the stored edges.
SuggestedTargets(event, topology, action) ==
    LET type == Catalogue!ActionDefs[action].target
        fit == {r \in DOMAIN event.propagated : HasNode(topology, r) /\ topology.nodes[r].type = type}
    IN IF event.target_type = type THEN {event.target}
       ELSE {r \in fit : \A s \in fit : event.propagated[r] <= event.propagated[s]}

\* An action without a target is suggested all the same, unresolved.
GetRecoverySuggestion(registry, topology, id) ==
    LET event == Get(registry, id)
    IN [a \in SuggestForChange(event.change_type) |-> SuggestedTargets(event, topology, a)]
===============================================================================
