-------------------------- MODULE SyncPipelineProofs --------------------------
(***************************************************************************)
(* Proofs about SyncPipeline, for any number of changes, faults, clicks and *)
(* ticks and any retention: what becomes of an event that was handed over,  *)
(* and what two topologies that are compared have to do with the cluster.   *)
(***************************************************************************)
EXTENDS SyncPipeline, FiniteSetTheorems, TLAPS

-----------------------------------------------------------------------------
(* What a caller holds *)

Stages == {"connectors", "facts", "resolve", "diff", "apply"}

ShapeOK ==
    /\ sync = [c \in Callers |-> sync[c]]
    /\ \A c \in Callers :
          /\ sync[c] = [stage |-> sync[c].stage, listed |-> sync[c].listed,
                        facts |-> sync[c].facts, events |-> sync[c].events,
                        next |-> sync[c].next, changes |-> sync[c].changes]
          /\ sync[c].stage \in Stages
          /\ sync[c].listed \in BOOLEAN

\* The records that hold, in each field, a value some caller has or one of those given.
Progress(facts, events, next, changes) ==
    [stage : Stages, listed : BOOLEAN,
     facts : {sync[d].facts : d \in Callers} \cup facts,
     events : {sync[d].events : d \in Callers} \cup events,
     next : {sync[d].next : d \in Callers} \cup next,
     changes : {sync[d].changes : d \in Callers} \cup changes]

LEMMA ProgressFits ==
    ASSUME ShapeOK, NEW facts, NEW events, NEW next, NEW changes
    PROVE  sync \in [Callers -> Progress(facts, events, next, changes)]
BY DEF ShapeOK, Progress

\* One of the two callers, both or none.
LEMMA TwoCallers ==
    ASSUME NEW progress, NEW e
    PROVE  Cardinality({c \in Callers : e \in progress[c].events}) =
              Once(e \in progress["manual"].events) + Once(e \in progress["loop"].events)
<1> DEFINE P(c) == e \in progress[c].events
           holders == {c \in Callers : P(c)}
<1> HIDE DEF P
<1> SUFFICES Cardinality(holders) = Once(P("manual")) + Once(P("loop"))
    BY DEF P
<1>1. CASE P("manual") /\ P("loop")
    <2>1. holders = {"manual"} \cup {"loop"}  BY <1>1 DEF Callers
    <2>2. Cardinality({"manual"} \cup {"loop"}) = 2
        <3>1. IsFiniteSet({"manual"}) /\ Cardinality({"manual"}) = 1  BY FS_Singleton
        <3>2. "loop" \notin {"manual"}  OBVIOUS
        <3> QED  BY <3>1, <3>2, FS_AddElement
    <2> QED  BY <1>1, <2>1, <2>2 DEF Once
<1>2. CASE P("manual") /\ ~P("loop")
    <2>1. holders = {"manual"}  BY <1>2 DEF Callers
    <2>2. Cardinality({"manual"}) = 1  BY FS_Singleton
    <2> QED  BY <1>2, <2>1, <2>2 DEF Once
<1>3. CASE ~P("manual") /\ P("loop")
    <2>1. holders = {"loop"}  BY <1>3 DEF Callers
    <2>2. Cardinality({"loop"}) = 1  BY FS_Singleton
    <2> QED  BY <1>3, <2>1, <2>2 DEF Once
<1>4. CASE ~P("manual") /\ ~P("loop")
    <2>1. holders = {}  BY <1>4 DEF Callers
    <2> QED  BY <1>4, <2>1, FS_EmptySet DEF Once
<1> QED  BY <1>1, <1>2, <1>3, <1>4

\* What the connectors that are due give.
Dues(c) == {k \in Connectors : Due(c, k)}
InnerListed(c) == "k8s" \in Dues(c) /\ apiUp
InnerFacts(c) == IF "k8s" \in Dues(c) THEN Listed ELSE {}
InnerEvents(c) == IF "k8s-events" \in Dues(c) /\ apiUp THEN Fresh ELSE {}

\* What the steps of a sync do to its progress, and that they leave the other alone.
LEMMA InnerProgress ==
    ASSUME ShapeOK, NEW c \in Callers, SyncInner(c)
    PROVE  /\ ShapeOK'
           /\ \A d \in Callers \ {c} : sync'[d] = sync[d]
           /\ Stage(c) = "connectors"
           /\ sync'[c] = [stage |-> "facts",
                listed |-> InnerListed(c), facts |-> InnerFacts(c), events |-> InnerEvents(c),
                next |-> sync[c].next, changes |-> sync[c].changes]
<1> DEFINE S == Progress({InnerFacts(c)}, {InnerEvents(c)}, {}, {})
<1>1. sync \in [Callers -> S] /\ sync[c] \in S  BY ProgressFits
<1>2. sync' = [sync EXCEPT ![c].stage = "facts", ![c].events = InnerEvents(c),
                             ![c].listed = InnerListed(c), ![c].facts = InnerFacts(c)]
    BY DEF SyncInner, InnerListed, InnerFacts, InnerEvents, Dues
<1>3. InnerListed(c) \in BOOLEAN  BY DEF InnerListed
<1>4. /\ sync' \in [Callers -> S]
      /\ sync'[c].stage = "facts" /\ sync'[c].listed = InnerListed(c)
      /\ sync'[c].facts = InnerFacts(c) /\ sync'[c].events = InnerEvents(c)
      /\ sync'[c].next = sync[c].next /\ sync'[c].changes = sync[c].changes
    BY <1>1, <1>2, <1>3 DEF Progress, Stages
<1>5. \A d \in Callers \ {c} : sync'[d] = sync[d]  BY <1>1, <1>2
<1>6. ShapeOK'  BY <1>4 DEF ShapeOK, Progress
<1>7. sync'[c] = [stage |-> sync'[c].stage, listed |-> sync'[c].listed, facts |-> sync'[c].facts,
        events |-> sync'[c].events, next |-> sync'[c].next, changes |-> sync'[c].changes]
    BY <1>6 DEF ShapeOK
<1>8. Stage(c) = "connectors"  BY DEF SyncInner
<1> QED  BY <1>4, <1>5, <1>6, <1>7, <1>8

LEMMA StoredProgress ==
    ASSUME ShapeOK, NEW c \in Callers, NEW none,
           sync' = [sync EXCEPT ![c].stage = "resolve", ![c].facts = none]
    PROVE  /\ ShapeOK'
           /\ \A d \in Callers \ {c} : sync'[d] = sync[d]
           /\ sync'[c] = [stage |-> "resolve", listed |-> sync[c].listed, facts |-> none,
                events |-> sync[c].events, next |-> sync[c].next, changes |-> sync[c].changes]
<1> DEFINE S == Progress({none}, {}, {}, {})
<1>1. sync \in [Callers -> S] /\ sync[c] \in S  BY ProgressFits
<1>2. /\ sync' \in [Callers -> S]
      /\ sync'[c].stage = "resolve" /\ sync'[c].listed = sync[c].listed
      /\ sync'[c].facts = none /\ sync'[c].events = sync[c].events
      /\ sync'[c].next = sync[c].next /\ sync'[c].changes = sync[c].changes
    BY <1>1 DEF Progress, Stages
<1>3. \A d \in Callers \ {c} : sync'[d] = sync[d]  BY <1>1
<1>4. ShapeOK'  BY <1>2 DEF ShapeOK, Progress
<1>5. sync'[c] = [stage |-> sync'[c].stage, listed |-> sync'[c].listed, facts |-> sync'[c].facts,
        events |-> sync'[c].events, next |-> sync'[c].next, changes |-> sync'[c].changes]
    BY <1>4 DEF ShapeOK
<1> QED  BY <1>2, <1>3, <1>4, <1>5

LEMMA QuietProgress ==
    ASSUME ShapeOK, NEW c \in Callers, sync' = [sync EXCEPT ![c] = Quiet]
    PROVE  /\ ShapeOK'
           /\ \A d \in Callers \ {c} : sync'[d] = sync[d]
           /\ sync'[c] = Quiet
BY DEF ShapeOK, Stages, Quiet

\* A caller that does nothing holds nothing.
LEMMA QuietHolds ==
    /\ Quiet.stage = "connectors" /\ Quiet.events = {} /\ Quiet.facts = {}
    /\ Quiet.listed = FALSE
BY DEF Quiet

LEMMA ResolvedProgress ==
    ASSUME ShapeOK, NEW c \in Callers, ResolveFacts(c)
    PROVE  /\ ShapeOK'
           /\ \A d \in Callers \ {c} : sync'[d] = sync[d]
           /\ sync'[c] = [stage |-> "diff", listed |-> sync[c].listed, facts |-> sync[c].facts,
                events |-> sync[c].events,
                next |-> MergeMetricHealth(Resolve(LatestTopologyFacts(rows)), LatestMetricFacts(rows)),
                changes |-> sync[c].changes]
<1> DEFINE next == MergeMetricHealth(Resolve(LatestTopologyFacts(rows)), LatestMetricFacts(rows))
           S == Progress({}, {}, {next}, {})
<1>1. sync \in [Callers -> S] /\ sync[c] \in S  BY ProgressFits
<1>2. sync' = [sync EXCEPT ![c].stage = "diff", ![c].next = next]
    BY DEF ResolveFacts
<1>3. /\ sync' \in [Callers -> S]
      /\ sync'[c].stage = "diff" /\ sync'[c].listed = sync[c].listed
      /\ sync'[c].facts = sync[c].facts /\ sync'[c].events = sync[c].events
      /\ sync'[c].next = next /\ sync'[c].changes = sync[c].changes
    BY <1>1, <1>2 DEF Progress, Stages
<1>4. \A d \in Callers \ {c} : sync'[d] = sync[d]  BY <1>1, <1>2
<1>5. ShapeOK'  BY <1>3 DEF ShapeOK, Progress
<1>6. sync'[c] = [stage |-> sync'[c].stage, listed |-> sync'[c].listed, facts |-> sync'[c].facts,
        events |-> sync'[c].events, next |-> sync'[c].next, changes |-> sync'[c].changes]
    BY <1>5 DEF ShapeOK
<1> QED  BY <1>3, <1>4, <1>5, <1>6

LEMMA RecordedProgress ==
    ASSUME ShapeOK, NEW c \in Callers, DiffAndRecord(c)
    PROVE  /\ ShapeOK'
           /\ \A d \in Callers \ {c} : sync'[d] = sync[d]
           /\ sync'[c] = [stage |-> "apply", listed |-> sync[c].listed, facts |-> sync[c].facts,
                events |-> {}, next |-> NoTopology, changes |-> Diff(stored, sync[c].next)]
<1> DEFINE changes == Diff(stored, sync[c].next)
           S == Progress({}, {{}}, {NoTopology}, {changes})
<1>1. sync \in [Callers -> S] /\ sync[c] \in S  BY ProgressFits
<1>2. sync' = [sync EXCEPT ![c].stage = "apply", ![c].events = {},
                             ![c].next = NoTopology, ![c].changes = changes]
    BY DEF DiffAndRecord
<1>3. /\ sync' \in [Callers -> S]
      /\ sync'[c].stage = "apply" /\ sync'[c].listed = sync[c].listed
      /\ sync'[c].facts = sync[c].facts /\ sync'[c].events = {}
      /\ sync'[c].next = NoTopology /\ sync'[c].changes = changes
    BY <1>1, <1>2 DEF Progress, Stages
<1>4. \A d \in Callers \ {c} : sync'[d] = sync[d]  BY <1>1, <1>2
<1>5. ShapeOK'  BY <1>3 DEF ShapeOK, Progress
<1>6. sync'[c] = [stage |-> sync'[c].stage, listed |-> sync'[c].listed, facts |-> sync'[c].facts,
        events |-> sync'[c].events, next |-> sync'[c].next, changes |-> sync'[c].changes]
    BY <1>5 DEF ShapeOK
<1> QED  BY <1>3, <1>4, <1>5, <1>6

LEMMA RestartedProgress ==
    ASSUME sync' = [c \in Callers |-> Quiet]
    PROVE  ShapeOK' /\ \A c \in Callers : sync'[c] = Quiet
BY DEF ShapeOK, Stages, Quiet

LEMMA SameProgress ==
    ASSUME ShapeOK, UNCHANGED sync
    PROVE  ShapeOK'
BY DEF ShapeOK

-----------------------------------------------------------------------------
(* Bags *)

\* Adding one copy of each element of a set.
LEMMA CountAdded ==
    ASSUME NEW B, IsABag(B), NEW S, NEW x
    PROVE  /\ IsABag(B (+) SetToBag(S))
           /\ Count(x, B (+) SetToBag(S)) = Count(x, B) + Once(x \in S)
           /\ Count(x, B) \in Nat
           /\ DOMAIN (B (+) SetToBag(S)) = DOMAIN B \cup S
BY DEF IsABag, SetToBag, (+), Count, BagIn, BagToSet, Once

\* What is in a bag is in it at least once.
LEMMA CountPositive ==
    ASSUME NEW B, IsABag(B), NEW x
    PROVE  /\ Count(x, B) \in Nat
           /\ Count(x, B) = 0 <=> x \notin DOMAIN B
BY DEF IsABag, Count, BagIn, BagToSet

\* Nothing is in the empty bag.
LEMMA CountEmpty ==
    /\ IsABag(EmptyBag)
    /\ DOMAIN EmptyBag = {}
    /\ \A x : Count(x, EmptyBag) = 0
BY DEF IsABag, SetToBag, EmptyBag, Count, BagIn, BagToSet

\* What the table of change events holds, the registry holds.
RowsRegistered ==
    /\ IsABag(registry)
    /\ IsABag(eventRows)
    /\ \A x \in DOMAIN eventRows : x \in DOMAIN registry /\ eventRows[x] <= registry[x]

\* No event has more rows than it has entries in the registry.
LEMMA RowsCounted ==
    ASSUME RowsRegistered
    PROVE  \A x : Count(x, eventRows) \in Nat /\ Count(x, registry) \in Nat
                     /\ Count(x, eventRows) <= Count(x, registry)
<1> TAKE x
<1> QED  BY CountPositive DEF RowsRegistered, Count, BagIn, BagToSet, IsABag

Handed(e) == [source |-> "fact", event |-> e]

-----------------------------------------------------------------------------
(* What was handed over *)

\* Where an event can be.
Places(e) ==
    Once(e \in sync["manual"].events) + Once(e \in sync["loop"].events)
        + Recorded(e) + Once(e \in lost)

\* Handed over is what the guest has seen, or what a guest before it had; what it
\* can hand over next was not.
Delivered ==
    /\ replicas \in Nat
    /\ handed \subseteq 1..replicas
    /\ baselined => handed \subseteq seen
    /\ lost \subseteq handed
    /\ \A c \in Callers :
          /\ sync[c].events \subseteq handed
          /\ Stage(c) \in {"connectors", "apply"} => sync[c].events = {}
    /\ \A e : e \notin handed => Recorded(e) = 0
    /\ \A e \in handed : Places(e) = 1

DeliveryInv == ShapeOK /\ RowsRegistered /\ Delivered

\* In the places an event can be it is once.
LEMMA OnePlace == ASSUME DeliveryInv PROVE HandedOverOnce
<1> SUFFICES ASSUME NEW e \in handed
             PROVE  Cardinality({c \in Callers : e \in sync[c].events})
                        + Recorded(e) + Once(e \in lost) = 1
    BY DEF HandedOverOnce
<1>1. Places(e) = 1  BY DEF DeliveryInv, Delivered
<1>2. Cardinality({c \in Callers : e \in sync[c].events}) =
         Once(e \in sync["manual"].events) + Once(e \in sync["loop"].events)
    BY TwoCallers
<1>3. Recorded(e) \in Nat  BY CountPositive DEF DeliveryInv, RowsRegistered, Recorded
<1> QED  BY <1>1, <1>2, <1>3 DEF Places, Once

LEMMA InitDelivers == ASSUME Init PROVE DeliveryInv
<1>1. ShapeOK  BY DEF Init, ShapeOK, Quiet, Stages
<1>2. RowsRegistered  BY CountEmpty DEF Init, RowsRegistered
<1>3. replicas \in Nat
    BY SyncAssumption DEF Init
<1>4. Delivered
    BY <1>3, CountEmpty DEF Init, Delivered, Quiet, Stage, Recorded
<1> QED  BY <1>1, <1>2, <1>4 DEF DeliveryInv

\* A step that leaves the events where they are.
LEMMA NothingMoves ==
    ASSUME DeliveryInv, ShapeOK', RowsRegistered',
           replicas' \in Nat, replicas <= replicas', handed' = handed, lost' = lost,
           UNCHANGED registry,
           baselined' => handed' \subseteq seen',
           \A c \in Callers : sync'[c].events = sync[c].events,
           \A c \in Callers : sync'[c].stage \in {"connectors", "apply"} => sync[c].events = {}
    PROVE  DeliveryInv'
<1>1. Delivered'
    BY DEF DeliveryInv, Delivered, Stage, Recorded, Places, Callers
<1> QED  BY <1>1 DEF DeliveryInv

LEMMA InnerDelivers ==
    ASSUME DeliveryInv, NEW c \in Callers, SyncInner(c)
    PROVE  DeliveryInv'
<1> DEFINE events == InnerEvents(c)
<1>0. ShapeOK  BY DEF DeliveryInv
<1>1. /\ ShapeOK'
      /\ \A d \in Callers \ {c} : sync'[d] = sync[d]
      /\ Stage(c) = "connectors"
      /\ sync'[c].events = events /\ sync'[c].stage = "facts"
    <2>1. /\ ShapeOK'
          /\ \A d \in Callers \ {c} : sync'[d] = sync[d]
          /\ Stage(c) = "connectors"
        BY <1>0, InnerProgress
    <2>2. sync'[c] = [stage |-> "facts", listed |-> InnerListed(c), facts |-> InnerFacts(c),
             events |-> events, next |-> sync[c].next, changes |-> sync[c].changes]
        BY <1>0, InnerProgress
    <2> HIDE DEF events
    <2> QED  BY <2>1, <2>2
<1>2. /\ UNCHANGED <<replicas, registry, eventRows, lost>>
      /\ handed' = handed \cup events
      /\ IF "k8s-events" \in Dues(c) THEN SyncK8sEvents ELSE UNCHANGED <<seen, baselined>>
    BY DEF SyncInner, world, tables, memory, Dues, InnerEvents
<1>3. events \cap handed = {} /\ events \subseteq 1..replicas
    BY DEF DeliveryInv, Delivered, Fresh, InnerEvents
<1>4. RowsRegistered'  BY <1>2 DEF DeliveryInv, RowsRegistered
<1>5. baselined' => handed' \subseteq seen'
    <2>1. CASE "k8s-events" \in Dues(c) /\ apiUp
        BY <1>2, <2>1, <1>3 DEF SyncK8sEvents, DeliveryInv, Delivered
    <2>2. CASE ~("k8s-events" \in Dues(c) /\ apiUp)
        BY <1>2, <2>2 DEF InnerEvents, SyncK8sEvents, DeliveryInv, Delivered
    <2> QED  BY <2>1, <2>2
<1> HIDE DEF events
<1>6. sync[c].events = {}  BY <1>1 DEF DeliveryInv, Delivered
<1>7. \A e : Recorded(e)' = Recorded(e)  BY <1>2 DEF Recorded
<1>8. \A e \in handed' : Places(e)' = 1
    <2> SUFFICES ASSUME NEW e \in handed' PROVE Places(e)' = 1  OBVIOUS
    <2>1. CASE e \in handed
        <3>1. \A d \in Callers : e \in sync'[d].events <=> e \in sync[d].events
            BY <1>1, <1>3, <1>6, <2>1
        <3> QED  BY <3>1, <1>2, <1>7, <2>1 DEF Places, DeliveryInv, Delivered, Callers, Once
    <2>2. CASE e \notin handed
        <3>1. e \in sync'[c].events  BY <1>1, <1>2, <2>2
        <3>2. \A d \in Callers \ {c} : e \notin sync'[d].events
            BY <1>1, <2>2 DEF DeliveryInv, Delivered
        <3>3. Recorded(e)' = 0 /\ e \notin lost'
            BY <1>2, <1>7, <2>2 DEF DeliveryInv, Delivered
        <3> QED  BY <3>1, <3>2, <3>3 DEF Places, Callers, Once
    <2> QED  BY <2>1, <2>2
<1>9. Delivered'
    <2>1. /\ replicas' \in Nat /\ handed' \subseteq 1..replicas' /\ lost' \subseteq handed'
        BY <1>2, <1>3 DEF DeliveryInv, Delivered
    <2>2. ASSUME NEW d \in Callers
          PROVE  /\ sync'[d].events \subseteq handed'
                 /\ sync'[d].stage \in {"connectors", "apply"} => sync'[d].events = {}
        BY <1>1, <1>2 DEF DeliveryInv, Delivered, Stage
    <2>3. \A e : e \notin handed' => Recorded(e)' = 0
        BY <1>2, <1>7 DEF DeliveryInv, Delivered
    <2> QED  BY <2>1, <2>2, <2>3, <1>5, <1>8 DEF Delivered, Stage
<1> QED  BY <1>1, <1>4, <1>9 DEF DeliveryInv

\* A step that leaves the bags alone.
LEMMA SameRows ==
    ASSUME RowsRegistered, UNCHANGED <<registry, eventRows>>
    PROVE  RowsRegistered'
BY DEF RowsRegistered

LEMMA StoreDelivers ==
    ASSUME DeliveryInv, NEW c \in Callers, StoreFacts(c)
    PROVE  DeliveryInv'
<1>0. ShapeOK /\ Stage(c) = "facts"  BY DEF DeliveryInv, StoreFacts
<1>1. UNCHANGED <<replicas, registry, eventRows, handed, baselined, seen>>
    BY DEF StoreFacts, world, memory, guest
<1>2. RowsRegistered'  BY <1>1, SameRows DEF DeliveryInv
<1>3. CASE sync' = [sync EXCEPT ![c].stage = "resolve", ![c].facts = {}] /\ UNCHANGED lost
    <2>1. /\ ShapeOK'
          /\ \A d \in Callers \ {c} : sync'[d] = sync[d]
          /\ sync'[c] = [stage |-> "resolve", listed |-> sync[c].listed, facts |-> {},
                events |-> sync[c].events, next |-> sync[c].next, changes |-> sync[c].changes]
        BY <1>0, <1>3, StoredProgress
    <2>2. \A d \in Callers :
              /\ sync'[d].events = sync[d].events
              /\ sync'[d].stage \in {"connectors", "apply"} => sync[d].events = {}
        BY <2>1 DEF DeliveryInv, Delivered, Stage
    <2> QED
        <3>1. /\ replicas' \in Nat /\ replicas <= replicas'
              /\ baselined' => handed' \subseteq seen'
            BY <1>1 DEF DeliveryInv, Delivered
        <3> QED  BY <1>1, <1>2, <1>3, <2>1, <2>2, <3>1, NothingMoves
<1>4. CASE sync' = [sync EXCEPT ![c] = Quiet] /\ lost' = lost \cup sync[c].events
    <2>1. /\ ShapeOK'
          /\ \A d \in Callers \ {c} : sync'[d] = sync[d]
          /\ sync'[c].events = {} /\ sync'[c].stage = "connectors"
        BY <1>0, <1>4, QuietProgress, QuietHolds
    <2>2. \A e : Recorded(e)' = Recorded(e)  BY <1>1 DEF Recorded
    <2>3. ASSUME NEW e \in handed' PROVE Places(e)' = 1
        <3>1. Places(e) = 1 /\ Recorded(e) \in Nat
            BY <1>1, RowsCounted DEF DeliveryInv, Delivered, Recorded
        <3>2. CASE e \in sync[c].events
            <4>1. e \notin lost /\ \A d \in Callers \ {c} : e \notin sync[d].events
                BY <3>1, <3>2 DEF Places, Callers, Once
            <4> QED  BY <3>1, <3>2, <4>1, <2>1, <2>2, <1>4 DEF Places, Callers, Once
        <3>3. CASE e \notin sync[c].events
            BY <3>1, <3>3, <2>1, <2>2, <1>4 DEF Places, Callers, Once
        <3> QED  BY <3>2, <3>3
    <2>4. Delivered'
        BY <2>1, <2>2, <2>3, <1>1, <1>4 DEF DeliveryInv, Delivered, Stage
    <2> QED  BY <2>1, <2>4, <1>2 DEF DeliveryInv
<1> QED  BY <1>3, <1>4 DEF StoreFacts, Fail

LEMMA ResolveDelivers ==
    ASSUME DeliveryInv, NEW c \in Callers, ResolveFacts(c)
    PROVE  DeliveryInv'
<1>0. ShapeOK /\ Stage(c) = "resolve"  BY DEF DeliveryInv, ResolveFacts
<1>1. UNCHANGED <<replicas, registry, eventRows, handed, lost, baselined, seen>>
    BY DEF ResolveFacts, world, tables, memory, guest, history
<1>2. RowsRegistered'  BY <1>1, SameRows DEF DeliveryInv
<1>3. /\ ShapeOK'
      /\ \A d \in Callers \ {c} : sync'[d] = sync[d]
      /\ sync'[c] = [stage |-> "diff", listed |-> sync[c].listed, facts |-> sync[c].facts,
                events |-> sync[c].events,
                next |-> MergeMetricHealth(Resolve(LatestTopologyFacts(rows)), LatestMetricFacts(rows)),
                changes |-> sync[c].changes]
    BY <1>0, ResolvedProgress
<1>4. \A d \in Callers :
          /\ sync'[d].events = sync[d].events
          /\ sync'[d].stage \in {"connectors", "apply"} => sync[d].events = {}
    BY <1>3 DEF DeliveryInv, Delivered, Stage
<1> QED  BY <1>1, <1>2, <1>3, <1>4, NothingMoves DEF DeliveryInv, Delivered

\* What a sync records, as a set: each event handed over once.
Found(c) == IF firstSyncDone THEN DetectChanges(stored, sync[c].next) ELSE {}
Entries(c) ==
    {[source |-> "diff", event |-> f] : f \in Found(c)} \cup {Handed(e) : e \in sync[c].events}

LEMMA EntriesHanded ==
    ASSUME NEW c, NEW e
    PROVE  Handed(e) \in Entries(c) <=> e \in sync[c].events
BY DEF Entries, Handed

LEMMA Registers ==
    ASSUME RowsRegistered, NEW c \in Callers, DiffAndRecord(c)
    PROVE  /\ RowsRegistered'
           /\ DOMAIN registry' = DOMAIN registry \cup Entries(c)
           /\ \A x : Count(x, registry') = Count(x, registry) + Once(x \in Entries(c))
<1>1. ToRecord(c) = SetToBag(Entries(c))  BY DEF ToRecord, Entries, Found, Handed
<1>2. /\ registry' = registry (+) SetToBag(Entries(c))
      /\ eventRows' = eventRows (+) SetToBag(Entries(c)) \/ eventRows' = eventRows
    BY <1>1 DEF DiffAndRecord
<1>3. /\ IsABag(registry')
      /\ \A x : Count(x, registry') = Count(x, registry) + Once(x \in Entries(c))
      /\ DOMAIN registry' = DOMAIN registry \cup Entries(c)
    BY <1>2, CountAdded DEF RowsRegistered
<1>4. IsABag(eventRows')  BY <1>2, CountAdded DEF RowsRegistered
<1>5. \A x : Count(x, registry) \in Nat /\ Count(x, eventRows) \in Nat
                /\ Count(x, eventRows) <= Count(x, registry)
    BY RowsCounted
<1>6. \A x : Count(x, eventRows') <= Count(x, registry')
    <2> TAKE x
    <2>1. CASE eventRows' = eventRows
        BY <1>3, <1>5, <2>1 DEF Once
    <2>2. CASE eventRows' = eventRows (+) SetToBag(Entries(c))
        <3>1. Count(x, eventRows') = Count(x, eventRows) + Once(x \in Entries(c))
            BY <2>2, CountAdded DEF RowsRegistered
        <3> QED  BY <3>1, <1>3, <1>5 DEF Once
    <2> QED  BY <1>2, <2>1, <2>2
<1>7. ASSUME NEW x \in DOMAIN eventRows'
      PROVE  x \in DOMAIN registry' /\ eventRows'[x] <= registry'[x]
    <2>1. Count(x, eventRows') = eventRows'[x] /\ Count(x, eventRows') > 0
        BY <1>4 DEF Count, BagIn, BagToSet, IsABag
    <2>2. Count(x, registry') > 0 /\ Count(x, registry') \in Nat
        BY <2>1, <1>4, <1>6, <1>3, CountPositive
    <2> QED  BY <2>1, <2>2, <1>6 DEF Count, BagIn, BagToSet
<1> QED  BY <1>3, <1>4, <1>7 DEF RowsRegistered

LEMMA RecordDelivers ==
    ASSUME DeliveryInv, NEW c \in Callers, DiffAndRecord(c)
    PROVE  DeliveryInv'
<1>0. ShapeOK /\ Stage(c) = "diff" /\ RowsRegistered
    BY DEF DeliveryInv, DiffAndRecord
<1>1. UNCHANGED <<replicas, handed, lost, baselined, seen>>
    BY DEF DiffAndRecord, world, guest
<1>2. RowsRegistered' /\ \A x : Count(x, registry') = Count(x, registry) + Once(x \in Entries(c))
    BY <1>0, Registers
<1>3. /\ ShapeOK'
      /\ \A d \in Callers \ {c} : sync'[d] = sync[d]
    BY <1>0, RecordedProgress
<1>a. sync'[c] = [stage |-> "apply", listed |-> sync[c].listed, facts |-> sync[c].facts,
                events |-> {}, next |-> NoTopology, changes |-> Diff(stored, sync[c].next)]
    BY <1>0, RecordedProgress
<1>4. sync'[c].events = {}  BY <1>a
<1>5. \A e : Recorded(e)' = Recorded(e) + Once(e \in sync[c].events)
    <2> TAKE e
    <2>1. Recorded(e) = Count(Handed(e), registry) /\ Recorded(e)' = Count(Handed(e), registry')
        BY DEF Recorded, Handed
    <2>2. Count(Handed(e), registry') = Count(Handed(e), registry) + Once(Handed(e) \in Entries(c))
        BY <1>2
    <2>3. Handed(e) \in Entries(c) <=> e \in sync[c].events  BY EntriesHanded
    <2> QED  BY <2>1, <2>2, <2>3 DEF Once
<1>6. \A e : Recorded(e) \in Nat  BY <1>0, RowsCounted DEF Recorded
<1>7. ASSUME NEW e \in handed' PROVE Places(e)' = 1
    <2>1. Places(e) = 1  BY <1>1 DEF DeliveryInv, Delivered
    <2>2. CASE e \in sync[c].events
        BY <2>1, <2>2, <1>1, <1>3, <1>4, <1>5, <1>6 DEF Places, Callers, Once
    <2>3. CASE e \notin sync[c].events
        BY <2>1, <2>3, <1>1, <1>3, <1>4, <1>5, <1>6 DEF Places, Callers, Once
    <2> QED  BY <2>2, <2>3
<1>8. \A e : e \notin handed' => Recorded(e)' = 0
    BY <1>1, <1>5, <1>6 DEF DeliveryInv, Delivered, Once
<1>9. Delivered'
    BY <1>1, <1>3, <1>4, <1>7, <1>8 DEF DeliveryInv, Delivered, Stage
<1> QED  BY <1>2, <1>3, <1>9 DEF DeliveryInv

LEMMA ApplyDelivers ==
    ASSUME DeliveryInv, NEW c \in Callers, Apply(c)
    PROVE  DeliveryInv'
<1>0. ShapeOK /\ Stage(c) = "apply" /\ sync' = [sync EXCEPT ![c] = Quiet]
    BY DEF DeliveryInv, Apply, Fail
<1>1. UNCHANGED <<replicas, registry, eventRows, handed, lost, baselined, seen>>
    BY DEF Apply, world, memory, guest
<1>2. RowsRegistered'  BY <1>1, SameRows DEF DeliveryInv
<1>3. /\ ShapeOK'
      /\ \A d \in Callers \ {c} : sync'[d] = sync[d]
      /\ sync'[c] = Quiet
    BY <1>0, QuietProgress
<1>4. \A d \in Callers :
          /\ sync'[d].events = sync[d].events
          /\ sync'[d].stage \in {"connectors", "apply"} => sync[d].events = {}
    BY <1>0, <1>3, QuietHolds DEF DeliveryInv, Delivered, Stage
<1> QED  BY <1>1, <1>2, <1>3, <1>4, NothingMoves DEF DeliveryInv, Delivered

LEMMA RestartDelivers ==
    ASSUME DeliveryInv, Restart
    PROVE  DeliveryInv'
<1>1. /\ UNCHANGED <<replicas, eventRows, handed>>
      /\ registry' = eventRows /\ baselined' = FALSE
      /\ lost' = lost \cup {e \in handed : Count(Handed(e), eventRows) = 0}
    BY DEF Restart, world, tables, Handed
<1>2. ShapeOK' /\ \A d \in Callers : sync'[d] = Quiet
    BY RestartedProgress DEF Restart
<1>3. RowsRegistered'
    <2>1. \A x \in DOMAIN eventRows : eventRows[x] \in Nat
        BY DEF DeliveryInv, RowsRegistered, IsABag
    <2> QED  BY <1>1, <2>1 DEF DeliveryInv, RowsRegistered
<1>4. \A e : /\ Recorded(e)' = Count(Handed(e), eventRows)
              /\ Recorded(e)' <= Recorded(e) /\ Recorded(e)' \in Nat /\ Recorded(e) \in Nat
    BY <1>1, RowsCounted DEF DeliveryInv, Recorded, Handed
<1>5. ASSUME NEW e \in handed' PROVE Places(e)' = 1
    <2>1. Places(e) = 1  BY <1>1 DEF DeliveryInv, Delivered
    <2>2. e \notin sync'["manual"].events /\ e \notin sync'["loop"].events
        BY <1>2 DEF Callers, Quiet
    <2>3. e \in lost' <=> e \in lost \/ Recorded(e)' = 0  BY <1>1, <1>4
    <2>4. Places(e)' = Recorded(e)' + Once(e \in lost)'
        BY <2>2, <1>4 DEF Places, Once
    <2>5. Recorded(e) + Once(e \in lost) <= 1
        BY <2>1, <1>4 DEF Places, Once
    <2> QED  BY <2>3, <2>4, <2>5, <1>4 DEF Once
<1>6. \A e : e \notin handed' => Recorded(e)' = 0
    BY <1>1, <1>4 DEF DeliveryInv, Delivered
<1>7. Delivered'
    BY <1>1, <1>2, <1>5, <1>6, QuietHolds
    DEF DeliveryInv, Delivered, Stage
<1> QED  BY <1>2, <1>3, <1>7 DEF DeliveryInv

LEMMA NextDelivers ==
    ASSUME DeliveryInv, [Next]_vars
    PROVE  DeliveryInv'
<1>1. ASSUME UNCHANGED <<registry, eventRows, sync, handed, lost, baselined, seen>>,
             replicas' = replicas \/ (replicas < MaxChanges /\ replicas' = replicas + 1)
      PROVE  DeliveryInv'
    <2>1. ShapeOK' /\ RowsRegistered'  BY <1>1, SameProgress, SameRows DEF DeliveryInv
    <2>2. \A d \in Callers :
              /\ sync'[d].events = sync[d].events
              /\ sync'[d].stage \in {"connectors", "apply"} => sync[d].events = {}
        BY <1>1 DEF DeliveryInv, Delivered, Stage
    <2>3. replicas' \in Nat /\ replicas <= replicas'  BY <1>1 DEF DeliveryInv, Delivered
    <2> QED  BY <1>1, <2>1, <2>2, <2>3, NothingMoves DEF DeliveryInv, Delivered
<1>2. CASE ClusterChanges  BY <1>1, <1>2 DEF ClusterChanges, tables, memory, guest, history
<1>3. CASE ApiFails  BY <1>1, <1>3 DEF ApiFails, tables, memory, guest, history
<1>4. CASE ApiReturns  BY <1>1, <1>4 DEF ApiReturns, tables, memory, guest, history
<1>5. CASE Tick  BY <1>1, <1>5 DEF Tick, world, tables, memory, guest, history
<1>6. CASE IntervalPasses
    BY <1>1, <1>6 DEF IntervalPasses, world, tables, memory, history
<1>7. CASE PruneFacts
    BY <1>1, <1>7 DEF PruneFacts, world, memory, guest, history
<1>8. CASE Restart  BY <1>8, RestartDelivers
<1>9. ASSUME NEW c \in Callers, Proceed(c) PROVE DeliveryInv'
    BY <1>9, InnerDelivers, StoreDelivers, ResolveDelivers, RecordDelivers, ApplyDelivers
    DEF Proceed
<1>10. CASE UNCHANGED vars
    BY <1>1, <1>10 DEF vars, world, tables, memory, guest, history
<1> QED  BY <1>2, <1>3, <1>4, <1>5, <1>6, <1>7, <1>8, <1>9, <1>10 DEF Next

\* The guest marks an event as seen when it hands it over: nobody else hands it over
\* again, whatever syncs overlap, fail or are cut off by a restart, and the event is
\* with one sync, in the registry once, or lost.
THEOREM NothingHandedTwice == Spec => []HandedOverOnce
<1>1. Init => DeliveryInv  BY InitDelivers
<1>2. DeliveryInv /\ [Next]_vars => DeliveryInv'  BY NextDelivers
<1>3. DeliveryInv => HandedOverOnce  BY OnePlace
<1> QED  BY <1>1, <1>2, <1>3, PTL DEF Spec

-----------------------------------------------------------------------------
(* Topologies that hold the Deployment, or nothing *)

DeployFacts ==
    [kind : {"topology-node"}, source : {"k8s"}, rid : {Deploy}, type : {"Deployment"},
     ts : Nat, attrs : [replicas_desired : Nat]]

DeployRows ==
    [kind : {"topology-node"}, source : {"k8s"}, rid : {Deploy}, type : {"Deployment"},
     ts : Nat, attrs : [replicas_desired : Nat], ins : Nat]

Shown(f) == f.attrs.replicas_desired

\* The topology that shows a Deployment of n replicas.
Showing(n) ==
    [nodes |-> [r \in {Deploy} |-> [type |-> "Deployment", attrs |-> [replicas_desired |-> n]]],
     edges |-> {}]

\* The last stored of rows that are in order.
LastRow(r) == r \in rows /\ \A s \in rows : s.ts <= r.ts
RowsApart == \A r, s \in rows : r.ts = s.ts => r = s

\* Nothing has a correlation key, so nothing is merged.
LEMMA NothingMerges ==
    ASSUME NEW facts, facts \subseteq DeployRows
    PROVE  RewriteByCorrelationKey(facts) = facts
<1> DEFINE keyed == {f \in Nodes(facts) : Keys(f) # {}}
           shared == {f \in keyed : \E g \in keyed : g.rid # f.rid /\ SharesKey(f, g)}
           Apart(c) == c # {} /\ Closed(shared, c)
<1>1. keyed = {}  BY DEF Nodes, Keys, Attr, DeployRows
<1>2. SUBSET {f.rid : f \in shared} = {{}}  BY <1>1
<1>3. ~Apart({})  OBVIOUS
<1>4. Clusters(facts) = {c \in SUBSET {f.rid : f \in shared} :
                            Apart(c) /\ \A d \in SUBSET c : Apart(d) => d = c}
    BY DEF Clusters
<1> HIDE DEF Apart, shared
<1>5. Clusters(facts) = {}  BY <1>2, <1>3, <1>4
<1>6. DOMAIN Remap(facts) = {}  BY <1>5 DEF Remap
<1> QED  BY <1>6 DEF RewriteByCorrelationKey

LEMMA NewestOne ==
    ASSUME NEW r \in DeployRows
    PROVE  Newest({r}) = {r}
<1>1. {f \in {r} : \A g \in {r} : g.ts > f.ts => g.rid # f.rid} = {r}
    BY DEF DeployRows
<1>2. {CHOOSE f \in {r} : f.rid = q : q \in {f.rid : f \in {r}}} = {r}  OBVIOUS
<1> QED  BY <1>1, <1>2 DEF Newest

LEMMA NewestNone == Newest({}) = {}
BY DEF Newest

\* What is read back of the rows is the last one.
LEMMA ReadBack ==
    ASSUME rows \subseteq DeployRows, RowsApart, NEW r, LastRow(r)
    PROVE  LatestTopologyFacts(rows) = {r}
<1>1. Nodes(rows) \cup Edges(rows) = rows  BY DEF Nodes, Edges, DeployRows
<1>2. {f \in rows : \A g \in rows : g.ts > f.ts => g.rid # f.rid} = {r}
    <2>1. ASSUME NEW f \in rows, \A g \in rows : g.ts > f.ts => g.rid # f.rid
          PROVE  f = r
        <3>1. f.ts \in Nat /\ r.ts \in Nat /\ r \in rows /\ f.rid = r.rid
            BY DEF DeployRows, LastRow
        <3>2. ~(r.ts > f.ts)  BY <2>1, <3>1
        <3>3. f.ts = r.ts  BY <3>1, <3>2 DEF LastRow
        <3> QED  BY <3>1, <3>3 DEF RowsApart
    <2>2. r \in rows /\ \A g \in rows : ~(g.ts > r.ts)
        BY DEF LastRow, DeployRows
    <2> QED  BY <2>1, <2>2
<1>3. {CHOOSE f \in {r} : f.rid = q : q \in {f.rid : f \in {r}}} = {r}  OBVIOUS
<1>4. Newest(rows) = {r}  BY <1>2, <1>3 DEF Newest
<1> QED  BY <1>1, <1>4 DEF LatestTopologyFacts

LEMMA ReadNothing == LatestTopologyFacts({}) = {}
BY DEF LatestTopologyFacts, Newest, Nodes, Edges

\* The topology of one row, and of none.
LEMMA GraphOfRow ==
    ASSUME NEW r \in DeployRows
    PROVE  FactsToGraph({r}) = Showing(Shown(r))
<1>1. Nodes({r}) = {r} /\ Edges({r}) = {}  BY DEF Nodes, Edges, DeployRows
<1>2. Newest({r}) = {r} /\ Newest({}) = {}  BY NewestOne, NewestNone
<1>3. ContainsEdges({r}) = {}  BY DEF ContainsEdges, DeployRows
<1>4. ExplicitEdges({}) = {}  BY DEF ExplicitEdges
<1>5. {f.rid : f \in {r}} = {Deploy}  BY DEF DeployRows
<1>6. (CHOOSE f \in {r} : f.rid = Deploy) = r  BY DEF DeployRows
<1>7. r.type = "Deployment" /\ r.attrs = [replicas_desired |-> Shown(r)]
    BY DEF DeployRows, Shown
<1> QED  BY <1>1, <1>2, <1>3, <1>4, <1>5, <1>6, <1>7 DEF FactsToGraph, Showing

LEMMA GraphOfNothing == FactsToGraph({}) = NoTopology
<1>1. Nodes({}) = {} /\ Edges({}) = {} /\ Newest({}) = {}
    BY DEF Nodes, Edges, Newest
<1>2. ContainsEdges({}) = {} /\ ExplicitEdges({}) = {}
    BY DEF ContainsEdges, ExplicitEdges
<1>3. {f.rid : f \in {}} = {}  OBVIOUS
<1>4. FactsToGraph({}).edges = {}  BY <1>1, <1>2, <1>3 DEF FactsToGraph
<1>5. FactsToGraph({}) = [nodes |-> [r \in {} |-> [type |-> (CHOOSE f \in {} : f.rid = r).type,
                                                 attrs |-> (CHOOSE f \in {} : f.rid = r).attrs]],
                          edges |-> FactsToGraph({}).edges]
    BY <1>1, <1>3 DEF FactsToGraph
<1>6. ASSUME NEW F(_) PROVE [r \in {} |-> F(r)] = <<>>  OBVIOUS
<1> QED  BY <1>4, <1>5, <1>6 DEF NoTopology

\* No row is of a metric.
LEMMA NoMetrics ==
    ASSUME rows \subseteq DeployRows, NEW topology
    PROVE  LatestMetricFacts(rows) = {}
BY DEF LatestMetricFacts, DeployRows

LEMMA HealthStays ==
    ASSUME NEW topology, topology = [nodes |-> topology.nodes, edges |-> topology.edges],
           topology.nodes = [r \in DOMAIN topology.nodes |-> topology.nodes[r]]
    PROVE  MergeMetricHealth(topology, {}) = topology
<1>1. \A r : {DeriveMetricHealth(f) : f \in {g \in {} : g.rid = r /\ Derivable(g)}} = {}
    OBVIOUS
<1>2. MergeMetricHealth(topology, {}) =
         [topology EXCEPT !.nodes = [r \in DOMAIN @ |-> @[r]]]
    BY <1>1 DEF MergeMetricHealth
<1> QED  BY <1>2

LEMMA HealthOfPlain ==
    ASSUME NEW n
    PROVE  /\ MergeMetricHealth(Showing(n), {}) = Showing(n)
           /\ MergeMetricHealth(NoTopology, {}) = NoTopology
<1>1. /\ Showing(n) = [nodes |-> Showing(n).nodes, edges |-> Showing(n).edges]
      /\ Showing(n).nodes = [r \in DOMAIN Showing(n).nodes |-> Showing(n).nodes[r]]
    BY DEF Showing
<1>2. /\ NoTopology = [nodes |-> NoTopology.nodes, edges |-> NoTopology.edges]
      /\ NoTopology.nodes = [r \in DOMAIN NoTopology.nodes |-> NoTopology.nodes[r]]
    BY DEF NoTopology
<1> QED  BY <1>1, <1>2, HealthStays

\* What a sync resolves the rows to.
Resolved == MergeMetricHealth(Resolve(LatestTopologyFacts(rows)), LatestMetricFacts(rows))

LEMMA ResolvesLastRow ==
    ASSUME rows \subseteq DeployRows, RowsApart, NEW r, LastRow(r)
    PROVE  Resolved = Showing(Shown(r))
<1>1. r \in DeployRows /\ {r} \subseteq DeployRows  BY DEF LastRow
<1>2. Resolve({r}) = Showing(Shown(r))
    BY <1>1, NothingMerges, GraphOfRow DEF Resolve
<1> QED  BY <1>2, ReadBack, NoMetrics, HealthOfPlain DEF Resolved

LEMMA ResolvesNothing ==
    ASSUME rows = {}
    PROVE  Resolved = NoTopology
<1>1. Resolve({}) = NoTopology  BY NothingMerges, GraphOfNothing DEF Resolve
<1>2. LatestMetricFacts(rows) = {}  BY NoMetrics
<1> QED  BY <1>1, <1>2, ReadNothing, HealthOfPlain DEF Resolved

\* A topology as the cluster can have it.
Plain(t) == t = NoTopology \/ \E n \in Nat : t = Showing(n)

\* The change from m replicas to n.
Change(m, n) ==
    [source |-> "diff",
     event |-> [change_type |-> "deployment_rolled", target |-> Deploy, source |-> "k8s_api",
                old |-> [replicas_desired |-> m], new |-> [replicas_desired |-> n]]]

LEMMA ShowingDiffer ==
    ASSUME NEW m, NEW n
    PROVE  /\ Showing(m) = Showing(n) => m = n
           /\ Showing(m) # NoTopology
           /\ DOMAIN Showing(m).nodes = {Deploy} /\ Showing(m).edges = {}
           /\ Showing(m).nodes[Deploy] = [type |-> "Deployment", attrs |-> [replicas_desired |-> m]]
           /\ DOMAIN NoTopology.nodes = {} /\ NoTopology.edges = {}
BY DEF Showing, NoTopology

LEMMA SignalsShown ==
    ASSUME NEW n
    PROVE  Signals([type |-> "Deployment", attrs |-> [replicas_desired |-> n]])
              = [replicas_desired |-> n]
<1>1. SignalKeys["Deployment"] = {"current_revision", "images", "replicas_desired", "replicas_ready"}
    BY DEF SignalKeys
<1>2. DOMAIN [replicas_desired |-> n] = {"replicas_desired"}  OBVIOUS
<1>3. SignalKeys["Deployment"] \cap DOMAIN [replicas_desired |-> n] = {"replicas_desired"}
    BY <1>1, <1>2
<1>4. Restrict([replicas_desired |-> n], {"replicas_desired"}) = [replicas_desired |-> n]
    BY DEF Restrict
<1> QED  BY <1>3, <1>4 DEF Signals

\* Comparing two topologies finds the change of the Deployment that is in both.
LEMMA Detects ==
    ASSUME NEW m, NEW n
    PROVE  DetectChanges(Showing(m), Showing(n)) =
              IF m = n THEN {} ELSE {Change(m, n).event}
<1>1. /\ DOMAIN Showing(m).nodes = {Deploy} /\ DOMAIN Showing(n).nodes = {Deploy}
      /\ Showing(m).nodes[Deploy] = [type |-> "Deployment", attrs |-> [replicas_desired |-> m]]
      /\ Showing(n).nodes[Deploy] = [type |-> "Deployment", attrs |-> [replicas_desired |-> n]]
    BY ShowingDiffer
<1>2. /\ Showing(n).nodes[Deploy].type = "Deployment"
      /\ Showing(m).nodes[Deploy].attrs = [replicas_desired |-> m]
    BY <1>1
<1> DEFINE Old(r) == Signals([type |-> Showing(n).nodes[r].type, attrs |-> Showing(m).nodes[r].attrs])
           New(r) == Signals(Showing(n).nodes[r])
           changed == {r \in DOMAIN Showing(n).nodes \cap DOMAIN Showing(m).nodes :
                          Showing(n).nodes[r].type \in DOMAIN SignalKeys /\ Old(r) # New(r)}
           F(r) == [change_type |-> ChangeTypeFor[Showing(n).nodes[r].type], target |-> r,
                    source |-> "k8s_api", old |-> Old(r), new |-> New(r)]
<1>3. Old(Deploy) = [replicas_desired |-> m] /\ New(Deploy) = [replicas_desired |-> n]
    BY <1>1, <1>2, SignalsShown
<1>4. Old(Deploy) # New(Deploy) <=> m # n
    <2>1. [replicas_desired |-> m].replicas_desired = m /\ [replicas_desired |-> n].replicas_desired = n
        OBVIOUS
    <2> QED  BY <1>3, <2>1
<1>5. "Deployment" \in DOMAIN SignalKeys /\ ChangeTypeFor["Deployment"] = "deployment_rolled"
    BY DEF SignalKeys, ChangeTypeFor
<1>6. DetectChanges(Showing(m), Showing(n)) = {F(r) : r \in changed}
    BY DEF DetectChanges
<1>7. changed = IF m = n THEN {} ELSE {Deploy}
    <2> HIDE DEF Old, New
    <2> QED  BY <1>1, <1>2, <1>4, <1>5
<1>8. F(Deploy) = Change(m, n).event
    <2> HIDE DEF Old, New
    <2> QED  BY <1>2, <1>3, <1>5 DEF Change
<1> HIDE DEF F, changed
<1> QED  BY <1>6, <1>7, <1>8

LEMMA DetectsNothing ==
    ASSUME NEW t
    PROVE  DetectChanges(NoTopology, t) = {} /\ DetectChanges(t, NoTopology) = {}
<1>1. DOMAIN NoTopology.nodes = {}  BY ShowingDiffer
<1>2. /\ DOMAIN t.nodes \cap DOMAIN NoTopology.nodes = {}
      /\ DOMAIN NoTopology.nodes \cap DOMAIN t.nodes = {}
    BY <1>1
<1> QED  BY <1>2 DEF DetectChanges

\* Applied to the topology it was computed from, a change set gives the other.
LEMMA AppliesDiff ==
    ASSUME NEW s, Plain(s), NEW t, Plain(t)
    PROVE  ApplyChangeSet(s, Diff(s, t)) = t
<1> DEFINE cs == Diff(s, t)
           written == Filled(cs.nodesUp, s.nodes)
<1>0. /\ t = [nodes |-> t.nodes, edges |-> t.edges]
      /\ t.nodes = [r \in DOMAIN t.nodes |-> t.nodes[r]]
      /\ s.edges = {} /\ t.edges = {}
    BY DEF Plain, Showing, NoTopology
<1>1. /\ cs.nodesUp = [r \in {q \in DOMAIN t.nodes : q \in DOMAIN s.nodes => s.nodes[q] # t.nodes[q]}
                           |-> t.nodes[r]]
      /\ cs.nodesRm = DOMAIN s.nodes \ DOMAIN t.nodes
      /\ cs.edgesUp = {} /\ cs.edgesRm = {}
    BY <1>0 DEF Diff, Restrict, HasNode
<1> HIDE DEF cs
<1>2. /\ DOMAIN written = DOMAIN cs.nodesUp \cup DOMAIN s.nodes
      /\ \A r \in DOMAIN written :
            written[r] = IF r \in DOMAIN cs.nodesUp THEN cs.nodesUp[r] ELSE s.nodes[r]
    BY DEF Filled
<1> HIDE DEF written
<1>3. DOMAIN written \ cs.nodesRm = DOMAIN t.nodes  BY <1>1, <1>2
<1>4. \A r \in DOMAIN t.nodes : written[r] = t.nodes[r]  BY <1>1, <1>2
<1>5. Restrict(written, DOMAIN written \ cs.nodesRm) = t.nodes
    BY <1>0, <1>3, <1>4 DEF Restrict
<1>6. LastWritten({}) = {}  BY DEF LastWritten
<1>7. ApplyChangeSet(s, cs).nodes = t.nodes  BY <1>5 DEF ApplyChangeSet, written
<1>8. ApplyChangeSet(s, cs).edges = {}  BY <1>0, <1>1, <1>6 DEF ApplyChangeSet
<1>9. ApplyChangeSet(s, cs) =
         [nodes |-> ApplyChangeSet(s, cs).nodes, edges |-> ApplyChangeSet(s, cs).edges]
    BY DEF ApplyChangeSet
<1> QED  BY <1>0, <1>7, <1>8, <1>9 DEF cs

-----------------------------------------------------------------------------
(* What the topologies have to do with the cluster *)

\* The Deployment as a sync lists it, since the process started.
FactFits(f) ==
    f \in DeployFacts /\ f.ts <= clock /\ startedAt <= Shown(f) /\ Shown(f) <= replicas

CompareTypeOK ==
    /\ {replicas, clock, startedAt} \subseteq Nat
    /\ startedAt <= replicas
    /\ {firstSyncDone, settled, overlapped, halfway} \subseteq BOOLEAN
    /\ rows \subseteq DeployRows
    /\ \A r \in rows : r.ts <= clock /\ r.ins <= clock /\ Shown(r) <= replicas
    /\ \A c \in Callers :
          /\ sync[c].facts = {} \/ \E f : sync[c].facts = {f} /\ FactFits(f)
          /\ Stage(c) # "facts" => sync[c].facts = {}
          /\ Stage(c) = "facts" /\ sync[c].listed => sync[c].facts # {}
          /\ Stage(c) = "connectors" => ~sync[c].listed

\* Of two rows the one listed later shows no less and was stored no earlier: what is
\* pruned first is never the last.
RowsInOrder ==
    /\ RowsApart
    /\ \A r, s \in rows : r.ts < s.ts => Shown(r) <= Shown(s) /\ r.ins <= s.ins
    /\ rows # {} => \E r : LastRow(r)

FactsFollow ==
    \A c \in Callers : \A f \in sync[c].facts, r \in rows :
        r.ts <= f.ts /\ Shown(r) <= Shown(f)

\* A number of replicas that was stored, recorded, or there when the process started
\* and listed since.
Noted(n) == \E m \in Nat : Change(m, n) \in DOMAIN registry
Said(n) == stored = Showing(n) \/ Noted(n) \/ (settled /\ n = startedAt)

\* What the next sync finds is no less.
Behind(n) ==
    /\ n <= replicas
    /\ \A c \in Callers : \A f \in sync[c].facts : n <= Shown(f)
    /\ rows # {} => \E r \in rows : n <= Shown(r)

\* What a sync has resolved the rows to is no less than all that was said.
Ahead(c, t) ==
    /\ Plain(t)
    /\ sync[c].listed => Behind(startedAt)
    /\ \A n \in Nat : t = Showing(n) =>
          /\ Behind(n)
          /\ \A k \in Nat : Said(k) => k <= n
          /\ sync[c].listed => startedAt <= n

CallerInOrder(c) ==
    /\ Stage(c) = "resolve" /\ sync[c].listed => Behind(startedAt)
    /\ Stage(c) = "diff" => Ahead(c, sync[c].next)
    /\ Stage(c) = "apply" => \E t : sync[c].changes = Diff(stored, t) /\ Ahead(c, t)

SaidBehind ==
    /\ Plain(stored)
    /\ \A k \in Nat : Said(k) => Behind(k)
    /\ \A m \in Nat : settled /\ stored = Showing(m) => startedAt <= m
    /\ \A x \in DOMAIN registry :
          x.source = "diff" => \E m, n \in Nat : x = Change(m, n)

InOrder ==
    RowsInOrder /\ FactsFollow /\ SaidBehind /\ \A c \in Callers : CallerInOrder(c)

\* Between two syncs what was recorded is stored; each change is recorded once.
NotedStored ==
    /\ firstSyncDone /\ (\A c \in Callers : Stage(c) # "apply") =>
          \A m, k \in Nat : stored = Showing(m) /\ Noted(k) => k <= m
    /\ \A m, n \in Nat :
          Change(m, n) \in DOMAIN registry => Count(Change(m, n), registry) = 1 /\ m < n

CompareInv ==
    /\ ShapeOK
    /\ RowsRegistered
    /\ CompareTypeOK
    /\ ~overlapped => InOrder
    /\ ~overlapped /\ ~halfway => NotedStored

\* The change of a pair of numbers is no other's.
LEMMA ChangesDiffer ==
    ASSUME NEW m, NEW n, NEW k, NEW l, Change(m, n) = Change(k, l)
    PROVE  m = k /\ n = l
<1>1. /\ Change(m, n).event.old.replicas_desired = m /\ Change(m, n).event.new.replicas_desired = n
      /\ Change(k, l).event.old.replicas_desired = k /\ Change(k, l).event.new.replicas_desired = l
    BY DEF Change
<1> QED  BY <1>1

LEMMA ChangeShape ==
    ASSUME NEW m, NEW n
    PROVE  /\ Change(m, n).source = "diff"
           /\ Replicas(Change(m, n).event.old) = m /\ Replicas(Change(m, n).event.new) = n
BY DEF Change, Replicas

\* The invariant says what ChangesOnce says.
LEMMA OnceEach == ASSUME CompareInv PROVE ChangesOnce
<1> SUFFICES ASSUME ~overlapped, ~halfway,
                    NEW e \in BagToSet(registry), e.source = "diff"
             PROVE  Count(e, registry) = 1 /\ Replicas(e.event.old) < Replicas(e.event.new)
    BY DEF ChangesOnce
<1>1. PICK m \in Nat, n \in Nat : e = Change(m, n)
    BY DEF CompareInv, InOrder, SaidBehind, BagToSet
<1>2. Count(Change(m, n), registry) = 1 /\ m < n
    BY <1>1 DEF CompareInv, NotedStored, BagToSet
<1> QED  BY <1>1, <1>2, ChangeShape

\* The last row shows the most.
LEMMA LastShowsMost ==
    ASSUME CompareTypeOK, RowsInOrder, NEW r, LastRow(r), NEW s \in rows
    PROVE  Shown(s) <= Shown(r) /\ s.ins <= r.ins
<1>1. r \in rows /\ r.ts \in Nat /\ s.ts \in Nat /\ s.ts <= r.ts /\ Shown(r) \in Nat /\ r.ins \in Nat
    BY DEF LastRow, CompareTypeOK, DeployRows, Shown
<1>2. CASE s.ts = r.ts
    <2>1. s = r  BY <1>1, <1>2 DEF RowsInOrder, RowsApart
    <2> QED  BY <1>1, <2>1
<1>3. CASE s.ts < r.ts  BY <1>1, <1>3 DEF RowsInOrder
<1> QED  BY <1>1, <1>2, <1>3

LEMMA LastIsNoLess ==
    ASSUME CompareTypeOK, RowsInOrder, NEW r, LastRow(r), NEW k \in Nat, Behind(k)
    PROVE  k <= Shown(r)
<1>1. PICK s \in rows : k <= Shown(s)  BY DEF Behind, LastRow
<1>2. Shown(s) <= Shown(r) /\ Shown(s) \in Nat /\ Shown(r) \in Nat
    BY LastShowsMost DEF CompareTypeOK, DeployRows, Shown, LastRow
<1> QED  BY <1>1, <1>2

LEMMA RowsResolve ==
    ASSUME NEW r \in DeployRows
    PROVE  /\ Resolve({r}) = Showing(Shown(r))
           /\ Resolve({}) = NoTopology
BY NothingMerges, GraphOfRow, GraphOfNothing DEF Resolve

LEMMA InitCompares == ASSUME Init PROVE CompareInv
<1>1. ShapeOK /\ RowsRegistered  BY InitDelivers DEF DeliveryInv
<1>2. replicas \in Nat  BY SyncAssumption DEF Init
<1>3. RowOf(0, 0) \in DeployRows /\ Shown(RowOf(0, 0)) = 0
      /\ RowOf(0, 0).ts = 0 /\ RowOf(0, 0).ins = 0
    BY DEF RowOf, DeployRows, Shown
<1>4. \A c \in Callers : Stage(c) = "connectors" /\ sync[c].facts = {} /\ sync[c].listed = FALSE
    BY QuietHolds DEF Init, Stage
<1>5. CompareTypeOK
    <2>1. clock = 1 /\ startedAt = replicas /\ rows \subseteq {RowOf(0, 0)}  BY DEF Init
    <2>2. {firstSyncDone, settled, overlapped, halfway} \subseteq BOOLEAN  BY DEF Init
    <2> QED  BY <1>2, <1>3, <1>4, <2>1, <2>2 DEF CompareTypeOK
<1>6. RowsInOrder /\ FactsFollow
    BY <1>3, <1>4 DEF Init, RowsInOrder, FactsFollow, RowsApart, LastRow
<1>7. DOMAIN registry = {}  BY CountEmpty DEF Init
<1>8. \/ stored = NoTopology /\ rows = {}
      \/ stored = Showing(0) /\ rows = {RowOf(0, 0)}
    <2>1. CASE rows = {}
        <3>1. Resolve({}) = NoTopology  BY <1>3, RowsResolve
        <3> QED  BY <2>1, <3>1, ReadNothing DEF Init
    <2>2. CASE rows = {RowOf(0, 0)}
        <3>1. rows \subseteq DeployRows /\ RowsApart /\ LastRow(RowOf(0, 0))
            BY <2>2, <1>3 DEF RowsApart, LastRow
        <3>2. LatestTopologyFacts(rows) = {RowOf(0, 0)}  BY <3>1, ReadBack
        <3> QED  BY <2>2, <3>2, <1>3, RowsResolve DEF Init
    <2> QED  BY <2>1, <2>2 DEF Init
<1>9. \A k \in Nat : Said(k) => k = 0 /\ rows = {RowOf(0, 0)}
    BY <1>7, <1>8, ShowingDiffer DEF Said, Noted, Init
<1>10. SaidBehind
    <2>1. Plain(stored)  BY <1>8 DEF Plain
    <2>2. \A k \in Nat : Said(k) => Behind(k)
        BY <1>2, <1>3, <1>4, <1>9 DEF Behind
    <2> QED  BY <2>1, <2>2, <1>7 DEF SaidBehind, Init
<1>11. InOrder  BY <1>4, <1>6, <1>10 DEF InOrder, CallerInOrder
<1>12. NotedStored  BY <1>7 DEF NotedStored, Noted
<1> QED  BY <1>1, <1>5, <1>11, <1>12 DEF CompareInv

-----------------------------------------------------------------------------
(* What the steps keep *)

\* What is known of every k that was behind, when nothing less is listed or stored.
Kept == \A k \in Nat : Behind(k) => Behind(k)'
SaidBefore == \A k \in Nat : Said(k)' => Said(k)

LEMMA AheadStays ==
    ASSUME NEW c, NEW t, Ahead(c, t), Kept, SaidBefore, startedAt \in Nat,
           sync'[c].listed = sync[c].listed, UNCHANGED startedAt
    PROVE  Ahead(c, t)'
BY DEF Ahead, Kept, SaidBefore

LEMMA CallerStays ==
    ASSUME NEW c, CallerInOrder(c), Kept, SaidBefore, startedAt \in Nat,
           sync'[c] = sync[c], UNCHANGED <<startedAt, stored>>
    PROVE  CallerInOrder(c)'
<1>1. ASSUME NEW t, Ahead(c, t) PROVE Ahead(c, t)'  BY <1>1, AheadStays
<1>2. Stage(c)' = Stage(c)  BY DEF Stage
<1>3. Stage(c) = "resolve" /\ sync[c].listed => Behind(startedAt)'
    BY DEF CallerInOrder, Kept
<1>4. Stage(c) = "diff" => Ahead(c, sync[c].next)'
    BY <1>1 DEF CallerInOrder
<1>5. Stage(c) = "apply" => \E t : sync[c].changes = Diff(stored, t) /\ Ahead(c, t)'
    BY <1>1 DEF CallerInOrder
<1> QED  BY <1>2, <1>3, <1>4, <1>5 DEF CallerInOrder

\* The rows as they were, and nothing listed that was not before.
LEMMA SameOrder ==
    ASSUME UNCHANGED rows, replicas \in Nat, replicas' \in Nat, replicas <= replicas',
           \A c \in Callers : sync'[c].facts \subseteq sync[c].facts
    PROVE  /\ RowsInOrder => RowsInOrder'
           /\ FactsFollow => FactsFollow'
           /\ Kept
BY DEF RowsInOrder, RowsApart, LastRow, FactsFollow, Behind, Kept

LEMMA SameSaid ==
    ASSUME DOMAIN registry' \subseteq DOMAIN registry,
           UNCHANGED <<stored, settled, startedAt>>
    PROVE  SaidBefore
BY DEF SaidBefore, Said, Noted

LEMMA SaidStaysBehind ==
    ASSUME SaidBehind, Kept, SaidBefore, DOMAIN registry' \subseteq DOMAIN registry,
           UNCHANGED <<stored, settled, startedAt>>
    PROVE  SaidBehind'
BY DEF SaidBehind, Kept, SaidBefore

LEMMA SameNoted ==
    ASSUME NotedStored, UNCHANGED <<registry, stored>>,
           firstSyncDone' => firstSyncDone,
           (\A c \in Callers : Stage(c)' # "apply") => (\A c \in Callers : Stage(c) # "apply")
    PROVE  NotedStored'
BY DEF NotedStored, Noted

\* A step outside the syncs.
LEMMA OutsideCompares ==
    ASSUME CompareInv, CompareTypeOK',
           replicas <= replicas',
           UNCHANGED <<rows, stored, firstSyncDone, registry, eventRows, sync, startedAt,
                       settled, overlapped, halfway>>
    PROVE  CompareInv'
<1>1. ShapeOK' /\ RowsRegistered'
    BY SameProgress, SameRows DEF CompareInv
<1>2. Kept /\ (RowsInOrder => RowsInOrder') /\ (FactsFollow => FactsFollow')
    <2>1. replicas \in Nat /\ replicas' \in Nat  BY DEF CompareInv, CompareTypeOK
    <2> QED  BY <2>1, SameOrder
<1>3. SaidBefore  BY SameSaid
<1>4. ASSUME ~overlapped' PROVE InOrder'
    <2>1. InOrder  BY <1>4 DEF CompareInv
    <2>2. \A c \in Callers : CallerInOrder(c)'
        BY <2>1, <1>2, <1>3, CallerStays DEF InOrder, CompareInv, CompareTypeOK
    <2>3. SaidBehind'  BY <2>1, <1>2, <1>3, SaidStaysBehind DEF InOrder
    <2> QED  BY <2>1, <2>2, <2>3, <1>2 DEF InOrder
<1>5. ASSUME ~overlapped', ~halfway' PROVE NotedStored'
    BY <1>5, SameNoted DEF CompareInv, Stage
<1> QED  BY <1>1, <1>4, <1>5 DEF CompareInv

\* More replicas or a later time: what is stored and listed still fits.
LEMMA OutsideTyped ==
    ASSUME CompareTypeOK, replicas' \in Nat, clock' \in Nat,
           replicas <= replicas', clock <= clock',
           UNCHANGED <<rows, firstSyncDone, sync, startedAt, settled, overlapped, halfway>>
    PROVE  CompareTypeOK'
<1>1. replicas \in Nat /\ clock \in Nat /\ startedAt \in Nat  BY DEF CompareTypeOK
<1>2. \A r \in rows : r.ts <= clock' /\ r.ins <= clock' /\ Shown(r) <= replicas'
    BY <1>1 DEF CompareTypeOK, DeployRows, Shown
<1>3. \A f : FactFits(f) => FactFits(f)'
    BY <1>1 DEF FactFits, DeployFacts, Shown
<1> QED  BY <1>1, <1>2, <1>3 DEF CompareTypeOK, Stage

LEMMA PruneCompares ==
    ASSUME CompareInv, PruneFacts
    PROVE  CompareInv'
<1>1. UNCHANGED <<replicas, clock, stored, firstSyncDone, registry, eventRows, sync, startedAt,
                  settled, overlapped, halfway>>
    BY DEF PruneFacts, world, memory, history
<1>2. rows' = {r \in rows : r.ins >= clock - Retention} /\ clock - Retention \in Int
    BY SyncAssumption DEF PruneFacts, DeleteFactsBefore, CompareInv, CompareTypeOK
<1>3. ShapeOK' /\ RowsRegistered'  BY <1>1, SameProgress, SameRows DEF CompareInv
<1>4. CompareTypeOK'
    <2>1. \A f : FactFits(f) => FactFits(f)'  BY <1>1 DEF FactFits
    <2> QED  BY <1>1, <1>2, <2>1 DEF CompareInv, CompareTypeOK, Stage
<1>5. ASSUME ~overlapped' PROVE InOrder'
    <2>1. InOrder /\ RowsInOrder /\ CompareTypeOK  BY <1>1, <1>5 DEF CompareInv, InOrder
    <2>2. ASSUME NEW r, LastRow(r), rows' # {}
          PROVE  r \in rows' /\ LastRow(r)'
        <3>1. PICK s \in rows' : TRUE  BY <2>2
        <3>2. s \in rows /\ s.ins >= clock - Retention /\ s.ins \in Nat
            BY <1>2 DEF CompareInv, CompareTypeOK, DeployRows
        <3>3. r \in rows /\ r.ins \in Nat /\ s.ins <= r.ins
            BY <2>1, <2>2, <3>2, LastShowsMost DEF CompareTypeOK, DeployRows, LastRow
        <3>4. r.ins >= clock - Retention  BY <1>2, <3>2, <3>3
        <3> QED  BY <1>2, <2>2, <3>3, <3>4 DEF LastRow
    <2>3. RowsInOrder'
        <3>1. rows' \subseteq rows  BY <1>2
        <3>2. rows' # {} => \E r : LastRow(r)'  BY <2>1, <2>2, <3>1 DEF RowsInOrder
        <3> QED  BY <2>1, <3>1, <3>2 DEF RowsInOrder, RowsApart
    <2>4. FactsFollow'  BY <1>1, <1>2, <2>1 DEF InOrder, FactsFollow
    <2>5. Kept
        <3> SUFFICES ASSUME NEW k \in Nat, Behind(k) PROVE Behind(k)'  BY DEF Kept
        <3>1. ASSUME rows' # {} PROVE \E r \in rows' : k <= Shown(r)
            <4>1. PICK r : LastRow(r)  BY <1>2, <2>1, <3>1 DEF RowsInOrder
            <4>2. k <= Shown(r)  BY <2>1, <4>1, LastIsNoLess
            <4> QED  BY <2>2, <3>1, <4>1, <4>2
        <3> QED  BY <1>1, <3>1 DEF Behind
    <2>6. SaidBefore  BY <1>1, SameSaid
    <2>7. SaidBehind'  BY <1>1, <2>1, <2>5, <2>6, SaidStaysBehind DEF InOrder
    <2>8. \A c \in Callers : CallerInOrder(c)'
        BY <1>1, <2>1, <2>5, <2>6, CallerStays DEF InOrder, CompareTypeOK
    <2> QED  BY <2>3, <2>4, <2>7, <2>8 DEF InOrder
<1>6. ASSUME ~overlapped', ~halfway' PROVE NotedStored'
    BY <1>1, <1>6, SameNoted DEF CompareInv, Stage
<1> QED  BY <1>3, <1>4, <1>5, <1>6 DEF CompareInv

\* After a restart nothing is listed or resolved, and less is in the registry.
LEMMA RestartCompares ==
    ASSUME CompareInv, DeliveryInv, Restart
    PROVE  CompareInv'
<1>1. /\ UNCHANGED <<replicas, clock, rows, stored, eventRows, overlapped, halfway>>
      /\ registry' = eventRows /\ startedAt' = replicas
      /\ firstSyncDone' = FALSE /\ settled' = FALSE
    BY DEF Restart, world, tables
<1>2. \A c \in Callers : sync'[c].stage = "connectors" /\ sync'[c].facts = {} /\ sync'[c].listed = FALSE
    BY RestartedProgress, QuietHolds DEF Restart
<1>3. ShapeOK' /\ RowsRegistered'
    BY RestartDelivers DEF DeliveryInv
<1>4. DOMAIN registry' \subseteq DOMAIN registry
    BY <1>1 DEF CompareInv, RowsRegistered
<1>5. CompareTypeOK'
    <2>1. {replicas, clock} \subseteq Nat /\ rows \subseteq DeployRows
          /\ \A r \in rows : r.ts <= clock /\ r.ins <= clock /\ Shown(r) <= replicas
          /\ overlapped \in BOOLEAN /\ halfway \in BOOLEAN
        BY DEF CompareInv, CompareTypeOK
    <2>2. {firstSyncDone, settled, overlapped, halfway}' \subseteq BOOLEAN
        <3>1. firstSyncDone' \in BOOLEAN /\ settled' \in BOOLEAN  BY <1>1
        <3>2. UNCHANGED <<overlapped, halfway>>  BY <1>1
        <3>3. {overlapped, halfway} \subseteq BOOLEAN  BY DEF CompareInv, CompareTypeOK
        <3>4. {overlapped, halfway}' \subseteq BOOLEAN  BY <3>2, <3>3
        <3> QED  BY <3>1, <3>4
    <2>3. {replicas, clock, startedAt}' \subseteq Nat /\ startedAt' <= replicas'
        BY <1>1, <2>1
    <2>4. rows' \subseteq DeployRows
          /\ \A r \in rows' : r.ts <= clock' /\ r.ins <= clock' /\ Shown(r) <= replicas'
        BY <1>1, <2>1
    <2> QED  BY <1>2, <2>2, <2>3, <2>4 DEF CompareTypeOK, Stage
<1>6. ASSUME ~overlapped' PROVE InOrder'
    <2>1. InOrder  BY <1>1, <1>6 DEF CompareInv
    <2>2. RowsInOrder' /\ FactsFollow'
        BY <1>1, <1>2, <2>1 DEF InOrder, RowsInOrder, RowsApart, LastRow, FactsFollow
    <2>3. \A k \in Nat : Said(k)' => Said(k)  BY <1>1, <1>4 DEF Said, Noted
    <2>4. \A k \in Nat : Behind(k) => Behind(k)'  BY <1>1, <1>2 DEF Behind
    <2>5. SaidBehind'  BY <1>1, <1>4, <2>1, <2>3, <2>4 DEF InOrder, SaidBehind
    <2>6. \A c \in Callers : CallerInOrder(c)'  BY <1>2 DEF CallerInOrder, Stage
    <2> QED  BY <2>2, <2>5, <2>6 DEF InOrder
<1>7. ASSUME ~overlapped', ~halfway' PROVE NotedStored'
    <2>1. NotedStored  BY <1>1, <1>7 DEF CompareInv
    <2>2. ASSUME NEW m \in Nat, NEW n \in Nat, Change(m, n) \in DOMAIN registry'
          PROVE  Count(Change(m, n), registry') = 1 /\ m < n
        <3>1. Count(Change(m, n), registry) = 1 /\ m < n
            BY <1>4, <2>1, <2>2 DEF NotedStored
        <3>2. Count(Change(m, n), eventRows) <= Count(Change(m, n), registry)
              /\ Count(Change(m, n), eventRows) \in Nat
            BY RowsCounted DEF CompareInv
        <3>3. Count(Change(m, n), eventRows) # 0
            BY <1>1, <2>2, CountPositive DEF CompareInv, RowsRegistered
        <3> QED  BY <1>1, <3>1, <3>2, <3>3
    <2> QED  BY <1>1, <2>2 DEF NotedStored
<1> QED  BY <1>3, <1>5, <1>6, <1>7 DEF CompareInv

\* What a sync lists is the Deployment as it is now: no row shows more or is newer.
LEMMA ListedFits ==
    ASSUME CompareTypeOK, NEW c
    PROVE  /\ InnerFacts(c) = {} \/ \E f : InnerFacts(c) = {f} /\ FactFits(f) /\ f.ts = clock
                                              /\ Shown(f) = replicas
           /\ InnerListed(c) => InnerFacts(c) # {}
<1> DEFINE now == [kind |-> "topology-node", source |-> "k8s", rid |-> Deploy,
                   type |-> "Deployment", ts |-> clock, attrs |-> [replicas_desired |-> replicas]]
<1>1. InnerFacts(c) = {} \/ InnerFacts(c) = {now}  BY DEF InnerFacts, Listed
<1>2. InnerListed(c) => InnerFacts(c) = {now}
    BY DEF InnerFacts, InnerListed, Listed
<1>3. now \in DeployFacts /\ now.ts = clock /\ Shown(now) = replicas
    BY DEF CompareTypeOK, DeployFacts, Shown
<1>4. FactFits(now)  BY <1>3 DEF FactFits, CompareTypeOK
<1> HIDE DEF now
<1> QED  BY <1>1, <1>2, <1>3, <1>4

LEMMA InnerCompares ==
    ASSUME CompareInv, NEW c \in Callers, SyncInner(c)
    PROVE  CompareInv'
<1>0. ShapeOK /\ CompareTypeOK  BY DEF CompareInv
<1>1. UNCHANGED <<replicas, clock, rows, stored, firstSyncDone, registry, eventRows, startedAt,
                  settled, overlapped, halfway>>
    BY DEF SyncInner, world, tables, memory
<1>2. /\ ShapeOK'
      /\ \A d \in Callers \ {c} : sync'[d] = sync[d]
      /\ Stage(c) = "connectors"
      /\ sync'[c] = [stage |-> "facts", listed |-> InnerListed(c), facts |-> InnerFacts(c),
                     events |-> InnerEvents(c), next |-> sync[c].next, changes |-> sync[c].changes]
    BY <1>0, InnerProgress
<1>3. sync'[c].stage = "facts" /\ sync'[c].listed = InnerListed(c) /\ sync'[c].facts = InnerFacts(c)
    BY <1>2
<1>4. RowsRegistered'  BY <1>1, SameRows DEF CompareInv
<1>5. \A f : FactFits(f)' <=> FactFits(f)  BY <1>1 DEF FactFits
<1>6. CompareTypeOK'
    <2>1. ASSUME NEW d \in Callers
          PROVE  /\ sync'[d].facts = {} \/ \E f : sync'[d].facts = {f} /\ FactFits(f)
                 /\ sync'[d].stage # "facts" => sync'[d].facts = {}
                 /\ sync'[d].stage = "facts" /\ sync'[d].listed => sync'[d].facts # {}
                 /\ sync'[d].stage = "connectors" => ~sync'[d].listed
        <3>1. CASE d = c  BY <3>1, <1>0, <1>3, ListedFits
        <3>2. CASE d # c  BY <3>2, <1>0, <1>2 DEF CompareTypeOK, Stage
        <3> QED  BY <3>1, <3>2
    <2> QED  BY <1>0, <1>1, <1>5, <2>1 DEF CompareTypeOK, Stage
<1>7. ASSUME ~overlapped' PROVE InOrder'
    <2>1. InOrder  BY <1>1, <1>7 DEF CompareInv
    <2>2. RowsInOrder'  BY <1>1, <2>1 DEF InOrder, RowsInOrder, RowsApart, LastRow
    <2>3. FactsFollow'
        <3> SUFFICES ASSUME NEW d \in Callers, NEW f \in sync'[d].facts, NEW r \in rows
                     PROVE  r.ts <= f.ts /\ Shown(r) <= Shown(f)
            BY <1>1 DEF FactsFollow
        <3>1. CASE d = c  BY <3>1, <1>0, <1>3, ListedFits DEF CompareTypeOK
        <3>2. CASE d # c  BY <3>2, <1>2, <2>1 DEF InOrder, FactsFollow
        <3> QED  BY <3>1, <3>2
    <2>4. Kept
        <3> SUFFICES ASSUME NEW k \in Nat, Behind(k) PROVE Behind(k)'  BY DEF Kept
        <3>1. ASSUME NEW d \in Callers, NEW f \in sync'[d].facts PROVE k <= Shown(f)
            <4>1. CASE d = c  BY <3>1, <4>1, <1>0, <1>3, ListedFits DEF Behind
            <4>2. CASE d # c  BY <3>1, <4>2, <1>2 DEF Behind
            <4> QED  BY <4>1, <4>2
        <3> QED  BY <1>1, <3>1 DEF Behind
    <2>5. SaidBefore  BY <1>1, SameSaid
    <2>6. SaidBehind'  BY <1>1, <2>1, <2>4, <2>5, SaidStaysBehind DEF InOrder
    <2>7. ASSUME NEW d \in Callers PROVE CallerInOrder(d)'
        <3>1. CASE d = c  BY <3>1, <1>3 DEF CallerInOrder, Stage
        <3>2. CASE d # c
            BY <3>2, <1>0, <1>1, <1>2, <2>1, <2>4, <2>5, CallerStays DEF InOrder, CompareTypeOK
        <3> QED  BY <3>1, <3>2
    <2> QED  BY <2>2, <2>3, <2>6, <2>7 DEF InOrder
<1>8. ASSUME ~overlapped', ~halfway' PROVE NotedStored'
    <2>1. (\A d \in Callers : Stage(d)' # "apply") => \A d \in Callers : Stage(d) # "apply"
        BY <1>2 DEF Stage
    <2> QED  BY <1>1, <1>8, <2>1, SameNoted DEF CompareInv
<1> QED  BY <1>2, <1>4, <1>6, <1>7, <1>8 DEF CompareInv

\* A caller that goes back to doing nothing, having stored nothing.
LEMMA GivesUp ==
    ASSUME CompareInv, NEW c \in Callers, sync' = [sync EXCEPT ![c] = Quiet],
           UNCHANGED <<replicas, clock, rows, stored, firstSyncDone, registry, eventRows, startedAt,
                       settled>>,
           overlapped' \in BOOLEAN, halfway' \in BOOLEAN,
           ~overlapped' => ~overlapped,
           ~halfway' => ~halfway /\ Stage(c) # "apply"
    PROVE  CompareInv'
<1>0. ShapeOK /\ CompareTypeOK  BY DEF CompareInv
<1>1. /\ ShapeOK'
      /\ \A d \in Callers \ {c} : sync'[d] = sync[d]
      /\ sync'[c].stage = "connectors" /\ sync'[c].facts = {} /\ sync'[c].listed = FALSE
    BY <1>0, QuietProgress, QuietHolds
<1>2. RowsRegistered'  BY SameRows DEF CompareInv
<1>3. \A f : FactFits(f)' <=> FactFits(f)  BY DEF FactFits
<1>4. CompareTypeOK'
    <2>1. ASSUME NEW d \in Callers
          PROVE  /\ sync'[d].facts = {} \/ \E f : sync'[d].facts = {f} /\ FactFits(f)
                 /\ sync'[d].stage # "facts" => sync'[d].facts = {}
                 /\ sync'[d].stage = "facts" /\ sync'[d].listed => sync'[d].facts # {}
                 /\ sync'[d].stage = "connectors" => ~sync'[d].listed
        <3>1. CASE d = c  BY <3>1, <1>1
        <3>2. CASE d # c  BY <3>2, <1>0, <1>1 DEF CompareTypeOK, Stage
        <3> QED  BY <3>1, <3>2
    <2> QED  BY <1>0, <1>3, <2>1 DEF CompareTypeOK, Stage
<1>5. ASSUME ~overlapped' PROVE InOrder'
    <2>1. InOrder  BY <1>5 DEF CompareInv
    <2>2. \A d \in Callers : sync'[d].facts \subseteq sync[d].facts  BY <1>1
    <2>3. RowsInOrder' /\ FactsFollow' /\ Kept
        BY <1>0, <2>1, <2>2, SameOrder DEF InOrder, CompareTypeOK
    <2>4. SaidBefore  BY SameSaid
    <2>5. SaidBehind'  BY <2>1, <2>3, <2>4, SaidStaysBehind DEF InOrder
    <2>6. ASSUME NEW d \in Callers PROVE CallerInOrder(d)'
        <3>1. CASE d = c  BY <3>1, <1>1 DEF CallerInOrder, Stage
        <3>2. CASE d # c
            BY <3>2, <1>0, <1>1, <2>1, <2>3, <2>4, CallerStays DEF InOrder, CompareTypeOK
        <3> QED  BY <3>1, <3>2
    <2> QED  BY <2>3, <2>5, <2>6 DEF InOrder
<1>6. ASSUME ~overlapped', ~halfway' PROVE NotedStored'
    <2>1. (\A d \in Callers : Stage(d)' # "apply") => \A d \in Callers : Stage(d) # "apply"
        BY <1>1, <1>6 DEF Stage
    <2> QED  BY <1>6, <2>1, SameNoted DEF CompareInv
<1> QED  BY <1>1, <1>2, <1>4, <1>5, <1>6 DEF CompareInv

\* Nobody else is under way when a sync writes and the history says that none overlapped.
LEMMA OthersQuiet ==
    ASSUME CompareTypeOK, NEW c \in Callers, overlapped' = (overlapped \/ Overlaps(c)),
           ~overlapped', NEW d \in Callers \ {c}
    PROVE  Stage(d) = "connectors" /\ sync[d].facts = {} /\ ~sync[d].listed /\ ~overlapped
BY DEF Overlaps, CompareTypeOK

\* Storing a listed Deployment: it takes the place of a row of the same second.
LEMMA Upserts ==
    ASSUME rows \subseteq DeployRows, NEW f \in DeployFacts, clock \in Nat
    PROVE  \E r \in DeployRows :
              /\ r.ts = f.ts /\ r.ins = clock /\ Shown(r) = Shown(f)
              /\ UpsertFacts(rows, {f}, clock) = {s \in rows : s.ts # f.ts} \cup {r}
<1> DEFINE r == [kind |-> f.kind, source |-> f.source, rid |-> f.rid, type |-> f.type,
                 ts |-> f.ts, attrs |-> f.attrs, ins |-> clock]
<1>1. r \in DeployRows /\ r.ts = f.ts /\ r.ins = clock /\ Shown(r) = Shown(f)
    BY DEF DeployFacts, DeployRows, Shown
<1>2. \A s \in rows : FactId(s) = FactId(f) <=> s.ts = f.ts
    BY DEF DeployFacts, DeployRows, FactId, Attr
<1>3. UpsertFacts(rows, {f}, clock) = {s \in rows : s.ts # f.ts} \cup {r}
    BY <1>2 DEF UpsertFacts
<1> QED  BY <1>1, <1>3

LEMMA UpsertsNothing == UpsertFacts(rows, {}, clock) = rows
BY DEF UpsertFacts

LEMMA StoreCompares ==
    ASSUME CompareInv, NEW c \in Callers, StoreFacts(c)
    PROVE  CompareInv'
<1>0. ShapeOK /\ CompareTypeOK /\ Stage(c) = "facts"  BY DEF CompareInv, StoreFacts
<1>1. UNCHANGED <<replicas, clock, stored, firstSyncDone, registry, eventRows, startedAt,
                  settled, halfway>>
    BY DEF StoreFacts, world, memory
<1>2. CASE sync' = [sync EXCEPT ![c] = Quiet] /\ UNCHANGED <<rows, overlapped>>
    BY <1>0, <1>1, <1>2, GivesUp DEF CompareTypeOK
<1>3. CASE /\ rows' = UpsertFacts(rows, sync[c].facts, clock)
           /\ sync' = [sync EXCEPT ![c].stage = "resolve", ![c].facts = {}]
           /\ overlapped' = (overlapped \/ Overlaps(c))
    <2>1. /\ ShapeOK'
          /\ \A d \in Callers \ {c} : sync'[d] = sync[d]
          /\ sync'[c] = [stage |-> "resolve", listed |-> sync[c].listed, facts |-> {},
                events |-> sync[c].events, next |-> sync[c].next, changes |-> sync[c].changes]
        BY <1>0, <1>3, StoredProgress
    <2>2. sync'[c].stage = "resolve" /\ sync'[c].facts = {} /\ sync'[c].listed = sync[c].listed
        BY <2>1
    <2>3. RowsRegistered'  BY <1>1, SameRows DEF CompareInv
    <2>4. \A f : FactFits(f)' <=> FactFits(f)  BY <1>1 DEF FactFits
    <2>5. \/ sync[c].facts = {} /\ rows' = rows
          \/ \E f, r : /\ sync[c].facts = {f} /\ FactFits(f)
                       /\ r \in DeployRows /\ r.ts = f.ts /\ r.ins = clock /\ Shown(r) = Shown(f)
                       /\ rows' = {s \in rows : s.ts # f.ts} \cup {r}
        <3>1. CASE sync[c].facts = {}  BY <1>3, <3>1, UpsertsNothing
        <3>2. CASE sync[c].facts # {}
            <4>1. PICK f : sync[c].facts = {f} /\ FactFits(f)  BY <1>0, <3>2 DEF CompareTypeOK
            <4>2. f \in DeployFacts /\ clock \in Nat /\ rows \subseteq DeployRows
                BY <1>0, <4>1 DEF FactFits, CompareTypeOK
            <4> QED  BY <1>3, <4>1, <4>2, Upserts
        <3> QED  BY <3>1, <3>2
    <2>6. CompareTypeOK'
        <3>1. ASSUME NEW d \in Callers
              PROVE  /\ sync'[d].facts = {} \/ \E f : sync'[d].facts = {f} /\ FactFits(f)
                     /\ sync'[d].stage # "facts" => sync'[d].facts = {}
                     /\ sync'[d].stage = "facts" /\ sync'[d].listed => sync'[d].facts # {}
                     /\ sync'[d].stage = "connectors" => ~sync'[d].listed
            <4>1. CASE d = c  BY <4>1, <2>2
            <4>2. CASE d # c  BY <4>2, <1>0, <2>1 DEF CompareTypeOK, Stage
            <4> QED  BY <4>1, <4>2
        <3>2. /\ rows' \subseteq DeployRows
              /\ \A r \in rows' : r.ts <= clock /\ r.ins <= clock /\ Shown(r) <= replicas
            <4>1. CASE rows' = rows  BY <4>1, <1>0 DEF CompareTypeOK
            <4>2. ASSUME NEW f, NEW r, FactFits(f), r \in DeployRows, r.ts = f.ts, r.ins = clock,
                         Shown(r) = Shown(f), rows' = {s \in rows : s.ts # f.ts} \cup {r}
                  PROVE  /\ rows' \subseteq DeployRows
                         /\ \A s \in rows' : s.ts <= clock /\ s.ins <= clock /\ Shown(s) <= replicas
                <5>1. r.ts <= clock /\ r.ins <= clock /\ Shown(r) <= replicas
                    BY <4>2, <1>0 DEF FactFits, CompareTypeOK
                <5> QED  BY <4>2, <5>1, <1>0 DEF CompareTypeOK
            <4> QED  BY <4>1, <4>2, <2>5
        <3>3. overlapped' \in BOOLEAN  BY <1>3
        <3> QED  BY <1>0, <1>1, <2>4, <3>1, <3>2, <3>3 DEF CompareTypeOK, Stage
    <2>7. ASSUME ~overlapped' PROVE InOrder'
        <3>1. InOrder /\ \A d \in Callers \ {c} : Stage(d) = "connectors" /\ sync[d].facts = {}
            BY <1>0, <1>3, <2>7, OthersQuiet DEF CompareInv
        <3>2. \A d \in Callers : sync'[d].facts = {}  BY <2>1, <2>2, <3>1
        <3>3. FactsFollow'  BY <3>2 DEF FactsFollow
        <3>4. SaidBefore  BY <1>1, SameSaid
        <3>5. RowsInOrder' /\ Kept /\ (sync[c].listed => Behind(startedAt)')
            <4>1. CASE sync[c].facts = {} /\ rows' = rows
                <5>1. ~sync[c].listed  BY <1>0, <4>1 DEF CompareTypeOK
                <5> QED
                    BY <1>0, <1>1, <4>1, <5>1, <3>1, <3>2, SameOrder DEF InOrder, CompareTypeOK
            <4>2. ASSUME NEW f, NEW r, sync[c].facts = {f}, FactFits(f), r \in DeployRows,
                         r.ts = f.ts, r.ins = clock,
                         Shown(r) = Shown(f), rows' = {s \in rows : s.ts # f.ts} \cup {r}
                  PROVE  RowsInOrder' /\ Kept /\ (sync[c].listed => Behind(startedAt)')
                <5>1. \A s \in rows : s.ts <= r.ts /\ Shown(s) <= Shown(r) /\ s.ins <= r.ins
                    BY <4>2, <3>1, <1>0 DEF InOrder, FactsFollow, CompareTypeOK
                <5>2. \A s \in rows' : s = r \/ (s \in rows /\ s.ts < r.ts)
                    <6>1. \A s \in rows' : s = r \/ (s \in rows /\ s.ts # r.ts /\ s.ts \in Nat /\ r.ts \in Nat)
                        BY <4>2, <1>0 DEF CompareTypeOK, DeployRows
                    <6> QED  BY <6>1, <5>1
                <5>3. r \in rows' /\ r.ts \in Nat /\ Shown(r) \in Nat /\ r.ins \in Nat
                    BY <4>2 DEF DeployRows, Shown
                <5>4. RowsApart'
                    BY <5>2, <5>3, <3>1 DEF InOrder, RowsInOrder, RowsApart
                <5>5. \A q, s \in rows' : q.ts < s.ts => Shown(q) <= Shown(s) /\ q.ins <= s.ins
                    <6> SUFFICES ASSUME NEW q \in rows', NEW s \in rows', q.ts < s.ts
                                 PROVE  Shown(q) <= Shown(s) /\ q.ins <= s.ins
                        OBVIOUS
                    <6>1. CASE s = r  BY <6>1, <5>1, <5>2, <5>3
                    <6>2. CASE q = r /\ s # r  BY <6>2, <5>2, <5>3, <1>0 DEF CompareTypeOK, DeployRows
                    <6>3. CASE q # r /\ s # r  BY <6>3, <5>2, <3>1 DEF InOrder, RowsInOrder
                    <6> QED  BY <6>1, <6>2, <6>3
                <5>6. LastRow(r)'  BY <5>1, <5>2, <5>3 DEF LastRow
                <5>7. RowsInOrder'  BY <5>4, <5>5, <5>6 DEF RowsInOrder
                <5>8. Kept
                    <6> SUFFICES ASSUME NEW k \in Nat, Behind(k) PROVE Behind(k)'  BY DEF Kept
                    <6>1. k <= Shown(r)  BY <4>2 DEF Behind
                    <6> QED  BY <1>1, <3>2, <5>3, <6>1 DEF Behind
                <5>9. Behind(startedAt)'
                    BY <1>0, <1>1, <3>2, <4>2, <5>3 DEF Behind, FactFits, CompareTypeOK
                <5> QED  BY <5>7, <5>8, <5>9
            <4> QED  BY <2>5, <4>1, <4>2
        <3>6. SaidBehind'  BY <1>1, <3>1, <3>4, <3>5, SaidStaysBehind DEF InOrder
        <3>7. ASSUME NEW d \in Callers PROVE CallerInOrder(d)'
            <4>1. CASE d = c  BY <4>1, <2>2, <3>5 DEF CallerInOrder, Stage
            <4>2. CASE d # c  BY <4>2, <2>1, <3>1 DEF CallerInOrder, Stage
            <4> QED  BY <4>1, <4>2
        <3> QED  BY <3>3, <3>5, <3>6, <3>7 DEF InOrder
    <2>8. ASSUME ~overlapped', ~halfway' PROVE NotedStored'
        <3>1. ~overlapped /\ ~halfway  BY <1>1, <1>3, <2>8
        <3>2. (\A d \in Callers : Stage(d)' # "apply") => \A d \in Callers : Stage(d) # "apply"
            BY <1>0, <2>1 DEF Stage
        <3> QED  BY <1>1, <3>1, <3>2, SameNoted DEF CompareInv
    <2> QED  BY <2>1, <2>3, <2>6, <2>7, <2>8 DEF CompareInv
<1> QED  BY <1>2, <1>3 DEF StoreFacts, Fail

LEMMA ResolveCompares ==
    ASSUME CompareInv, NEW c \in Callers, ResolveFacts(c)
    PROVE  CompareInv'
<1>0. ShapeOK /\ CompareTypeOK /\ Stage(c) = "resolve"  BY DEF CompareInv, ResolveFacts
<1>1. UNCHANGED <<replicas, clock, rows, stored, firstSyncDone, registry, eventRows, startedAt,
                  settled, overlapped, halfway>>
    BY DEF ResolveFacts, world, tables, memory, history
<1>2. /\ ShapeOK'
      /\ \A d \in Callers \ {c} : sync'[d] = sync[d]
      /\ sync'[c] = [stage |-> "diff", listed |-> sync[c].listed, facts |-> sync[c].facts,
                     events |-> sync[c].events, next |-> Resolved, changes |-> sync[c].changes]
    BY <1>0, ResolvedProgress DEF Resolved
<1>3. /\ sync'[c].stage = "diff" /\ sync'[c].listed = sync[c].listed
      /\ sync'[c].facts = sync[c].facts /\ sync'[c].next = Resolved
    BY <1>2
<1>4. RowsRegistered'  BY <1>1, SameRows DEF CompareInv
<1>5. \A f : FactFits(f)' <=> FactFits(f)  BY <1>1 DEF FactFits
<1>6. CompareTypeOK'
    <2>1. ASSUME NEW d \in Callers
          PROVE  /\ sync'[d].facts = {} \/ \E f : sync'[d].facts = {f} /\ FactFits(f)
                 /\ sync'[d].stage # "facts" => sync'[d].facts = {}
                 /\ sync'[d].stage = "facts" /\ sync'[d].listed => sync'[d].facts # {}
                 /\ sync'[d].stage = "connectors" => ~sync'[d].listed
        <3>1. CASE d = c  BY <3>1, <1>0, <1>3 DEF CompareTypeOK, Stage
        <3>2. CASE d # c  BY <3>2, <1>0, <1>2 DEF CompareTypeOK, Stage
        <3> QED  BY <3>1, <3>2
    <2> QED  BY <1>0, <1>1, <1>5, <2>1 DEF CompareTypeOK, Stage
<1>7. ASSUME ~overlapped' PROVE InOrder'
    <2>1. InOrder /\ RowsInOrder  BY <1>1, <1>7 DEF CompareInv, InOrder
    <2>2. \A d \in Callers : sync'[d].facts \subseteq sync[d].facts  BY <1>2, <1>3
    <2>3. RowsInOrder' /\ FactsFollow' /\ Kept
        BY <1>0, <1>1, <2>1, <2>2, SameOrder DEF InOrder, CompareTypeOK
    <2>4. SaidBefore  BY <1>1, SameSaid
    <2>5. SaidBehind'  BY <1>1, <2>1, <2>3, <2>4, SaidStaysBehind DEF InOrder
    <2>6. sync[c].listed => Behind(startedAt)
        BY <1>0, <2>1 DEF InOrder, CallerInOrder
    <2>7. Ahead(c, Resolved)
        <3>1. CASE rows = {}
            <4>1. Resolved = NoTopology  BY <3>1, ResolvesNothing
            <4> QED  BY <4>1, <2>6, ShowingDiffer DEF Ahead, Plain
        <3>2. CASE rows # {}
            <4>1. PICK r : LastRow(r)  BY <2>1, <3>2 DEF RowsInOrder
            <4>2. Resolved = Showing(Shown(r))
                BY <1>0, <2>1, <4>1, ResolvesLastRow DEF CompareTypeOK, RowsInOrder
            <4>3. Shown(r) \in Nat /\ Shown(r) <= replicas /\ r \in rows
                BY <1>0, <4>1 DEF CompareTypeOK, LastRow, DeployRows, Shown
            <4>4. Behind(Shown(r))
                BY <2>1, <4>3 DEF Behind, InOrder, FactsFollow
            <4>5. \A k \in Nat : Behind(k) => k <= Shown(r)
                BY <1>0, <2>1, <4>1, LastIsNoLess
            <4>6. \A k \in Nat : Said(k) => k <= Shown(r)
                BY <2>1, <4>5 DEF InOrder, SaidBehind
            <4>7. sync[c].listed => startedAt <= Shown(r)
                BY <1>0, <2>6, <4>5 DEF CompareTypeOK
            <4> HIDE DEF Resolved
            <4> QED  BY <2>6, <4>2, <4>3, <4>4, <4>6, <4>7, ShowingDiffer DEF Ahead, Plain
        <3> QED  BY <3>1, <3>2
    <2>8. Ahead(c, Resolved)'
        <3> DEFINE t == Resolved
        <3>1. Ahead(c, t)  BY <2>7
        <3>2. Resolved' = Resolved  BY <1>1 DEF Resolved
        <3> QED  BY <1>0, <1>1, <1>3, <2>3, <2>4, <2>7, <3>2, AheadStays DEF CompareTypeOK
    <2>9. ASSUME NEW d \in Callers PROVE CallerInOrder(d)'
        <3>1. CASE d = c
            <4>1. Resolved' = Resolved  BY <1>1 DEF Resolved
            <4> QED  BY <3>1, <4>1, <1>3, <2>8 DEF CallerInOrder, Stage
        <3>2. CASE d # c
            BY <3>2, <1>0, <1>1, <1>2, <2>1, <2>3, <2>4, CallerStays DEF InOrder, CompareTypeOK
        <3> QED  BY <3>1, <3>2
    <2> QED  BY <2>3, <2>5, <2>9 DEF InOrder
<1>8. ASSUME ~overlapped', ~halfway' PROVE NotedStored'
    <2>1. (\A d \in Callers : Stage(d)' # "apply") => \A d \in Callers : Stage(d) # "apply"
        BY <1>0, <1>2 DEF Stage
    <2> QED  BY <1>1, <1>8, <2>1, SameNoted DEF CompareInv
<1> QED  BY <1>2, <1>4, <1>6, <1>7, <1>8 DEF CompareInv

\* What a sync records of its own is the change from what is stored to what it resolved.
LEMMA EntryShape ==
    ASSUME NEW c, Plain(stored), Plain(sync[c].next),
           NEW x \in Entries(c), x.source = "diff"
    PROVE  \E m, n \in Nat :
              /\ x = Change(m, n) /\ m # n /\ firstSyncDone
              /\ stored = Showing(m) /\ sync[c].next = Showing(n)
<1>1. PICK f \in Found(c) : x = [source |-> "diff", event |-> f]
    BY DEF Entries, Handed
<1>2. firstSyncDone /\ f \in DetectChanges(stored, sync[c].next)
    BY <1>1 DEF Found
<1>3. stored # NoTopology /\ sync[c].next # NoTopology
    BY <1>2, DetectsNothing
<1>4. PICK m \in Nat : stored = Showing(m)  BY <1>3 DEF Plain
<1>5. PICK n \in Nat : sync[c].next = Showing(n)  BY <1>3 DEF Plain
<1>6. m # n /\ f = Change(m, n).event  BY <1>2, <1>4, <1>5, Detects
<1>7. x = Change(m, n)  BY <1>1, <1>6 DEF Change
<1> QED  BY <1>2, <1>4, <1>5, <1>6, <1>7

LEMMA RecordCompares ==
    ASSUME CompareInv, NEW c \in Callers, DiffAndRecord(c)
    PROVE  CompareInv'
<1>0. ShapeOK /\ CompareTypeOK /\ RowsRegistered /\ Stage(c) = "diff"
    BY DEF CompareInv, DiffAndRecord
<1> DEFINE t == sync[c].next
<1>1. /\ UNCHANGED <<replicas, clock, rows, stored, startedAt, settled, halfway>>
      /\ firstSyncDone' = TRUE
      /\ overlapped' = (overlapped \/ Overlaps(c))
    BY DEF DiffAndRecord, world
<1>2. /\ ShapeOK'
      /\ \A d \in Callers \ {c} : sync'[d] = sync[d]
      /\ sync'[c] = [stage |-> "apply", listed |-> sync[c].listed, facts |-> sync[c].facts,
                events |-> {}, next |-> NoTopology, changes |-> Diff(stored, t)]
    BY <1>0, RecordedProgress
<1>3. /\ sync'[c].stage = "apply" /\ sync'[c].listed = sync[c].listed
      /\ sync'[c].facts = sync[c].facts /\ sync'[c].changes = Diff(stored, t)
    BY <1>2
<1>4. /\ RowsRegistered'
      /\ DOMAIN registry' = DOMAIN registry \cup Entries(c)
      /\ \A x : Count(x, registry') = Count(x, registry) + Once(x \in Entries(c))
    BY <1>0, Registers
<1>5. \A f : FactFits(f)' <=> FactFits(f)  BY <1>1 DEF FactFits
<1>6. CompareTypeOK'
    <2>1. ASSUME NEW d \in Callers
          PROVE  /\ sync'[d].facts = {} \/ \E f : sync'[d].facts = {f} /\ FactFits(f)
                 /\ sync'[d].stage # "facts" => sync'[d].facts = {}
                 /\ sync'[d].stage = "facts" /\ sync'[d].listed => sync'[d].facts # {}
                 /\ sync'[d].stage = "connectors" => ~sync'[d].listed
        <3>1. CASE d = c  BY <3>1, <1>0, <1>3 DEF CompareTypeOK, Stage
        <3>2. CASE d # c  BY <3>2, <1>0, <1>2 DEF CompareTypeOK, Stage
        <3> QED  BY <3>1, <3>2
    <2>2. firstSyncDone' \in BOOLEAN /\ overlapped' \in BOOLEAN  BY <1>1
    <2> QED  BY <1>0, <1>1, <1>5, <2>1, <2>2 DEF CompareTypeOK, Stage
<1>7. ASSUME ~overlapped'
      PROVE  /\ InOrder /\ Plain(stored) /\ Ahead(c, t)
             /\ \A d \in Callers \ {c} : Stage(d) = "connectors"
             /\ \A x \in Entries(c) : x.source = "diff" =>
                   \E m, n \in Nat : /\ x = Change(m, n) /\ m # n /\ firstSyncDone
                                     /\ stored = Showing(m) /\ t = Showing(n)
    <2>1. InOrder  BY <1>1, <1>7 DEF CompareInv
    <2>2. Plain(stored) /\ Ahead(c, t)
        BY <1>0, <2>1 DEF InOrder, SaidBehind, CallerInOrder
    <2>3. \A d \in Callers \ {c} : Stage(d) = "connectors"
        BY <1>0, <1>1, <1>7, OthersQuiet
    <2>4. Plain(t)  BY <2>2 DEF Ahead
    <2> QED  BY <2>1, <2>2, <2>3, <2>4, EntryShape
<1>8. ASSUME ~overlapped' PROVE InOrder'
    <2>1. InOrder /\ Plain(stored) /\ Ahead(c, t)  BY <1>7, <1>8
    <2>2. \A d \in Callers : sync'[d].facts \subseteq sync[d].facts  BY <1>2, <1>3
    <2>3. RowsInOrder' /\ FactsFollow' /\ Kept
        BY <1>0, <1>1, <2>1, <2>2, SameOrder DEF InOrder, CompareTypeOK
    <2>4. ASSUME NEW k \in Nat, Said(k)' PROVE Said(k) \/ t = Showing(k)
        <3>1. CASE stored = Showing(k) \/ (settled /\ k = startedAt)
            BY <3>1 DEF Said
        <3>2. CASE Noted(k)'
            <4>1. PICK m \in Nat : Change(m, k) \in DOMAIN registry'  BY <3>2 DEF Noted
            <4>2. CASE Change(m, k) \in DOMAIN registry  BY <4>2 DEF Said, Noted
            <4>3. CASE Change(m, k) \in Entries(c)
                <5>1. PICK p \in Nat, q \in Nat : Change(m, k) = Change(p, q) /\ t = Showing(q)
                    BY <1>7, <1>8, <4>3, ChangeShape
                <5> QED  BY <5>1, ChangesDiffer
            <4> QED  BY <1>4, <4>1, <4>2, <4>3
        <3> QED  BY <1>1, <2>4, <3>1, <3>2 DEF Said
    <2>5. \A k \in Nat : Said(k)' => Behind(k)'
        BY <2>1, <2>3, <2>4 DEF InOrder, SaidBehind, Ahead, Kept
    <2>6. ASSUME NEW x \in DOMAIN registry', x.source = "diff"
          PROVE  \E m, n \in Nat : x = Change(m, n)
        BY <1>4, <1>7, <1>8, <2>1, <2>6 DEF InOrder, SaidBehind
    <2>7. SaidBehind'
        BY <1>1, <2>1, <2>5, <2>6 DEF InOrder, SaidBehind
    <2>8. Plain(t) /\ (sync[c].listed => Behind(startedAt)')
        BY <1>0, <1>1, <2>1, <2>3 DEF Ahead, Kept, CompareTypeOK
    <2>9. ASSUME NEW n \in Nat, t = Showing(n)
          PROVE  Behind(n)' /\ (\A k \in Nat : Said(k)' => k <= n) /\ (sync[c].listed => startedAt <= n)
        <3>1. Behind(n) /\ (\A k \in Nat : Said(k) => k <= n) /\ (sync[c].listed => startedAt <= n)
            BY <2>1, <2>9 DEF Ahead
        <3>2. ASSUME NEW k \in Nat, Said(k)' PROVE k <= n
            <4>1. CASE Said(k)  BY <4>1, <3>1
            <4>2. CASE t = Showing(k)
                <5>1. k = n  BY <4>2, <2>9, ShowingDiffer
                <5> QED  BY <5>1
            <4> QED  BY <3>2, <2>4, <4>1, <4>2
        <3> QED  BY <3>1, <3>2, <2>3 DEF Kept
    <2>10. ASSUME NEW d \in Callers PROVE CallerInOrder(d)'
        <3>1. CASE d = c
            <4>1. PICK u : u = t  OBVIOUS
            <4>2. Ahead(c, u)'
                BY <1>1, <1>3, <2>8, <2>9, <4>1 DEF Ahead
            <4>3. sync'[c].changes = Diff(stored', u)  BY <1>1, <1>3, <4>1
            <4> QED  BY <3>1, <1>3, <4>2, <4>3 DEF CallerInOrder, Stage
        <3>2. CASE d # c  BY <3>2, <1>2, <1>7, <1>8 DEF CallerInOrder, Stage
        <3> QED  BY <3>1, <3>2
    <2> QED  BY <2>3, <2>7, <2>10 DEF InOrder
<1>9. ASSUME ~overlapped', ~halfway' PROVE NotedStored'
    <2>1. NotedStored /\ InOrder /\ Ahead(c, t)
        BY <1>1, <1>7, <1>9 DEF CompareInv
    <2>2. \A d \in Callers : Stage(d) # "apply"  BY <1>0, <1>7, <1>9
    <2>3. ASSUME NEW m \in Nat, NEW n \in Nat, Change(m, n) \in DOMAIN registry'
          PROVE  Count(Change(m, n), registry') = 1 /\ m < n
        <3>1. CASE Change(m, n) \notin Entries(c)
            <4>1. Change(m, n) \in DOMAIN registry  BY <1>4, <2>3, <3>1
            <4>2. Count(Change(m, n), registry) = 1 /\ m < n  BY <2>1, <4>1 DEF NotedStored
            <4> QED  BY <1>4, <3>1, <4>2 DEF Once
        <3>2. CASE Change(m, n) \in Entries(c)
            <4>1. PICK p \in Nat, q \in Nat :
                     /\ Change(m, n) = Change(p, q) /\ p # q /\ firstSyncDone
                     /\ stored = Showing(p) /\ t = Showing(q)
                BY <1>7, <1>9, <3>2, ChangeShape
            <4>2. p = m /\ q = n  BY <4>1, ChangesDiffer
            <4>3. m <= n  BY <2>1, <4>1, <4>2 DEF Ahead, Said
            <4>4. m < n  BY <4>1, <4>2, <4>3
            <4>5. \A k \in Nat : Noted(k) => k <= m
                BY <2>1, <2>2, <4>1, <4>2 DEF NotedStored
            <4>6. Change(m, n) \notin DOMAIN registry  BY <4>4, <4>5 DEF Noted
            <4>7. Count(Change(m, n), registry) = 0
                BY <1>0, <4>6, CountPositive DEF RowsRegistered
            <4> QED  BY <1>4, <3>2, <4>4, <4>7 DEF Once
        <3> QED  BY <3>1, <3>2
    <2>4. ~(\A d \in Callers : Stage(d)' # "apply")  BY <1>3 DEF Stage
    <2> QED  BY <2>3, <2>4 DEF NotedStored
<1> QED  BY <1>2, <1>4, <1>6, <1>8, <1>9 DEF CompareInv

LEMMA ApplyCompares ==
    ASSUME CompareInv, NEW c \in Callers, Apply(c)
    PROVE  CompareInv'
<1>0. ShapeOK /\ CompareTypeOK /\ Stage(c) = "apply"  BY DEF CompareInv, Apply
<1>1. /\ UNCHANGED <<replicas, clock, rows, firstSyncDone, registry, eventRows, startedAt>>
      /\ sync' = [sync EXCEPT ![c] = Quiet]
      /\ overlapped' = (overlapped \/ Overlaps(c))
    BY DEF Apply, Fail, world, memory
<1>2. CASE halfway' = TRUE /\ UNCHANGED <<stored, settled>>
    <2>1. overlapped' \in BOOLEAN /\ halfway' \in BOOLEAN  BY <1>1, <1>2
    <2>2. (~overlapped' => ~overlapped) /\ (~halfway' => ~halfway /\ Stage(c) # "apply")
        BY <1>1, <1>2
    <2> QED  BY <1>1, <1>2, <2>1, <2>2, GivesUp
<1>3. CASE /\ stored' = ApplyChangeSet(stored, sync[c].changes)
           /\ settled' = (settled \/ sync[c].listed)
           /\ UNCHANGED halfway
    <2>1. /\ ShapeOK'
          /\ \A d \in Callers \ {c} : sync'[d] = sync[d]
          /\ sync'[c].stage = "connectors" /\ sync'[c].facts = {} /\ sync'[c].listed = FALSE
        BY <1>0, <1>1, QuietProgress, QuietHolds
    <2>2. RowsRegistered'  BY <1>1, SameRows DEF CompareInv
    <2>3. \A f : FactFits(f)' <=> FactFits(f)  BY <1>1 DEF FactFits
    <2>4. CompareTypeOK'
        <3>1. ASSUME NEW d \in Callers
              PROVE  /\ sync'[d].facts = {} \/ \E f : sync'[d].facts = {f} /\ FactFits(f)
                     /\ sync'[d].stage # "facts" => sync'[d].facts = {}
                     /\ sync'[d].stage = "facts" /\ sync'[d].listed => sync'[d].facts # {}
                     /\ sync'[d].stage = "connectors" => ~sync'[d].listed
            <4>1. CASE d = c  BY <4>1, <2>1
            <4>2. CASE d # c  BY <4>2, <1>0, <2>1 DEF CompareTypeOK, Stage
            <4> QED  BY <4>1, <4>2
        <3>2. overlapped' \in BOOLEAN /\ settled' \in BOOLEAN  BY <1>1, <1>3
        <3> QED  BY <1>0, <1>1, <1>3, <2>3, <3>1, <3>2 DEF CompareTypeOK, Stage
    <2>5. ASSUME ~overlapped'
          PROVE  /\ InOrder /\ (\A d \in Callers \ {c} : Stage(d) = "connectors")
                 /\ \E t : Ahead(c, t) /\ stored' = t
        <3>1. InOrder  BY <1>1, <2>5 DEF CompareInv
        <3>2. \A d \in Callers \ {c} : Stage(d) = "connectors"
            BY <1>0, <1>1, <2>5, OthersQuiet
        <3>3. PICK t : sync[c].changes = Diff(stored, t) /\ Ahead(c, t)
            BY <1>0, <3>1 DEF InOrder, CallerInOrder
        <3>4. Plain(stored) /\ Plain(t)  BY <3>1, <3>3 DEF InOrder, SaidBehind, Ahead
        <3>5. stored' = t  BY <1>3, <3>3, <3>4, AppliesDiff
        <3> QED  BY <3>1, <3>2, <3>3, <3>5
    <2>6. ASSUME ~overlapped' PROVE InOrder'
        <3>1. InOrder /\ \A d \in Callers \ {c} : Stage(d) = "connectors"  BY <2>5, <2>6
        <3>2. PICK t : Ahead(c, t) /\ stored' = t  BY <2>5, <2>6
        <3>3. \A d \in Callers : sync'[d].facts \subseteq sync[d].facts  BY <2>1
        <3>4. RowsInOrder' /\ FactsFollow' /\ Kept
            BY <1>0, <1>1, <3>1, <3>3, SameOrder DEF InOrder, CompareTypeOK
        <3>5. ASSUME NEW k \in Nat, Said(k)' PROVE Behind(k)
            <4>1. CASE stored' = Showing(k)  BY <3>2, <4>1 DEF Ahead
            <4>2. CASE Noted(k)
                BY <3>1, <4>2 DEF InOrder, SaidBehind, Said
            <4>3. CASE settled' /\ k = startedAt
                <5>1. CASE settled  BY <3>1, <4>3, <5>1 DEF InOrder, SaidBehind, Said
                <5>2. CASE sync[c].listed  BY <3>2, <4>3, <5>2 DEF Ahead
                <5> QED  BY <1>3, <4>3, <5>1, <5>2
            <4>4. Noted(k)' <=> Noted(k)  BY <1>1 DEF Noted
            <4> QED  BY <1>1, <3>5, <4>1, <4>2, <4>3, <4>4 DEF Said
        <3>6. ASSUME NEW m \in Nat, settled', stored' = Showing(m) PROVE startedAt <= m
            <4>1. CASE settled
                <5>1. Said(startedAt) /\ startedAt \in Nat  BY <1>0, <4>1 DEF Said, CompareTypeOK
                <5> QED  BY <3>2, <3>6, <5>1 DEF Ahead
            <4>2. CASE sync[c].listed  BY <3>2, <3>6, <4>2 DEF Ahead
            <4> QED  BY <1>3, <3>6, <4>1, <4>2
        <3>7. Plain(stored')  BY <3>2 DEF Ahead
        <3>8. \A k \in Nat : Said(k)' => Behind(k)'  BY <3>4, <3>5 DEF Kept
        <3>9. SaidBehind'
            BY <1>1, <3>1, <3>6, <3>7, <3>8 DEF InOrder, SaidBehind, Plain
        <3>10. \A d \in Callers : CallerInOrder(d)'
            BY <2>1, <3>1 DEF CallerInOrder, Stage
        <3> QED  BY <3>4, <3>9, <3>10 DEF InOrder
    <2>7. ASSUME ~overlapped', ~halfway' PROVE NotedStored'
        <3>1. NotedStored  BY <1>1, <1>3, <2>7 DEF CompareInv
        <3>2. PICK t : Ahead(c, t) /\ stored' = t  BY <2>5, <2>7
        <3>3. \A m, k \in Nat : stored' = Showing(m) /\ Noted(k) => k <= m
            BY <3>2 DEF Ahead, Said
        <3>4. \A k : Noted(k)' <=> Noted(k)  BY <1>1 DEF Noted
        <3> QED  BY <1>1, <3>1, <3>3, <3>4 DEF NotedStored
    <2> QED  BY <2>1, <2>2, <2>4, <2>6, <2>7 DEF CompareInv
<1> QED  BY <1>2, <1>3 DEF Apply

LEMMA NextCompares ==
    ASSUME CompareInv, DeliveryInv, [Next]_vars
    PROVE  CompareInv'
<1>1. ASSUME replicas' \in Nat, clock' \in Nat, replicas <= replicas', clock <= clock',
             UNCHANGED <<rows, stored, firstSyncDone, registry, eventRows, sync, startedAt,
                         settled, overlapped, halfway>>
      PROVE  CompareInv'
    <2>1. CompareTypeOK'  BY <1>1, OutsideTyped DEF CompareInv
    <2> QED  BY <1>1, <2>1, OutsideCompares
<1>0. replicas \in Nat /\ clock \in Nat  BY DEF CompareInv, CompareTypeOK
<1>2. CASE ClusterChanges
    BY <1>0, <1>1, <1>2 DEF ClusterChanges, tables, memory, history
<1>3. CASE ApiFails  BY <1>0, <1>1, <1>3 DEF ApiFails, tables, memory, history
<1>4. CASE ApiReturns  BY <1>0, <1>1, <1>4 DEF ApiReturns, tables, memory, history
<1>5. CASE Tick  BY <1>0, <1>1, <1>5 DEF Tick, world, tables, memory, history
<1>6. CASE IntervalPasses
    BY <1>0, <1>1, <1>6 DEF IntervalPasses, world, tables, memory, history
<1>7. CASE PruneFacts  BY <1>7, PruneCompares
<1>8. CASE Restart  BY <1>8, RestartCompares
<1>9. ASSUME NEW c \in Callers, Proceed(c) PROVE CompareInv'
    BY <1>9, InnerCompares, StoreCompares, ResolveCompares, RecordCompares, ApplyCompares
    DEF Proceed
<1>10. CASE UNCHANGED vars
    BY <1>0, <1>1, <1>10 DEF vars, world, tables, memory, history
<1> QED  BY <1>2, <1>3, <1>4, <1>5, <1>6, <1>7, <1>8, <1>9, <1>10 DEF Next

\* Both invariants, which the restart needs together.
THEOREM SyncInvariance == Spec => [](DeliveryInv /\ CompareInv)
<1>1. Init => DeliveryInv /\ CompareInv  BY InitDelivers, InitCompares
<1>2. DeliveryInv /\ CompareInv /\ [Next]_vars => (DeliveryInv /\ CompareInv)'
    BY NextDelivers, NextCompares
<1> QED  BY <1>1, <1>2, PTL DEF Spec

\* While no sync writes in the middle of another and none fails between recording and
\* applying, a change is recorded once and as it happened, whatever is pruned and
\* whenever the process restarts.
THEOREM ChangesRecordedOnce == Spec => []ChangesOnce
<1>1. DeliveryInv /\ CompareInv => ChangesOnce  BY OnceEach
<1> QED  BY <1>1, SyncInvariance, PTL

\* The first comparison that counts starts from a topology no older than the process:
\* after a sync that listed, a change made before the start is not taken for a new one.
LEMMA RecordsLaterChanges ==
    ASSUME CompareInv, DeliveryInv, [Next]_vars, ~overlapped, settled,
           NEW e \in BagToSet(registry'), FoundNow(e)
    PROVE  ~MadeBeforeStart(e)
<1>0. RowsRegistered /\ CompareTypeOK /\ InOrder  BY DEF CompareInv
<1>1. e.source = "diff" /\ Count(e, registry) < Count(e, registry')
    BY DEF FoundNow
<1>2. Count(e, registry) \in Nat /\ Count(e, eventRows) \in Nat
      /\ Count(e, eventRows) <= Count(e, registry)
    BY <1>0, RowsCounted
<1>3. registry' # registry /\ registry' # eventRows  BY <1>1, <1>2
<1>4. PICK c \in Callers : DiffAndRecord(c)
    <2>1. ~Restart  BY <1>3 DEF Restart
    <2> QED
        BY <1>3, <2>1 DEF Next, Proceed, vars, ClusterChanges, ApiFails, ApiReturns, Tick,
           IntervalPasses, PruneFacts, SyncInner, StoreFacts, ResolveFacts, Apply, memory
<1>5. e \in Entries(c)
    <2>1. Count(e, registry') = Count(e, registry) + Once(e \in Entries(c))
        BY <1>0, <1>4, Registers
    <2> QED  BY <1>1, <1>2, <2>1 DEF Once
<1>6. Stage(c) = "diff"  BY <1>4 DEF DiffAndRecord
<1>7. Plain(stored) /\ Ahead(c, sync[c].next)
    BY <1>0, <1>6 DEF InOrder, SaidBehind, CallerInOrder
<1>8. PICK m \in Nat, n \in Nat :
         e = Change(m, n) /\ m # n /\ stored = Showing(m) /\ sync[c].next = Showing(n)
    BY <1>1, <1>5, <1>7, EntryShape DEF Ahead
<1>9. m <= n  BY <1>7, <1>8 DEF Ahead, Said
<1>10. startedAt <= m /\ startedAt \in Nat
    BY <1>0, <1>8 DEF InOrder, SaidBehind, CompareTypeOK
<1>11. Replicas(e.event.new) = n  BY <1>8, ChangeShape
<1> QED  BY <1>8, <1>9, <1>10, <1>11 DEF MadeBeforeStart

\* Changes made while the application did not run are not recorded as new ones, once a
\* sync has listed the cluster and applied.
THEOREM PastChangesStayQuiet == Spec => HistoryStaysQuiet
<1>1. DeliveryInv /\ CompareInv /\ [Next]_vars =>
         [\A e \in BagToSet(registry') :
             FoundNow(e) /\ settled /\ ~overlapped => ~MadeBeforeStart(e)]_vars
    BY RecordsLaterChanges
<1> QED  BY <1>1, SyncInvariance, PTL DEF Spec, HistoryStaysQuiet
===============================================================================
