----------------------------- MODULE ConsoleProofs -----------------------------
(***************************************************************************)
(* What holds of the console for all worlds: the registries of changes and *)
(* alerts and their tables, the tag of resources that change too often,    *)
(* the two directions of the correlation; and of what the topology shows   *)
(* after a sync: who uses what, what is built from what, what is measured, *)
(* whom a change that a sync finds concerns, and what the reports tell.    *)
(*                                                                         *)
(* Four parts add up to the inductive invariant: EventsInv is about the    *)
(* registries, TopologyInv about the tables and the world that was synced, *)
(* PollInv about the changes that syncs have found, and ReportInv about    *)
(* what a report counts: it is finite, and the pods that crash-loop and    *)
(* the application are shown.                                              *)
(***************************************************************************)
EXTENDS Console, TopologyProofs

-----------------------------------------------------------------------------
(* Finite sets *)

\* A finite set is listed once through.
LEMMA ListedOnce ==
    ASSUME NEW S
    PROVE  Listed(S) \in Seq(S)
<1>1. CASE IsFiniteSet(S)
    <2>1. Cardinality(S) \in Nat /\ ExistsBijection(1..Cardinality(S), S)
        BY <1>1, FS_CardinalityType
    <2>2. PICK f : f \in Bijection(1..Cardinality(S), S)  BY <2>1 DEF ExistsBijection
    <2>3. f \in [1..Cardinality(S) -> S] /\ IsInjective(f)  BY <2>2 DEF Bijection, Injection
    <2>4. SetToSeq(S) \in [1..Cardinality(S) -> S]  BY <2>3 DEF SetToSeq
    <2> QED  BY <1>1, <2>1, <2>4 DEF Listed
<1>2. CASE ~IsFiniteSet(S)  BY <1>2 DEF Listed
<1> QED  BY <1>1, <1>2

-----------------------------------------------------------------------------
(* The registry of changes *)

RegistryOK(reg) ==
    /\ reg \in Seq(Range(reg))
    /\ \A i \in DOMAIN reg : reg[i].id \in 1..Len(reg) /\ reg[i].at \in Int
    /\ \A i, j \in DOMAIN reg : reg[i].id = reg[j].id => i = j

IsTagged(reg, t) ==
    \E i \in DOMAIN reg : reg[i].target = t /\ reg[i].frequent /\ reg[i].severity # "low"

FrequentTagged(reg, now) ==
    \A t : Cardinality(RecentOf(reg, t, now, FrequencyWindow)) > FrequencyThreshold => IsTagged(reg, t)

\* What was recorded stays where it is.
Continues(reg, new) ==
    Len(new) >= Len(reg) /\ \A i \in DOMAIN reg : new[i] = reg[i]

LEMMA FrequentlyFound ==
    ASSUME NEW reg, NEW now, FrequentTagged(reg, now)
    PROVE  \A t \in DetectFrequentChanges(reg, now, FrequencyWindow, FrequencyThreshold) : IsTagged(reg, t)
BY DEF DetectFrequentChanges, FrequentTagged

LEMMA AppendedOK ==
    ASSUME NEW reg, RegistryOK(reg), NEW e, e.id = Len(reg) + 1, e.at \in Int
    PROVE  /\ RegistryOK(Append(reg, e)) /\ Continues(reg, Append(reg, e))
           /\ DOMAIN Append(reg, e) = DOMAIN reg \cup {Len(reg) + 1}
           /\ Append(reg, e)[Len(reg) + 1] = e
           /\ Len(reg) \in Nat /\ DOMAIN reg = 1..Len(reg)
<1> DEFINE S == Range(reg) \cup {e}
           new == Append(reg, e)
<1>1. reg \in Seq(Range(reg))  BY DEF RegistryOK
<1>2. reg \in Seq(S)  BY <1>1, SeqMonotonic
<1>3. /\ new \in Seq(S) /\ Len(new) = Len(reg) + 1
      /\ \A i \in 1..Len(reg) : new[i] = reg[i]
      /\ new[Len(reg) + 1] = e
    BY <1>2, AppendProperties
<1>4. Len(reg) \in Nat /\ DOMAIN reg = 1..Len(reg)  BY <1>2, LenProperties
<1>5. DOMAIN new = 1..Len(new)  BY <1>3, LenProperties
<1>6. new \in Seq(Range(new))  BY <1>3, SeqOfRange
<1> HIDE DEF new
<1>7. DOMAIN new = DOMAIN reg \cup {Len(reg) + 1}  BY <1>3, <1>4, <1>5
<1>8. \A i \in DOMAIN reg : new[i].id \in 1..Len(reg) /\ new[i].at \in Int  BY <1>3, <1>4 DEF RegistryOK
<1>9. \A i \in DOMAIN new : new[i].id \in 1..Len(new) /\ new[i].at \in Int
    BY <1>3, <1>4, <1>7, <1>8
<1>10. ASSUME NEW i \in DOMAIN new, NEW j \in DOMAIN new, new[i].id = new[j].id  PROVE i = j
    <2>1. CASE i \in DOMAIN reg /\ j \in DOMAIN reg  BY <1>10, <1>3, <1>4, <2>1 DEF RegistryOK
    <2>2. CASE i \notin DOMAIN reg \/ j \notin DOMAIN reg  BY <1>10, <1>3, <1>4, <1>7, <1>8, <2>2
    <2> QED  BY <2>1, <2>2
<1>11. RegistryOK(new)  BY <1>6, <1>9, <1>10 DEF RegistryOK
<1>12. Continues(reg, new)  BY <1>3, <1>4 DEF Continues
<1> QED  BY <1>3, <1>4, <1>7, <1>11, <1>12 DEF new

\* The type of a resource, if it is there.
TypeIn(top, r) == IF HasNode(top, r) THEN top.nodes[r].type ELSE ""

\* The record of a request.
IsRecord(e, i, top, req, now) ==
    /\ e.id = i /\ e.change_type = req.change_type /\ e.target = req.target /\ e.source = req.source
    /\ e.at = IF req.at = 0 THEN now ELSE req.at
    /\ e.propagated = DerivePropagation(top, req.target)
    /\ e.target_type = TypeIn(top, req.target)

\* A change that is recorded tags its target if it is too frequent with it.
LEMMA RecordedOne ==
    ASSUME NEW reg, NEW now, RegistryOK(reg), FrequentTagged(reg, now), now \in Int,
           NEW top, NEW req, req.at \in Int
    PROVE  LET new == RecordChange(reg, top, req, now)
           IN /\ RegistryOK(new) /\ FrequentTagged(new, now) /\ Continues(reg, new)
              /\ \A i \in DOMAIN new : i \in DOMAIN reg \/ IsRecord(new[i], i, top, req, now)
<1>1. reg \in Seq(Range(reg))  BY DEF RegistryOK
<1>2. Len(reg) \in Nat /\ DOMAIN reg = 1..Len(reg)  BY <1>1, LenProperties
<1>3. CASE ~ValidRequest(req)
    <2>1. RecordChange(reg, top, req, now) = reg  BY <1>3 DEF RecordChange
    <2>2. Continues(reg, reg)  BY <1>2 DEF Continues
    <2> QED  BY <2>1, <2>2
<1>4. CASE ValidRequest(req)
    <2>1. PICK e : e = NewChange(reg, top, req, now)  OBVIOUS
    <2>2. e.id = Len(reg) + 1 /\ e.at \in Int /\ e.target = req.target
        BY <2>1 DEF NewChange
    <2>0. IsRecord(e, Len(reg) + 1, top, req, now)  BY <2>1, Zenon DEF NewChange, IsRecord, TypeIn
    <2>3. PICK counted : counted = Append(reg, e)  OBVIOUS
    <2>4. PICK f : f = ApplyFrequencyCheck(e, counted, now)  OBVIOUS
    <2>5. /\ f.id = e.id /\ f.at = e.at /\ f.target = e.target
          /\ f.change_type = e.change_type /\ f.source = e.source /\ f.propagated = e.propagated
          /\ f.target_type = e.target_type
          /\ IsFrequent(counted, e.target, now) => f.frequent /\ f.severity # "low"
        <3>1. PICK g : g = [e EXCEPT !.frequent = TRUE,
                                     !.severity = IF @ = "low" THEN "medium" ELSE @]  OBVIOUS
        <3>2. DOMAIN e = {"id", "change_type", "target", "target_type", "source", "at",
                          "propagated", "severity", "frequent"}  BY <2>1 DEF NewChange
        <3>3. /\ g.id = e.id /\ g.at = e.at /\ g.target = e.target
              /\ g.change_type = e.change_type /\ g.source = e.source /\ g.propagated = e.propagated
              /\ g.target_type = e.target_type
              /\ g.frequent = TRUE /\ g.severity # "low"
            BY <3>1, <3>2
        <3> QED  BY <2>4, <3>1, <3>3 DEF ApplyFrequencyCheck
    <2>6. PICK new : new = Append(reg, f)  OBVIOUS
    <2>7. RecordChange(reg, top, req, now) = new
        BY <1>4, <2>1, <2>3, <2>4, <2>6 DEF RecordChange
    <2>8. /\ RegistryOK(new) /\ Continues(reg, new)
          /\ DOMAIN new = DOMAIN reg \cup {Len(reg) + 1} /\ new[Len(reg) + 1] = f
        BY <2>2, <2>5, <2>6, AppendedOK
    <2>9. /\ DOMAIN counted = DOMAIN reg \cup {Len(reg) + 1} /\ counted[Len(reg) + 1] = e
          /\ Continues(reg, counted)
        BY <2>2, <2>3, AppendedOK
    <2>10. \A i \in DOMAIN new : new[i].target = counted[i].target /\ new[i].at = counted[i].at
        BY <2>5, <2>8, <2>9 DEF Continues
    <2>11. ASSUME NEW t, Cardinality(RecentOf(new, t, now, FrequencyWindow)) > FrequencyThreshold
           PROVE  IsTagged(new, t)
        <3>1. CASE t = e.target
            <4>1. RecentOf(counted, t, now, FrequencyWindow) = RecentOf(new, t, now, FrequencyWindow)
                BY <2>8, <2>9, <2>10 DEF RecentOf
            <4>2. IsFrequent(counted, e.target, now)  BY <2>11, <3>1, <4>1 DEF IsFrequent
            <4> QED  BY <2>5, <2>8, <3>1, <4>2 DEF IsTagged
        <3>2. CASE t # e.target
            <4>1. RecentOf(new, t, now, FrequencyWindow) = RecentOf(reg, t, now, FrequencyWindow)
                BY <1>2, <2>5, <2>8, <3>2 DEF RecentOf, Continues
            <4>2. IsTagged(reg, t)  BY <2>11, <4>1 DEF FrequentTagged
            <4> QED  BY <2>8, <4>2 DEF IsTagged, Continues
        <3> QED  BY <3>1, <3>2
    <2>12. \A i \in DOMAIN new : i \in DOMAIN reg \/ IsRecord(new[i], i, top, req, now)
        <3>1. IsRecord(f, Len(reg) + 1, top, req, now)  BY <2>0, <2>5 DEF IsRecord
        <3> QED  BY <2>8, <3>1
    <2>13. FrequentTagged(new, now)  BY <2>11 DEF FrequentTagged
    <2> QED  BY <2>7, <2>8, <2>12, <2>13
<1> QED  BY <1>3, <1>4

LEMMA ContinuesOn ==
    ASSUME NEW a, NEW b, NEW c, RegistryOK(a), RegistryOK(b), RegistryOK(c),
           Continues(a, b), Continues(b, c)
    PROVE  Continues(a, c)
<1>1. \A r \in {a, b, c} : Len(r) \in Nat /\ DOMAIN r = 1..Len(r)
    BY LenProperties DEF RegistryOK
<1> QED  BY <1>1 DEF Continues

\* Several changes are recorded one upon the other.
LEMMA RecordedAll ==
    ASSUME NEW reg, RegistryOK(reg), FrequentTagged(reg, clock), clock \in Int,
           NEW found, Len(found) \in Nat, NEW next
    PROVE  LET new == RecordAll(reg, found, next)
           IN /\ RegistryOK(new) /\ FrequentTagged(new, clock) /\ Continues(reg, new)
              /\ \A i \in DOMAIN new :
                     i \in DOMAIN reg \/ \E k \in 1..Len(found) : IsRecord(new[i], i, next, Request(found[k]), clock)
<1> DEFINE Step(r, i) == RecordChange(r, next, Request(found[i]), clock)
           Chain(n, g) == g = [i \in 0..n |-> IF i = 0 THEN reg ELSE Step(g[i - 1], i)]
           Traced(r) ==
               \A i \in DOMAIN r :
                   i \in DOMAIN reg \/ \E k \in 1..Len(found) : IsRecord(r[i], i, next, Request(found[k]), clock)
           Good(r) == RegistryOK(r) /\ FrequentTagged(r, clock) /\ Continues(reg, r) /\ Traced(r)
           all == CHOOSE g : Chain(Len(found), g)
<1>1. RecordAll(reg, found, next) = all[Len(found)]  BY Zenon DEF RecordAll
<1>2. ASSUME NEW r, NEW i \in 1..Len(found), Good(r)  PROVE Good(Step(r, i))
    <2>1. Request(found[i]).at \in Int  BY DEF Request
    <2>2. PICK s : s = Step(r, i)  OBVIOUS
    <2>3. RegistryOK(s) /\ FrequentTagged(s, clock) /\ Continues(r, s)
        BY <1>2, <2>1, <2>2, RecordedOne
    <2>4. Continues(reg, s)  BY <1>2, <2>3, ContinuesOn
    <2>5. \A j \in DOMAIN s : j \in DOMAIN r \/ IsRecord(s[j], j, next, Request(found[i]), clock)
        BY <1>2, <2>1, <2>2, RecordedOne
    <2>6. \A j \in DOMAIN r : s[j] = r[j]  BY <2>3 DEF Continues
    <2>7. Traced(s)  BY <1>2, <2>5, <2>6
    <2> QED  BY <2>2, <2>3, <2>4, <2>7
<1>3. Good(reg)
    <2>1. Len(reg) \in Nat  BY LenProperties DEF RegistryOK
    <2> QED  BY <2>1 DEF Continues
<1> HIDE DEF Step, Good
<1>4. \E g : Chain(Len(found), g)
    <2> DEFINE Missing == {n \in Nat : ~\E g : Chain(n, g)}
    <2>1. SUFFICES ASSUME Missing # {}  PROVE FALSE  OBVIOUS
    <2>2. PICK n \in Missing : \A k \in Missing : n <= k  BY <2>1, LeastNatural
    <2>3. CASE n = 0
        <3>1. Chain(0, [i \in 0..0 |-> reg])  OBVIOUS
        <3> QED  BY <2>2, <2>3, <3>1
    <2>4. CASE n # 0
        <3>1. n - 1 \in Nat /\ n \in Nat /\ n - 1 \notin Missing  BY <2>2, <2>4
        <3>2. PICK g : Chain(n - 1, g)  BY <3>1
        <3>3. PICK h : h = [i \in 0..n |-> IF i = n THEN Step(g[n - 1], n) ELSE g[i]]  OBVIOUS
        <3>4. ASSUME NEW i \in 0..n
              PROVE  h[i] = IF i = 0 THEN reg ELSE Step(h[i - 1], i)
            <4>1. CASE i = n  BY <2>4, <3>1, <3>3, <4>1
            <4>2. CASE i # n
                <5>1. i \in 0..(n - 1) /\ h[i] = g[i]  BY <3>1, <3>3, <4>2
                <5>2. g[i] = IF i = 0 THEN reg ELSE Step(g[i - 1], i)  BY <3>2, <5>1
                <5>3. i # 0 => h[i - 1] = g[i - 1]  BY <3>1, <3>3, <4>2
                <5> QED  BY <5>1, <5>2, <5>3
            <4> QED  BY <4>1, <4>2
        <3>5. h = [i \in 0..n |-> h[i]]  BY <3>3
        <3>6. Chain(n, h)  BY <3>4, <3>5
        <3> QED  BY <2>2, <3>6
    <2> QED  BY <2>3, <2>4
<1>5. Chain(Len(found), all)  BY <1>4
<1> HIDE DEF all
<1>6. \A i \in 0..Len(found) : all[i] = IF i = 0 THEN reg ELSE Step(all[i - 1], i)  BY <1>5
<1> HIDE DEF Chain
<1>7. \A i \in 0..Len(found) : Good(all[i])
    <2> DEFINE Bad == {i \in 0..Len(found) : ~Good(all[i])}
    <2>1. SUFFICES ASSUME Bad # {}  PROVE FALSE  OBVIOUS
    <2>2. PICK n \in Bad : \A k \in Bad : n <= k
        <3>1. Bad \in SUBSET Nat  OBVIOUS
        <3> QED  BY <2>1, <3>1, LeastNatural
    <2>3. n # 0  BY <1>3, <1>6, <2>2
    <2>4. n \in Nat /\ n - 1 \in 0..Len(found) /\ n - 1 \notin Bad  BY <2>2, <2>3
    <2>5. all[n] = Step(all[n - 1], n)  BY <1>6, <2>2, <2>3
    <2>6. n \in 1..Len(found)  BY <2>2, <2>3
    <2> QED  BY <1>2, <2>2, <2>4, <2>5, <2>6
<1>8. Good(all[Len(found)])  BY <1>7
<1> QED  BY <1>1, <1>8 DEF Good

-----------------------------------------------------------------------------
(* The tables *)

RowsHold ==
    /\ DOMAIN changeRows = {changes[i].id : i \in DOMAIN changes}
    /\ \A i \in DOMAIN changes : changeRows[changes[i].id] = changes[i]

Upserted(stored, list, new) ==
    /\ DOMAIN new = {list[i].id : i \in DOMAIN list} \cup DOMAIN stored
    /\ \A id \in DOMAIN new :
          \/ \E i \in DOMAIN list : list[i].id = id /\ new[id] = list[i]
          \/ /\ id \in DOMAIN stored /\ new[id] = stored[id]
             /\ id \notin {list[i].id : i \in DOMAIN list}

LEMMA UpsertWrites ==
    ASSUME NEW stored, NEW S, NEW list \in Seq(S), NEW new, new = UpsertEvents(stored, list)
    PROVE  Upserted(stored, list, new)
<1>1. Len(list) \in Nat /\ DOMAIN list = 1..Len(list)  BY LenProperties
<1>2. {e.id : e \in Range(list)} = {list[i].id : i \in DOMAIN list}  BY DEF Range
<1>3. PICK last : last = [id \in {e.id : e \in Range(list)} |->
                              list[Max({i \in DOMAIN list : list[i].id = id})]]  OBVIOUS
<1>4. /\ DOMAIN new = {list[i].id : i \in DOMAIN list} \cup DOMAIN stored
      /\ \A id \in DOMAIN new :
            new[id] = IF id \in {list[i].id : i \in DOMAIN list}
                      THEN list[Max({i \in DOMAIN list : list[i].id = id})] ELSE stored[id]
    <2>1. new = Filled(last, stored)  BY <1>3 DEF UpsertEvents
    <2>2. DOMAIN last = {list[i].id : i \in DOMAIN list}  BY <1>2, <1>3
    <2>3. \A id \in DOMAIN last : last[id] = list[Max({i \in DOMAIN list : list[i].id = id})]
        BY <1>3
    <2>4. new = [id \in DOMAIN last \cup DOMAIN stored |->
                    IF id \in DOMAIN last THEN last[id] ELSE stored[id]]
        BY <2>1 DEF Filled
    <2> QED  BY <2>2, <2>3, <2>4
<1>5. ASSUME NEW id \in DOMAIN new, id \in {list[i].id : i \in DOMAIN list}
      PROVE  \E i \in DOMAIN list : list[i].id = id /\ new[id] = list[i]
    <2>1. PICK P : P = {i \in DOMAIN list : list[i].id = id}  OBVIOUS
    <2>2. P \subseteq 1..Len(list) /\ P # {}  BY <1>1, <1>5, <2>1
    <2>3. Max(P) \in P  BY <1>1, <2>2, MaxIsThere
    <2> QED  BY <1>4, <1>5, <2>1, <2>3
<1> QED  BY <1>4, <1>5 DEF Upserted

\* The rest of a list, from behind its nth element on.
LEMMA RestOfList ==
    ASSUME NEW S, NEW s \in Seq(S), NEW n \in Nat, n <= Len(s)
    PROVE  LET rest == SubSeq(s, n + 1, Len(s))
           IN /\ rest \in Seq(S)
              /\ Len(rest) = Len(s) - n
              /\ \A i \in 1..(Len(s) - n) : rest[i] = s[n + i]
<1> DEFINE m == Len(s)
           rest == SubSeq(s, n + 1, m)
<1>1. m \in Nat  BY LenProperties
<1>2. n + 1 \in 1..(m + 1) /\ m \in n..m  BY <1>1
<1>3. /\ rest \in Seq(S)
      /\ Len(rest) = IF n + 1 <= m THEN m - (n + 1) + 1 ELSE 0
      /\ \A i \in 1..(m - (n + 1) + 1) : rest[i] = s[(n + 1) + i - 1]
    BY <1>2, SubSeqProperties
<1> HIDE DEF m, rest
<1>4. m - (n + 1) + 1 = m - n /\ (~(n + 1 <= m) => m - n = 0)  BY <1>1, <1>2
<1>5. Len(rest) = m - n  BY <1>3, <1>4
<1>6. ASSUME NEW i \in 1..(m - n)  PROVE rest[i] = s[n + i]
    <2>1. (n + 1) + i - 1 = n + i  BY <1>1
    <2> QED  BY <1>3, <1>4, <2>1
<1> QED  BY <1>3, <1>5, <1>6 DEF m, rest

\* Writing what was added leaves the rows as the registry is.
LEMMA RowsFollowRegistry ==
    ASSUME RegistryOK(changes), RowsHold, NEW new, RegistryOK(new), Continues(changes, new),
           NEW stored, stored = UpsertEvents(changeRows, Added(changes, new))
    PROVE  /\ DOMAIN stored = {new[i].id : i \in DOMAIN new}
           /\ \A i \in DOMAIN new : stored[new[i].id] = new[i]
<1>1. new \in Seq(Range(new))  BY DEF RegistryOK
<1>2. \A r \in {changes, new} : Len(r) \in Nat /\ DOMAIN r = 1..Len(r)
    BY LenProperties DEF RegistryOK
<1>3. PICK n \in Nat : n = Len(changes)  BY <1>2
<1>4. \A i \in DOMAIN changes : i \in DOMAIN new /\ new[i] = changes[i]
    BY <1>2 DEF Continues
<1>5. PICK list : list = Added(changes, new)  OBVIOUS
<1>6. /\ list \in Seq(Range(new))
      /\ \A i \in DOMAIN list : n + i \in DOMAIN new /\ list[i] = new[n + i]
      /\ \A i \in DOMAIN new : i > n => i - n \in DOMAIN list /\ list[i - n] = new[i]
    <2>1. n <= Len(new)  BY <1>2, <1>3 DEF Continues
    <2>2. list = SubSeq(new, n + 1, Len(new))  BY <1>3, <1>5 DEF Added
    <2>3. Len(list) = Len(new) - n  BY <1>1, <2>1, <2>2, RestOfList
    <2>4. /\ list \in Seq(Range(new))
          /\ \A i \in 1..(Len(new) - n) : list[i] = new[n + i]
        BY <1>1, <2>1, <2>2, RestOfList
    <2>5. DOMAIN list = 1..(Len(new) - n)  BY <2>3, <2>4, LenProperties
    <2>6. \A i \in 1..(Len(new) - n) : n + i \in 1..Len(new)  BY <1>2
    <2>7. \A i \in 1..Len(new) : i > n => i - n \in 1..(Len(new) - n) /\ n + (i - n) = i
        BY <1>2
    <2> QED  BY <1>2, <2>4, <2>5, <2>6, <2>7
<1>7. Upserted(changeRows, list, stored)  BY <1>5, <1>6, UpsertWrites
<1>8. DOMAIN changes = 1..n /\ \A i \in DOMAIN new : i \in DOMAIN changes \/ i > n
    BY <1>2, <1>3
<1>9. DOMAIN stored = {new[i].id : i \in DOMAIN new}
    <2>1. {list[i].id : i \in DOMAIN list} \subseteq {new[i].id : i \in DOMAIN new}  BY <1>6
    <2>2. DOMAIN changeRows \subseteq {new[i].id : i \in DOMAIN new}  BY <1>4 DEF RowsHold
    <2>3. \A i \in DOMAIN new : new[i].id \in {list[k].id : k \in DOMAIN list} \cup DOMAIN changeRows
        BY <1>4, <1>6, <1>8 DEF RowsHold
    <2>4. {new[i].id : i \in DOMAIN new} = {list[i].id : i \in DOMAIN list} \cup DOMAIN changeRows
        BY <2>1, <2>2, <2>3
    <2>5. DOMAIN stored = {list[i].id : i \in DOMAIN list} \cup DOMAIN changeRows
        BY <1>7 DEF Upserted
    <2> QED  BY <2>4, <2>5
<1>10. ASSUME NEW i \in DOMAIN new  PROVE stored[new[i].id] = new[i]
    <2>1. CASE \E k \in DOMAIN list : list[k].id = new[i].id /\ stored[new[i].id] = list[k]
        <3>1. PICK k \in DOMAIN list : list[k].id = new[i].id /\ stored[new[i].id] = list[k]
            BY <2>1
        <3>2. n + k \in DOMAIN new /\ list[k] = new[n + k]  BY <1>6
        <3>3. n + k = i  BY <3>1, <3>2 DEF RegistryOK
        <3> QED  BY <3>1, <3>2, <3>3
    <2>2. CASE /\ new[i].id \in DOMAIN changeRows /\ stored[new[i].id] = changeRows[new[i].id]
               /\ new[i].id \notin {list[k].id : k \in DOMAIN list}
        <3>1. i \in DOMAIN changes  BY <1>6, <1>8, <2>2
        <3>2. changeRows[changes[i].id] = changes[i]  BY <3>1 DEF RowsHold
        <3> QED  BY <1>4, <2>2, <3>1, <3>2
    <2> QED  BY <1>7, <1>9, <2>1, <2>2 DEF Upserted
<1> QED  BY <1>9, <1>10

\* A restart reads all changes back, each once, in an order of its own.
LEMMA ReadBackOnce ==
    ASSUME RegistryOK(changes), RowsHold, NEW new \in ListChangeEvents(changeRows)
    PROVE  /\ new \in Seq(Range(changes)) /\ Len(new) = Len(changes) /\ Range(new) = Range(changes)
           /\ DOMAIN new = 1..Len(changes) /\ DOMAIN changes = 1..Len(changes) /\ Len(changes) \in Nat
           /\ \A i, j \in DOMAIN new : new[i] = new[j] => i = j
<1>1. Len(changes) \in Nat /\ DOMAIN changes = 1..Len(changes)
    BY LenProperties DEF RegistryOK
<1>2. PICK S : S = Range(changes)  OBVIOUS
<1>3. Range(changeRows) = S  BY <1>2 DEF RowsHold, Range
<1>4. changes \in Bijection(1..Len(changes), S)
    <2>1. changes \in [1..Len(changes) -> S]  BY <1>1, <1>2, LenProperties DEF RegistryOK
    <2>2. IsInjective(changes)  BY DEF IsInjective, RegistryOK
    <2>3. \A e \in S : \E i \in 1..Len(changes) : changes[i] = e  BY <1>1, <1>2 DEF Range
    <2> QED  BY <2>1, <2>2, <2>3 DEF Bijection, Injection, Surjection
<1>5. IsFiniteSet(1..Len(changes)) /\ Cardinality(1..Len(changes)) = Len(changes)
    <2>1. PICK n \in Nat : n = Len(changes)  BY <1>1
    <2>2. IsFiniteSet(1..n) /\ Cardinality(1..n) = IF 1 > n THEN 0 ELSE n - 1 + 1
        BY FS_Interval
    <2> QED  BY <2>1, <2>2
<1>6. IsFiniteSet(S) /\ Cardinality(S) = Len(changes)
    <2>1. ExistsBijection(1..Len(changes), S)  BY <1>4 DEF ExistsBijection
    <2> QED  BY <1>5, <2>1, FS_Bijection
<1>7. new \in SetToSeqs(S)  BY <1>3 DEF ListChangeEvents, NewestFirst
<1>8. /\ new \in [1..Len(changes) -> S]
      /\ \A i, j \in 1..Len(changes) : i # j => new[i] # new[j]
    BY <1>6, <1>7 DEF SetToSeqs
<1>9. new \in Injection(1..Len(changes), S)  BY <1>8, Fun_IsInj
<1>10. new \in Surjection(1..Len(changes), S)  BY <1>5, <1>6, <1>9, FS_Injection
<1>11. Range(new) = S  BY <1>8, <1>10, Fun_SurjectionProperties
<1>12. new \in Seq(S) /\ Len(new) = Len(changes)  BY <1>1, <1>8
<1> QED  BY <1>1, <1>2, <1>8, <1>11, <1>12

LEMMA CountedUp ==
    ASSUME NEW n \in Nat
    PROVE  IsFiniteSet(1..n) /\ \A T \in SUBSET (1..n) : IsFiniteSet(T) /\ Cardinality(T) \in Nat
<1>1. IsFiniteSet(1..n)  BY FS_Interval
<1>2. \A T \in SUBSET (1..n) : IsFiniteSet(T)  BY <1>1, FS_Subset
<1> QED  BY <1>1, <1>2, FS_CardinalityType

\* What was read back is the registry, and tags what the registry tagged.
LEMMA ReadBackKept ==
    ASSUME RegistryOK(changes), FrequentTagged(changes, clock), RowsHold,
           NEW new \in ListChangeEvents(changeRows)
    PROVE  /\ RegistryOK(new) /\ FrequentTagged(new, clock)
           /\ DOMAIN changeRows = {new[i].id : i \in DOMAIN new}
           /\ \A i \in DOMAIN new : changeRows[new[i].id] = new[i]
<1>1. /\ new \in Seq(Range(changes)) /\ Len(new) = Len(changes) /\ Range(new) = Range(changes)
      /\ DOMAIN new = 1..Len(changes) /\ DOMAIN changes = 1..Len(changes) /\ Len(changes) \in Nat
      /\ \A i, j \in DOMAIN new : new[i] = new[j] => i = j
    BY ReadBackOnce
<1>2. \A i \in DOMAIN new : \E k \in DOMAIN changes : changes[k] = new[i]
    <2>1. \A i \in DOMAIN new : new[i] \in Range(new)  BY DEF Range
    <2> QED  BY <1>1, <2>1 DEF Range
<1>3. \A k \in DOMAIN changes : \E i \in DOMAIN new : changes[k] = new[i]
    <2>1. \A k \in DOMAIN changes : changes[k] \in Range(changes)  BY DEF Range
    <2> QED  BY <1>1, <2>1 DEF Range
<1>4. RegistryOK(new)
    <2>1. \A i \in DOMAIN new : new[i].id \in 1..Len(new) /\ new[i].at \in Int
        BY <1>1, <1>2 DEF RegistryOK
    <2>2. ASSUME NEW i \in DOMAIN new, NEW j \in DOMAIN new, new[i].id = new[j].id  PROVE i = j
        <3>1. PICK k \in DOMAIN changes : changes[k] = new[i]  BY <1>2
        <3>2. PICK l \in DOMAIN changes : changes[l] = new[j]  BY <1>2
        <3>3. k = l  BY <2>2, <3>1, <3>2 DEF RegistryOK
        <3> QED  BY <1>1, <3>1, <3>2, <3>3
    <2> QED  BY <1>1, <2>1, <2>2 DEF RegistryOK
<1>5. ASSUME NEW t, Cardinality(RecentOf(new, t, clock, FrequencyWindow)) > FrequencyThreshold
      PROVE  IsTagged(new, t)
    <2> DEFINE A == RecentOf(new, t, clock, FrequencyWindow)
               B == RecentOf(changes, t, clock, FrequencyWindow)
    <2>1. PICK f : f = [i \in A |-> CHOOSE k \in DOMAIN changes : changes[k] = new[i]]  OBVIOUS
    <2>2. A \subseteq DOMAIN new /\ B \subseteq DOMAIN changes  BY DEF RecentOf
    <2>3. \A i \in A : f[i] \in DOMAIN changes /\ changes[f[i]] = new[i]  BY <1>2, <2>1, <2>2
    <2>4. \A i \in A : f[i] \in B  BY <2>3 DEF RecentOf
    <2>5. f \in Injection(A, B)
        <3>1. f \in [A -> B]  BY <2>1, <2>4
        <3>2. \A i, j \in A : f[i] = f[j] => i = j  BY <1>1, <2>2, <2>3
        <3> QED  BY <3>1, <3>2 DEF Injection, IsInjective
    <2>6. IsFiniteSet(A) /\ IsFiniteSet(B) /\ Cardinality(A) \in Nat /\ Cardinality(B) \in Nat
        BY <1>1, <2>2, CountedUp
    <2>7. Cardinality(A) <= Cardinality(B)  BY <2>5, <2>6, FS_Injection
    <2>8. Cardinality(B) > FrequencyThreshold  BY <1>5, <2>6, <2>7, ChangeEventsAssumption
    <2>9. IsTagged(changes, t)  BY <2>8 DEF FrequentTagged
    <2> QED  BY <1>3, <2>9 DEF IsTagged
<1>6. /\ DOMAIN changeRows = {new[i].id : i \in DOMAIN new}
      /\ \A i \in DOMAIN new : changeRows[new[i].id] = new[i]
    <2>1. \A i \in DOMAIN new : changeRows[new[i].id] = new[i]  BY <1>2 DEF RowsHold
    <2>2. {changes[k].id : k \in DOMAIN changes} = {new[i].id : i \in DOMAIN new}
        BY <1>2, <1>3
    <2> QED  BY <2>1, <2>2 DEF RowsHold
<1> QED  BY <1>4, <1>5, <1>6 DEF FrequentTagged

\* As time passes a resource is less and less too frequent.
LEMMA LessFrequentLater ==
    ASSUME RegistryOK(changes), FrequentTagged(changes, clock), clock \in Int,
           NEW later \in Int, clock <= later
    PROVE  FrequentTagged(changes, later)
<1>1. Len(changes) \in Nat /\ DOMAIN changes = 1..Len(changes)
    BY LenProperties DEF RegistryOK
<1>2. ASSUME NEW t, Cardinality(RecentOf(changes, t, later, FrequencyWindow)) > FrequencyThreshold
      PROVE  IsTagged(changes, t)
    <2> DEFINE A == RecentOf(changes, t, later, FrequencyWindow)
               B == RecentOf(changes, t, clock, FrequencyWindow)
    <2>1. B \subseteq 1..Len(changes)  BY <1>1 DEF RecentOf
    <2>2. A \subseteq B
        <3>1. FrequencyWindow \in Nat  BY ChangeEventsAssumption
        <3>2. \A i \in DOMAIN changes : changes[i].at \in Int  BY DEF RegistryOK
        <3> QED  BY <3>1, <3>2 DEF RecentOf
    <2>3. IsFiniteSet(B)  BY <1>1, <2>1, CountedUp
    <2>4. A \subseteq 1..Len(changes)  BY <2>1, <2>2
    <2>5. Cardinality(A) \in Nat /\ Cardinality(B) \in Nat  BY <1>1, <2>1, <2>4, CountedUp
    <2>6. Cardinality(A) <= Cardinality(B)  BY <2>2, <2>3, FS_Subset
    <2>7. Cardinality(B) > FrequencyThreshold  BY <1>2, <2>5, <2>6, ChangeEventsAssumption
    <2> QED  BY <2>7 DEF FrequentTagged
<1> QED  BY <1>2 DEF FrequentTagged

-----------------------------------------------------------------------------
(* The registry of alerts *)

\* What an alert of an event is about.
EventRef(ev) == IF HasTarget(ev) THEN TargetResourceId(ev) ELSE <<"k8s", ev.kind, ev.name>>

\* The alert of an event is about what the event is about.
AlertOK(a) ==
    /\ DOMAIN a = {"id", "ref", "severity", "status", "fired_at"}
    /\ a.fired_at \in Int /\ a.severity \in {"critical", "warning"}
    /\ a.id[1] = "k8s-events" =>
           \E w \in Worlds : \E ev \in w.events : a.id[2] = ev.uid /\ a.ref = EventRef(ev)

AlertsOK(list) == list \in Seq(Range(list)) /\ \A i \in DOMAIN list : AlertOK(list[i])

AlertRowsOK(stored) == IsFiniteSet(DOMAIN stored) /\ \A id \in DOMAIN stored : AlertOK(stored[id])

LEMMA AlertSet ==
    ASSUME NEW list
    PROVE  AlertsOK(list) <=> \E S : list \in Seq(S) /\ \A a \in S : AlertOK(a)
<1>1. ASSUME AlertsOK(list)  PROVE \E S : list \in Seq(S) /\ \A a \in S : AlertOK(a)
    <2>1. \A a \in Range(list) : AlertOK(a)  BY <1>1 DEF AlertsOK, Range
    <2> QED  BY <1>1, <2>1 DEF AlertsOK
<1>2. ASSUME NEW S, list \in Seq(S), \A a \in S : AlertOK(a)  PROVE AlertsOK(list)
    <2>1. list \in Seq(Range(list))  BY <1>2, SeqOfRange
    <2>2. \A i \in DOMAIN list : list[i] \in S  BY <1>2
    <2> QED  BY <1>2, <2>1, <2>2 DEF AlertsOK
<1> QED  BY <1>1, <1>2

LEMMA AlertsFollow ==
    ASSUME NEW list, AlertsOK(list), NEW more, AlertsOK(more)
    PROVE  AlertsOK(list \o more)
<1>1. PICK S : list \in Seq(S) /\ \A a \in S : AlertOK(a)  BY AlertSet
<1>2. PICK T : more \in Seq(T) /\ \A a \in T : AlertOK(a)  BY AlertSet
<1>3. PICK U : U = S \cup T  OBVIOUS
<1>4. list \in Seq(U) /\ more \in Seq(U)
    <2>1. S \subseteq U /\ T \subseteq U  BY <1>3
    <2> QED  BY <1>1, <1>2, <2>1, SeqMonotonic
<1>5. list \o more \in Seq(U) /\ \A a \in U : AlertOK(a)
    BY <1>1, <1>2, <1>3, <1>4, ConcatProperties
<1> QED  BY <1>5, AlertSet

LEMMA AlertsListed ==
    ASSUME NEW S, \A a \in S : AlertOK(a)
    PROVE  AlertsOK(Listed(S))
BY ListedOnce, AlertSet

LEMMA AlertRowsFollow ==
    ASSUME NEW stored, AlertRowsOK(stored), NEW list, AlertsOK(list)
    PROVE  AlertRowsOK(UpsertEvents(stored, list))
<1>1. PICK new : new = UpsertEvents(stored, list)  OBVIOUS
<1>2. list \in Seq(Range(list))  BY DEF AlertsOK
<1>3. Upserted(stored, list, new)  BY <1>1, <1>2, UpsertWrites
<1>4. Len(list) \in Nat /\ DOMAIN list = 1..Len(list)  BY <1>2, LenProperties
<1>5. PICK ids : ids = {list[i].id : i \in DOMAIN list}  OBVIOUS
<1>6. IsFiniteSet(ids)
    <2>1. PICK f : f = [i \in 1..Len(list) |-> list[i].id]  OBVIOUS
    <2>2. f \in Surjection(1..Len(list), ids)  BY <1>4, <1>5, <2>1 DEF Surjection
    <2> QED  BY <1>4, <2>2, CountedUp, FS_Surjection
<1>7. IsFiniteSet(DOMAIN new)
    <2>1. DOMAIN new = ids \cup DOMAIN stored  BY <1>3, <1>5 DEF Upserted
    <2> QED  BY <1>6, <2>1, FS_Union DEF AlertRowsOK
<1>8. \A id \in DOMAIN new : AlertOK(new[id])
    BY <1>3 DEF Upserted, AlertsOK, AlertRowsOK
<1> QED  BY <1>1, <1>7, <1>8 DEF AlertRowsOK

LEMMA AlertsReadBack ==
    ASSUME AlertRowsOK(alertRows), NEW list \in ListAlertEvents(alertRows)
    PROVE  AlertsOK(list)
<1>1. PICK S : S = Range(alertRows)  OBVIOUS
<1>2. IsFiniteSet(S)
    <2>1. PICK row : row = [id \in DOMAIN alertRows |-> alertRows[id]]  OBVIOUS
    <2>2. row \in Surjection(DOMAIN alertRows, S)  BY <1>1, <2>1 DEF Surjection, Range
    <2> QED  BY <2>2, FS_Surjection DEF AlertRowsOK
<1>3. Cardinality(S) \in Nat  BY <1>2, FS_CardinalityType
<1>4. list \in SetToSeqs(S)  BY <1>1 DEF ListAlertEvents, NewestFirst
<1>5. list \in [1..Cardinality(S) -> S]  BY <1>4 DEF SetToSeqs
<1>6. list \in Seq(S)  BY <1>3, <1>5
<1>7. \A a \in S : AlertOK(a)  BY <1>1 DEF AlertRowsOK, Range
<1> QED  BY <1>6, <1>7, AlertSet

-----------------------------------------------------------------------------
(* The invariant *)

EventsInv ==
    /\ clock \in Nat /\ world \in Worlds
    /\ RegistryOK(changes) /\ FrequentTagged(changes, clock) /\ RowsHold
    /\ AlertsOK(alerts) /\ AlertRowsOK(alertRows)

\* What a step may do to the changes: add some, or bring them into another order.
Kept(from, to) == Range(from) \subseteq Range(to)

LEMMA InitEvents == Init => EventsInv
<1> SUFFICES ASSUME Init  PROVE EventsInv  OBVIOUS
<1> USE DEF Init
<1>1. clock \in Nat /\ world \in Worlds  BY ConsoleAssumption
<1>2. changes = <<>> /\ Len(changes) = 0 /\ DOMAIN changes = {} /\ changes \in Seq(Range(changes))
    OBVIOUS
<1>3. RegistryOK(changes)  BY <1>2 DEF RegistryOK
<1>4. FrequentTagged(changes, clock)
    <2>1. \A t : RecentOf(changes, t, clock, FrequencyWindow) = {}  BY <1>2 DEF RecentOf
    <2>2. Cardinality({}) = 0  BY FS_EmptySet
    <2>3. FrequencyThreshold \in Nat  BY ChangeEventsAssumption
    <2>4. \A t : ~(Cardinality(RecentOf(changes, t, clock, FrequencyWindow)) > FrequencyThreshold)
        <3>1. ASSUME NEW t  PROVE Cardinality(RecentOf(changes, t, clock, FrequencyWindow)) = 0
            BY <2>1, <2>2
        <3> QED  BY <2>3, <3>1
    <2> QED  BY <2>4 DEF FrequentTagged
<1>5. RowsHold  BY <1>2 DEF RowsHold
<1>6. AlertsOK(alerts)  BY DEF AlertsOK, NoAlerts
<1>7. AlertRowsOK(alertRows)
    <2>1. DOMAIN alertRows = {}  OBVIOUS
    <2> QED  BY <2>1, FS_EmptySet DEF AlertRowsOK
<1> QED  BY <1>1, <1>3, <1>4, <1>5, <1>6, <1>7 DEF EventsInv

\* Recording, and writing what was recorded.
LEMMA WrittenToo ==
    ASSUME EventsInv, clock' = clock, RegistryOK(changes'), FrequentTagged(changes', clock),
           Continues(changes, changes'), changeRows' = UpsertEvents(changeRows, Added(changes, changes'))
    PROVE  FrequentTagged(changes, clock)' /\ RowsHold' /\ Kept(changes, changes')
<1>1. PICK new : new = changes'  OBVIOUS
<1>2. PICK stored : stored = UpsertEvents(changeRows, Added(changes, new))  OBVIOUS
<1>3. /\ DOMAIN stored = {new[i].id : i \in DOMAIN new}
      /\ \A i \in DOMAIN new : stored[new[i].id] = new[i]
    <2>1. RegistryOK(changes) /\ RowsHold /\ RegistryOK(new) /\ Continues(changes, new)
        BY <1>1 DEF EventsInv
    <2> QED  BY <1>2, <2>1, RowsFollowRegistry
<1>4. stored = changeRows'  BY <1>1, <1>2
<1>5. RowsHold'  BY <1>1, <1>3, <1>4 DEF RowsHold
<1>6. FrequentTagged(changes, clock)'  BY DEF FrequentTagged, RecentOf
<1>7. Kept(changes, changes')
    <2>1. Len(changes) \in Nat /\ DOMAIN changes = 1..Len(changes)
        BY LenProperties DEF EventsInv, RegistryOK
    <2>2. Len(new) \in Nat /\ DOMAIN new = 1..Len(new)  BY <1>1, LenProperties DEF RegistryOK
    <2>3. \A i \in DOMAIN changes : i \in DOMAIN new /\ new[i] = changes[i]
        BY <1>1, <2>1, <2>2 DEF Continues
    <2> QED  BY <1>1, <2>3 DEF Kept, Range
<1> QED  BY <1>5, <1>6, <1>7

\* A step that leaves the changes alone.
LEMMA ChangesAlone ==
    ASSUME EventsInv, UNCHANGED <<clock, changes, changeRows>>, world' \in Worlds,
           AlertsOK(alerts'), AlertRowsOK(alertRows')
    PROVE  EventsInv' /\ Kept(changes, changes')
<1>1. AlertsOK(alerts)' /\ AlertRowsOK(alertRows)'  OBVIOUS
<1>2. RegistryOK(changes') /\ FrequentTagged(changes', clock')
    BY DEF EventsInv
<1>3. RegistryOK(changes)' /\ FrequentTagged(changes, clock)'  BY <1>2
<1>4. RowsHold'
    <2>1. RowsHold  BY DEF EventsInv
    <2> QED  BY <2>1 DEF RowsHold
<1>5. clock' \in Nat  BY DEF EventsInv
<1> QED  BY <1>1, <1>3, <1>4, <1>5 DEF EventsInv, Kept

LEMMA TickEvents ==
    ASSUME EventsInv, Tick  PROVE EventsInv' /\ Kept(changes, changes')
<1>1. UNCHANGED <<world, changes, changeRows, alerts, alertRows>> /\ clock' = clock + 2
    BY DEF Tick, events
<1>2. clock \in Nat /\ clock' \in Nat /\ clock <= clock'  BY <1>1 DEF EventsInv
<1>3. PICK later : later = clock'  OBVIOUS
<1>4. FrequentTagged(changes, later)  BY <1>2, <1>3, LessFrequentLater DEF EventsInv
<1>5. FrequentTagged(changes, clock)'  BY <1>1, <1>3, <1>4 DEF FrequentTagged, IsTagged, RecentOf
<1> QED  BY <1>1, <1>2, <1>5 DEF EventsInv, RowsHold, Kept

LEMMA MovesEvents ==
    ASSUME EventsInv, WorldMoves  PROVE EventsInv' /\ Kept(changes, changes')
<1>1. UNCHANGED <<clock, changes, changeRows, alerts, alertRows>> /\ world' \in Worlds
    BY DEF WorldMoves, events
<1>2. AlertsOK(alerts') /\ AlertRowsOK(alertRows')  BY <1>1 DEF EventsInv
<1> QED  BY <1>1, <1>2, ChangesAlone

LEMMA SyncEvents ==
    ASSUME EventsInv, Sync  PROVE EventsInv' /\ Kept(changes, changes')
<1>1. PICK next : next = MergeMetricHealth(Resolve(LatestTopologyFacts(UpsertFacts(rows, Batch(world, clock), clock))),
                                           LatestMetricFacts(UpsertFacts(rows, Batch(world, clock), clock)))
    OBVIOUS
<1>2. PICK found : found = IF firstSyncDone THEN DetectChanges(topology, next) ELSE {}  OBVIOUS
<1>3. PICK requests : requests = Listed(found) \o Listed(Reported.k8sEvents.changes)
                                   \o Listed(Reported.flagd.changes)
    OBVIOUS
<1>4. PICK fresh : fresh = Listed(Reported.k8sEvents.alerts) \o Listed(Reported.alertmanager.alerts)
    OBVIOUS
<1>5. /\ changes' = RecordAll(changes, requests, next)
      /\ changeRows' = UpsertEvents(changeRows, Added(changes, changes'))
      /\ alerts' = alerts \o fresh
      /\ alertRows' = UpsertEvents(alertRows, fresh)
      /\ clock' = clock /\ world' = world
    BY <1>1, <1>2, <1>3, <1>4 DEF Sync
<1>6. Len(requests) \in Nat
    <2>1. PICK A : A = Listed(found)  OBVIOUS
    <2>2. PICK B : B = Listed(Reported.k8sEvents.changes)  OBVIOUS
    <2>3. PICK C : C = Listed(Reported.flagd.changes)  OBVIOUS
    <2>4. PICK U : U = found \cup Reported.k8sEvents.changes \cup Reported.flagd.changes  OBVIOUS
    <2>5. A \in Seq(found) /\ B \in Seq(Reported.k8sEvents.changes) /\ C \in Seq(Reported.flagd.changes)
        BY <2>1, <2>2, <2>3, ListedOnce
    <2>6. found \subseteq U /\ Reported.k8sEvents.changes \subseteq U /\ Reported.flagd.changes \subseteq U
        BY <2>4
    <2>7. A \in Seq(U) /\ B \in Seq(U) /\ C \in Seq(U)  BY <2>5, <2>6, SeqMonotonic
    <2>8. A \o B \in Seq(U)  BY <2>7, ConcatProperties
    <2>9. (A \o B) \o C \in Seq(U)  BY <2>7, <2>8, ConcatProperties
    <2>10. requests \in Seq(U)  BY <1>3, <2>1, <2>2, <2>3, <2>9
    <2> QED  BY <2>10, LenProperties
<1>7. RegistryOK(changes') /\ FrequentTagged(changes', clock) /\ Continues(changes, changes')
    <2>1. clock \in Int  BY DEF EventsInv
    <2> QED  BY <1>5, <1>6, <2>1, RecordedAll DEF EventsInv
<1>8. FrequentTagged(changes, clock)' /\ RowsHold' /\ Kept(changes, changes')
    BY <1>5, <1>7, WrittenToo
<1>9. AlertsOK(fresh)
    <2>1. \A a \in Reported.k8sEvents.alerts : AlertOK(a)
        <3>1. ASSUME NEW e \in world.events  PROVE AlertOK(EventToAlert(e, clock))
            <4>1. e.at \in Int /\ world \in Worlds  BY ConsoleAssumption DEF EventsInv
            <4>2. PICK a : a = EventToAlert(e, clock)  OBVIOUS
            <4>3. /\ DOMAIN a = {"id", "ref", "severity", "status", "fired_at"}
                  /\ a.fired_at = e.at /\ a.severity = "warning"
                  /\ a.id[2] = e.uid /\ a.ref = EventRef(e)
                BY <4>2 DEF EventToAlert, EventRef
            <4> QED  BY <4>1, <4>2, <4>3 DEF AlertOK
        <3>2. Reported.k8sEvents = SyncK8sEvents(guests.k8sEvents, world.events, clock)
            BY DEF Reported
        <3>3. \A a \in SyncK8sEvents(guests.k8sEvents, world.events, clock).alerts :
                  \E e \in world.events : a = EventToAlert(e, clock)
            BY DEF SyncK8sEvents
        <3> QED  BY <3>1, <3>2, <3>3
    <2>2. \A a \in Reported.alertmanager.alerts : AlertOK(a)
        <3>1. \A e \in world.alerts : AlertOK(AlertToFact(e))
            <4>1. \A e \in world.alerts : e.starts_at \in Int  BY ConsoleAssumption DEF EventsInv
            <4>2. \A e \in world.alerts : MapSeverity(e.severity) \in {"critical", "warning"}
                BY DEF MapSeverity
            <4> QED  BY <4>1, <4>2 DEF AlertToFact, AlertOK
        <3>2. Reported.alertmanager = SyncAlertmanager(guests.alertmanager, world.alerts)
            BY DEF Reported
        <3>3. \A a \in SyncAlertmanager(guests.alertmanager, world.alerts).alerts :
                  \E e \in world.alerts : a = AlertToFact(e)
            BY DEF SyncAlertmanager
        <3> QED  BY <3>1, <3>2, <3>3
    <2>3. AlertsOK(Listed(Reported.k8sEvents.alerts)) /\ AlertsOK(Listed(Reported.alertmanager.alerts))
        BY <2>1, <2>2, AlertsListed
    <2> QED  BY <1>4, <2>3, AlertsFollow
<1>10. AlertsOK(alerts') /\ AlertRowsOK(alertRows')
    BY <1>5, <1>9, AlertsFollow, AlertRowsFollow DEF EventsInv
<1>11. RegistryOK(changes)' /\ AlertsOK(alerts)' /\ AlertRowsOK(alertRows)'
    BY <1>7, <1>10
<1> QED  BY <1>5, <1>8, <1>11 DEF EventsInv

LEMMA RecordChangeEvents ==
    ASSUME EventsInv, RecordChangeEvent  PROVE EventsInv' /\ Kept(changes, changes')
<1>1. PICK r \in Requests : changes' = RecordChange(changes, topology, [r EXCEPT !.at = At(@)], clock)
    BY DEF RecordChangeEvent
<1>2. /\ changeRows' = UpsertEvents(changeRows, Added(changes, changes'))
      /\ UNCHANGED <<clock, world, alerts, alertRows>>
    BY DEF RecordChangeEvent
<1>3. PICK req : req = [r EXCEPT !.at = At(@)]  OBVIOUS
<1>4. clock \in Int /\ req.at \in Int
    <2>1. "at" \in DOMAIN r /\ r.at \in Int  BY ConsoleAssumption
    <2> QED  BY <1>3, <2>1 DEF At, EventsInv
<1>5. RegistryOK(changes') /\ FrequentTagged(changes', clock) /\ Continues(changes, changes')
    BY <1>1, <1>3, <1>4, RecordedOne DEF EventsInv
<1>6. FrequentTagged(changes, clock)' /\ RowsHold' /\ Kept(changes, changes')
    BY <1>2, <1>5, WrittenToo
<1>7. RegistryOK(changes)' /\ AlertsOK(alerts)' /\ AlertRowsOK(alertRows)'
    BY <1>2, <1>5 DEF EventsInv
<1> QED  BY <1>2, <1>6, <1>7 DEF EventsInv

LEMMA OneAlert ==
    ASSUME NEW a, AlertOK(a)  PROVE AlertsOK(<<a>>)
<1>1. PICK S : S = {a}  OBVIOUS
<1>2. <<a>> \in Seq(S) /\ \A b \in S : AlertOK(b)  BY <1>1
<1>3. PICK list : list = <<a>>  OBVIOUS
<1>4. \E T : list \in Seq(T) /\ \A b \in T : AlertOK(b)  BY <1>2, <1>3
<1>5. AlertsOK(list)  BY <1>4, AlertSet
<1> QED  BY <1>3, <1>5

LEMMA RecordAlertEvents ==
    ASSUME EventsInv, RecordAlert  PROVE EventsInv' /\ Kept(changes, changes')
<1>1. PICK r \in AlertRequests :
          LET alert == [id |-> <<"alert", user'>>, ref |-> r.ref, severity |-> r.severity,
                        status |-> "firing", fired_at |-> At(r.at)]
          IN /\ alerts' = Append(alerts, alert)
             /\ alertRows' = UpsertEvents(alertRows, <<alert>>)
    BY DEF RecordAlert
<1>2. PICK a : a = [id |-> <<"alert", user'>>, ref |-> r.ref, severity |-> r.severity,
                    status |-> "firing", fired_at |-> At(r.at)]
    OBVIOUS
<1>3. alerts' = Append(alerts, a) /\ alertRows' = UpsertEvents(alertRows, <<a>>)
    BY <1>1, <1>2
<1>4. AlertOK(a)
    <2>1. r.at \in Int /\ r.severity \in {"critical", "warning"}  BY ConsoleAssumption
    <2>2. At(r.at) \in Int  BY <2>1 DEF At, EventsInv
    <2> QED  BY <1>2, <2>1, <2>2 DEF AlertOK
<1>5. AlertsOK(<<a>>)  BY <1>4, OneAlert
<1>6. AlertsOK(alerts')
    <2>1. PICK S : alerts \in Seq(S) /\ \A b \in S : AlertOK(b)  BY AlertSet DEF EventsInv
    <2>2. PICK T : T = S \cup {a}  OBVIOUS
    <2>3. alerts \in Seq(T)
        <3>1. S \subseteq T  BY <2>2
        <3> QED  BY <2>1, <3>1, SeqMonotonic
    <2>4. alerts' \in Seq(T)  BY <1>3, <2>2, <2>3, AppendProperties
    <2>5. \A b \in T : AlertOK(b)  BY <1>4, <2>1, <2>2
    <2> QED  BY <2>4, <2>5, AlertSet
<1>7. AlertRowsOK(alertRows')  BY <1>3, <1>5, AlertRowsFollow DEF EventsInv
<1>8. UNCHANGED <<clock, changes, changeRows>> /\ world' \in Worlds  BY DEF EventsInv, RecordAlert
<1> QED  BY <1>6, <1>7, <1>8, ChangesAlone

LEMMA ResolveAlertEvents ==
    ASSUME EventsInv, ResolveAlert  PROVE EventsInv' /\ Kept(changes, changes')
<1>1. PICK i \in DOMAIN alerts :
          /\ alerts' = [alerts EXCEPT ![i].status = "resolved"]
          /\ alertRows' = UpsertEvents(alertRows, <<alerts'[i]>>)
    BY DEF ResolveAlert
<1>2. PICK a : a = [alerts[i] EXCEPT !.status = "resolved"]  OBVIOUS
<1>3. AlertOK(a)
    <2>1. AlertOK(alerts[i])  BY DEF EventsInv, AlertsOK
    <2> QED  BY <1>2, <2>1 DEF AlertOK
<1>4. alerts' = [alerts EXCEPT ![i] = a]  BY <1>1, <1>2
<1>5. alerts'[i] = a  BY <1>4
<1>6. AlertsOK(alerts')
    <2>1. PICK S : alerts \in Seq(S) /\ \A b \in S : AlertOK(b)  BY AlertSet DEF EventsInv
    <2>2. PICK T : T = S \cup {a}  OBVIOUS
    <2>3. alerts \in Seq(T)
        <3>1. S \subseteq T  BY <2>2
        <3> QED  BY <2>1, <3>1, SeqMonotonic
    <2>4. alerts' \in Seq(T)
        <3>1. i \in 1..Len(alerts)  BY <2>3, LenProperties
        <3>2. a \in T  BY <2>2
        <3> QED  BY <1>4, <2>3, <3>1, <3>2, ExceptSeq
    <2>5. \A b \in T : AlertOK(b)  BY <1>3, <2>1, <2>2
    <2> QED  BY <2>4, <2>5, AlertSet
<1>7. AlertRowsOK(alertRows')
    <2>1. AlertsOK(<<a>>)  BY <1>3, OneAlert
    <2> QED  BY <1>1, <1>5, <2>1, AlertRowsFollow DEF EventsInv
<1>8. UNCHANGED <<clock, changes, changeRows>> /\ world' \in Worlds  BY DEF EventsInv, ResolveAlert
<1> QED  BY <1>6, <1>7, <1>8, ChangesAlone

LEMMA RestartEvents ==
    ASSUME EventsInv, Restart  PROVE EventsInv' /\ Kept(changes, changes')
<1>1. /\ changes' \in ListChangeEvents(changeRows)
      /\ alerts' \in ListAlertEvents(alertRows)
      /\ UNCHANGED <<clock, world, changeRows, alertRows>>
    BY DEF Restart
<1>2. PICK new : new = changes'  OBVIOUS
<1>3. /\ RegistryOK(new) /\ FrequentTagged(new, clock)
      /\ DOMAIN changeRows = {new[i].id : i \in DOMAIN new}
      /\ \A i \in DOMAIN new : changeRows[new[i].id] = new[i]
    BY <1>1, <1>2, ReadBackKept DEF EventsInv
<1>4. RegistryOK(changes)' /\ FrequentTagged(changes, clock)' /\ RowsHold'
    <2>1. RegistryOK(changes') /\ FrequentTagged(changes', clock')  BY <1>1, <1>2, <1>3
    <2>2. RowsHold'  BY <1>1, <1>2, <1>3 DEF RowsHold
    <2> QED  BY <2>1, <2>2
<1>5. AlertsOK(alerts)' /\ AlertRowsOK(alertRows)'
    <2>1. AlertsOK(alerts')  BY <1>1, AlertsReadBack DEF EventsInv
    <2> QED  BY <1>1, <2>1 DEF EventsInv
<1>6. Kept(changes, changes')
    <2>1. Range(new) = Range(changes)  BY <1>1, <1>2, ReadBackOnce DEF EventsInv
    <2> QED  BY <1>2, <2>1 DEF Kept
<1> QED  BY <1>1, <1>4, <1>5, <1>6 DEF EventsInv

LEMMA NextEvents ==
    ASSUME EventsInv, [Next]_vars  PROVE EventsInv' /\ (changes' = changes \/ Kept(changes, changes'))
<1>1. CASE Tick  BY <1>1, TickEvents
<1>2. CASE WorldMoves  BY <1>2, MovesEvents
<1>3. CASE Sync  BY <1>3, SyncEvents
<1>4. CASE RecordChangeEvent  BY <1>4, RecordChangeEvents
<1>5. CASE RecordAlert  BY <1>5, RecordAlertEvents
<1>6. CASE ResolveAlert  BY <1>6, ResolveAlertEvents
<1>7. CASE Restart  BY <1>7, RestartEvents
<1>8. CASE UNCHANGED vars
    <2>1. UNCHANGED <<clock, world, changes, changeRows, alerts, alertRows>>
        BY <1>8 DEF vars, events
    <2>2. AlertsOK(alerts') /\ AlertRowsOK(alertRows') /\ world' \in Worlds  BY <2>1 DEF EventsInv
    <2> QED  BY <2>1, <2>2, ChangesAlone
<1> QED  BY <1>1, <1>2, <1>3, <1>4, <1>5, <1>6, <1>7, <1>8 DEF Next, Command

-----------------------------------------------------------------------------
(* The correlation *)

\* Between whole seconds the strings are ordered as the instants are, and a
\* window of whole seconds ends at one.
LEMMA SameWindow ==
    ASSUME NEW at \in Int, NEW fired \in Int, NEW w \in Nat, at % 2 = 0, fired % 2 = 0, w % 2 = 0
    PROVE  (NotBefore(fired, ShiftIso(at, -w)) /\ NotAfter(fired, ShiftIso(at, w)))
              <=> SecondsBetween(at, fired) <= w \div 2
<1>1. PICK a \in Int : at = 2 * a  OBVIOUS
<1>2. PICK f \in Int : fired = 2 * f  OBVIOUS
<1>3. PICK v \in Nat : w = 2 * v  OBVIOUS
<1>4. ShiftIso(at, -w) = at - w /\ ShiftIso(at, w) = at + w
    <2>1. (at + -w) % 2 = 0 /\ (at + w) % 2 = 0  BY <1>1, <1>3
    <2> QED  BY <2>1 DEF ShiftIso
<1>5. Lexical(fired) = fired + 1 /\ Lexical(at - w) = at - w + 1 /\ Lexical(at + w) = at + w + 1
    <2>1. (at - w) % 2 = 0 /\ (at + w) % 2 = 0  BY <1>1, <1>3
    <2> QED  BY <2>1 DEF Lexical
<1>6. (NotBefore(fired, ShiftIso(at, -w)) /\ NotAfter(fired, ShiftIso(at, w)))
          <=> (fired >= at - w /\ fired <= at + w)
    BY <1>4, <1>5 DEF NotBefore, NotAfter
<1>7. (fired >= at - w /\ fired <= at + w) <=> (f - a <= v /\ a - f <= v)
    BY <1>1, <1>2, <1>3
<1>8. w \div 2 = v  BY <1>3
<1>9. SecondsBetween(at, fired) = IF a > f THEN a - f ELSE f - a
    <2>1. CASE a > f
        <3>1. at > fired /\ at - fired = 2 * (a - f)  BY <1>1, <1>2, <2>1
        <3>2. (at - fired) \div 2 = a - f  BY <3>1
        <3> QED  BY <2>1, <3>1, <3>2 DEF SecondsBetween
    <2>2. CASE ~(a > f)
        <3>1. ~(at > fired) /\ fired - at = 2 * (f - a)  BY <1>1, <1>2, <2>2
        <3>2. (fired - at) \div 2 = f - a  BY <3>1
        <3> QED  BY <2>2, <3>1, <3>2 DEF SecondsBetween
    <2> QED  BY <2>1, <2>2
<1> QED  BY <1>6, <1>7, <1>8, <1>9

\* What is looked up by its id is there; and it is the change itself.
LEMMA GetChange ==
    ASSUME RegistryOK(changes), NEW i \in DOMAIN changes
    PROVE  Get(changes, changes[i].id) = changes[i]
<1>1. PICK P : P = {j \in DOMAIN changes : changes[j].id = changes[i].id}  OBVIOUS
<1>2. P = {i}  BY <1>1 DEF RegistryOK
<1>3. i \in Nat  BY LenProperties DEF RegistryOK
<1>4. P \in SUBSET Nat /\ P # {}  BY <1>2, <1>3
<1>5. Min(P) = i  BY <1>2, <1>4, MinIsThere
<1> QED  BY <1>1, <1>5 DEF Get

LEMMA GetAlert ==
    ASSUME AlertsOK(alerts), NEW k \in DOMAIN alerts, NEW a, a = Get(alerts, alerts[k].id)
    PROVE  /\ a \in Range(alerts) /\ a.fired_at \in Int
           /\ Known(alerts, a.id) /\ Get(alerts, a.id) = a
<1>1. PICK P : P = {j \in DOMAIN alerts : alerts[j].id = alerts[k].id}  OBVIOUS
<1>2. P \in SUBSET Nat /\ P # {}
    <2>1. \A j \in DOMAIN alerts : j \in Nat  BY LenProperties DEF AlertsOK
    <2> QED  BY <1>1, <2>1
<1>3. PICK m : m = Min(P)  OBVIOUS
<1>4. m \in P  BY <1>2, <1>3, MinIsThere
<1>5. m \in DOMAIN alerts /\ alerts[m].id = alerts[k].id  BY <1>1, <1>4
<1>6. a = alerts[m]  BY <1>1, <1>3 DEF Get
<1>7. Get(alerts, a.id) = a
    <2>1. a.id = alerts[k].id  BY <1>5, <1>6
    <2> QED  BY <2>1
<1>8. a.fired_at \in Int  BY <1>5, <1>6 DEF AlertsOK, AlertOK
<1> QED  BY <1>5, <1>6, <1>7, <1>8 DEF Known, Range

LEMMA MutualNow ==
    ASSUME EventsInv  PROVE CorrelationIsMutual
<1> SUFFICES ASSUME NEW k \in DOMAIN alerts, NEW i \in DOMAIN changes,
                    NEW a, a = Get(alerts, alerts[k].id), NEW c, c = changes[i],
                    a.fired_at > 0, a.fired_at % 2 = 0, c.at % 2 = 0,
                    NEW near \in {ChangeWindow, AlertWindow}, NEW far \in {ChangeWindow, AlertWindow},
                    near <= far
             PROVE  c \in CorrelateChangesForAlert(changes, alerts, a.id, near)
                       <=> /\ a \in CorrelateAlerts(changes, alerts, c.id, far)
                           /\ SecondsBetween(c.at, a.fired_at) <= near \div 2
    BY Zenon DEF CorrelationIsMutual
<1>1. /\ a \in Range(alerts) /\ a.fired_at \in Int
      /\ Known(alerts, a.id) /\ Get(alerts, a.id) = a
    BY GetAlert DEF EventsInv
<1>2. Get(changes, c.id) = c /\ c \in Range(changes) /\ c.at \in Int
    BY GetChange DEF EventsInv, Range, RegistryOK
<1>3. near \in Nat /\ far \in Nat /\ far % 2 = 0  BY ConsoleAssumption DEF Windows
<1>4. a \in CorrelateAlerts(changes, alerts, c.id, far) <=>
        /\ NotBefore(a.fired_at, ShiftIso(c.at, -far)) /\ NotAfter(a.fired_at, ShiftIso(c.at, far))
        /\ Concerns(c, a.ref)
    BY <1>1, <1>2 DEF CorrelateAlerts, ListAlerts
<1>5. c \in CorrelateChangesForAlert(changes, alerts, a.id, near) <=>
        Concerns(c, a.ref) /\ SecondsBetween(c.at, a.fired_at) <= near \div 2
    BY <1>1, <1>2 DEF CorrelateChangesForAlert, ChangesAround
<1>6. (NotBefore(a.fired_at, ShiftIso(c.at, -far)) /\ NotAfter(a.fired_at, ShiftIso(c.at, far)))
          <=> SecondsBetween(c.at, a.fired_at) <= far \div 2
    BY <1>1, <1>2, <1>3, SameWindow
<1>7. SecondsBetween(c.at, a.fired_at) <= near \div 2 => SecondsBetween(c.at, a.fired_at) <= far \div 2
    <2>1. SecondsBetween(c.at, a.fired_at) \in Int  BY <1>1, <1>2 DEF SecondsBetween
    <2>2. near \div 2 <= far \div 2  BY <1>3
    <2> QED  BY <1>3, <2>1, <2>2
<1> QED  BY <1>4, <1>5, <1>6, <1>7

-----------------------------------------------------------------------------
(* What a sync reads *)

\* The names of a list are those of one object each, and the ReplicaSet of a
\* Deployment has its name.
LEMMA ListsNamed ==
    ASSUME NEW w \in Worlds, NEW list \in {"nodes", "deployments", "replicasets", "pods", "services",
                                          "configmaps", "secrets"}
    PROVE  /\ Lists(w)[list] \subseteq w.cluster[list]
           /\ \A o \in Lists(w)[list] : o.name # <<>>
           /\ \A o, p \in Lists(w)[list] : o.name = p.name => o = p
<1>1. list \in DOMAIN w.cluster  BY ClusterAssumption
<1>2. Lists(w)[list] = IF list \in w.unanswered THEN {} ELSE w.cluster[list]
    BY <1>1 DEF Lists, Answers
<1>3. Lists(w)[list] \subseteq w.cluster[list]  BY <1>2
<1>4. \A o, p \in w.cluster[list] : o.name # <<>> /\ (o.name = p.name => o = p)
    BY <1>1, ClusterAssumption
<1> QED  BY <1>3, <1>4

LEMMA ImagesOrdered == OrderedIds(ImageIds)
BY ImagesAssumption DEF OrderedIds

\* Every fact has the shape of its connector, and the time of the sync.
LEMMA BatchShape ==
    ASSUME NEW w \in Worlds, NEW now
    PROVE  \A f \in Batch(w, now) : FactOK(f, ImageIds) /\ f.ts = now
<1>1. \A f \in MapCluster(Lists(w), now) : FactOK(f, ImageIds) /\ f.ts = now
    <2>1. ASSUME NEW p \in Lists(w).pods  PROVE ImagesIn(p.containers, ImageIds)
        <3>1. p \in w.cluster.pods  BY ListsNamed
        <3>2. \A c \in p.containers : c.image \in ImagesOf(w)  BY <3>1 DEF ImagesOf
        <3>3. \A i \in ImagesOf(w) : ImageId(i) \in ImageIds  BY DEF ImageIds
        <3> QED  BY <3>2, <3>3 DEF ImagesIn
    <2> QED  BY <2>1, ClusterOK, ClusterNow DEF FactOK
<1>2. SyncK8s(w.cluster, w.unanswered, now) = MapCluster(Lists(w), now)  BY DEF SyncK8s, Lists
<1>3. \A f \in SyncJaeger(w.traces, w.answered, now) : FactOK(f, ImageIds) /\ f.ts = now
    BY TracesOK DEF FactOK
<1>4. \A f \in SyncCodeRepo(w.tree, w.roots, now) : FactOK(f, ImageIds) /\ f.ts = now
    <2>1. ASSUME NEW d \in Entered(w.tree, w.roots)  PROVE SourcesIn(w.tree[d], ImageIds)
        <3>1. ASSUME "Dockerfile" \in DOMAIN w.tree[d].files
              PROVE  ParseDockerfile(w.tree[d].files["Dockerfile"]) \subseteq SourceImagesOf(w)
            BY <3>1 DEF SourceImagesOf
        <3>2. \A i \in SourceImagesOf(w) : IsImage(i)  BY ImagesAssumption DEF IsImage
        <3>3. \A i \in SourceImagesOf(w) : ImageRefId(i) \in ImageIds  BY DEF ImageIds
        <3> QED  BY <3>1, <3>2, <3>3 DEF SourcesIn
    <2> QED  BY <2>1, ReposOK DEF FactOK
<1>5. \A f \in SyncPrometheus(w.samples, {}, now) : FactOK(f, ImageIds) /\ f.ts = now
    <2>1. \A s \in w.samples : s.value \in Int  BY ConsoleAssumption
    <2> QED  BY <2>1, SamplesOK DEF FactOK
<1> QED  BY <1>1, <1>2, <1>3, <1>4, <1>5 DEF Batch

\* A sync of this world, from these rows.
Synchronized(before, w, now, F, G) ==
    /\ w \in Worlds /\ now \in Nat /\ FactsOK(before, ImageIds, now)
    /\ F = LatestTopologyFacts(UpsertFacts(before, Batch(w, now), now))
    /\ G = Resolve(F)

LEMMA SyncedFacts ==
    ASSUME NEW before, NEW w, NEW now, NEW F, NEW G, Synchronized(before, w, now, F, G)
    PROVE  /\ FactsOK(UpsertFacts(before, Batch(w, now), now), ImageIds, now)
           /\ FactsOK(F, ImageIds, now) /\ OneEach(F) /\ TopologyOK(G) /\ NodesTyped(G)
           /\ \A r \in DOMAIN G.nodes : \E f \in Nodes(F) :
                  /\ f.rid = r /\ Stands(F, r) = r /\ NodeOK(f, ImageIds)
                  /\ G.nodes[r] = [type |-> f.type, attrs |-> f.attrs]
<1>1. FactsOK(UpsertFacts(before, Batch(w, now), now), ImageIds, now)
    BY BatchShape, StoredOK DEF Synchronized
<1>2. FactsOK(F, ImageIds, now) /\ OneEach(F)  BY <1>1, LatestOK DEF Synchronized
<1>3. /\ TopologyOK(G)
      /\ \A r : r \in DOMAIN G.nodes <=> \E f \in Nodes(F) : f.rid = r /\ Stands(F, r) = r
      /\ \A f \in Nodes(F) : Stands(F, f.rid) = f.rid => G.nodes[f.rid] = [type |-> f.type, attrs |-> f.attrs]
    BY <1>2, ImagesOrdered, ResolvedGraph DEF Synchronized
<1>4. ASSUME NEW r \in DOMAIN G.nodes
      PROVE  \E f \in Nodes(F) : /\ f.rid = r /\ Stands(F, r) = r /\ NodeOK(f, ImageIds)
                                 /\ G.nodes[r] = [type |-> f.type, attrs |-> f.attrs]
    <2>1. PICK f \in Nodes(F) : f.rid = r /\ Stands(F, r) = r  BY <1>3
    <2>2. NodeOK(f, ImageIds)  BY <1>2, NodeShape
    <2> QED  BY <1>3, <2>1, <2>2
<1>5. NodesTyped(G)
    <2>1. ASSUME NEW r \in DOMAIN G.nodes
          PROVE  G.nodes[r] = [type |-> G.nodes[r].type, attrs |-> G.nodes[r].attrs]
        <3>1. PICK f : G.nodes[r] = [type |-> f.type, attrs |-> f.attrs]  BY <1>4
        <3> QED  BY <3>1
    <2> QED  BY <2>1 DEF NodesTyped
<1> QED  BY <1>1, <1>2, <1>3, <1>4, <1>5

\* A node of the sync is in the graph, and so is an edge between such nodes.
LEMMA SyncedNode ==
    ASSUME NEW before, NEW w, NEW now, NEW F, NEW G, Synchronized(before, w, now, F, G),
           NEW f \in MapCluster(Lists(w), now), f.kind = "topology-node", f.rid[1] \notin ImageTags
    PROVE  f.rid \in DOMAIN G.nodes
<1>1. f \in Batch(w, now)  BY DEF Batch, SyncK8s, Lists
<1>2. Stands(F, f.rid) \in DOMAIN G.nodes
    BY <1>1, BatchShape, ImagesOrdered, FreshNode DEF Synchronized
<1>3. Stands(F, f.rid) = f.rid  BY SyncedFacts, ImagesOrdered, StandsKeeps
<1> QED  BY <1>2, <1>3

LEMMA SyncedEdge ==
    ASSUME NEW before, NEW w, NEW now, NEW F, NEW G, Synchronized(before, w, now, F, G),
           NEW type, NEW s, NEW t, EdgeFact(now, type, s, t) \in MapCluster(Lists(w), now),
           s[1] \notin ImageTags, t[1] \notin ImageTags, s[1] # t[1],
           s \in DOMAIN G.nodes, t \in DOMAIN G.nodes
    PROVE  Edge(s, t, type) \in G.edges
<1>1. PICK f : f = EdgeFact(now, type, s, t)  OBVIOUS
<1>2. f \in Batch(w, now)  BY <1>1 DEF Batch, SyncK8s, Lists
<1>3. /\ f.kind = "topology-edge" /\ f.attrs.source = s /\ f.attrs.target = t /\ f.attrs.edge_type = type
    BY <1>1 DEF EdgeFact
<1>4. EdgeOK(f)
    <2>1. FactOK(f, ImageIds)  BY <1>2, BatchShape DEF Synchronized
    <2> QED  BY <1>3, <2>1 DEF FactOK, NodeOK, MetricOK
<1>5. Stands(F, s) = s /\ Stands(F, t) = t  BY SyncedFacts, ImagesOrdered, StandsKeeps
<1>6. s # t  OBVIOUS
<1>7. \A g \in Batch(w, now) : FactOK(g, ImageIds) /\ g.ts = now  BY BatchShape DEF Synchronized
<1> QED  BY <1>2, <1>3, <1>4, <1>5, <1>6, <1>7, ImagesOrdered, FreshEdge DEF Synchronized

-----------------------------------------------------------------------------
(* What the graph of a sync shows of the world *)

\* A pod, with the Deployment that owns it.
PodsOwned(w, G) ==
    \A p \in Lists(w).pods :
        /\ PodId(p.name) \in DOMAIN G.nodes
        /\ \A d \in Owners({p}, Lists(w)) :
               d \in DOMAIN G.nodes /\ Edge(d, PodId(p.name), "CONTAINS") \in G.edges

\* The use of a ConfigMap or Secret that is there.
UsesShown(w, G) ==
    \A r \in DOMAIN G.nodes : \A p \in Users(Lists(w), r) : Edge(PodId(p.name), r, "USES") \in G.edges

\* A service, with the pods it routes to.
ServicesShown(w, G) ==
    \A s \in Lists(w).services :
        /\ ServiceId(s.name) \in DOMAIN G.nodes
        /\ \A p \in Lists(w).pods : LabelsMatch(p.labels, s.selector) =>
               Edge(ServiceId(s.name), PodId(p.name), "ROUTES_TO") \in G.edges

\* A node, with the pods on it.
NodesShown(w, G) ==
    \A n \in Lists(w).nodes :
        /\ NodeId(n.name) \in DOMAIN G.nodes
        /\ \A p \in Lists(w).pods : p.node = n.name =>
               Edge(PodId(p.name), NodeId(n.name), "SCHEDULED_ON") \in G.edges

DataShown(w, G) == TargetsOf(w) \subseteq DOMAIN G.nodes

\* What is a ConfigMap, a Secret, a Deployment or a Pod is one by its id.
DataTyped(G) ==
    \A r \in DOMAIN G.nodes : /\ G.nodes[r].type = "ConfigMap" <=> r[1] = "cm"
                              /\ G.nodes[r].type = "Secret" <=> r[1] = "secret"
                              /\ G.nodes[r].type = "Deployment" <=> r[1] = "deploy"
                              /\ G.nodes[r].type = "Pod" <=> r[1] = "pod"

\* The Deployment of a pod is one.
LEMMA OneOwner ==
    ASSUME NEW w \in Worlds, NEW p, NEW d \in DeployOf(p.rs, Lists(w).replicasets)
    PROVE  PodParent(p, Lists(w).replicasets) = DeployId(d)
<1>1. PICK owners : owners = DeployOf(p.rs, Lists(w).replicasets)  OBVIOUS
<1>2. \A x, y \in Lists(w)["replicasets"] : x.name = y.name => x = y  BY ListsNamed
<1>3. \A x, y \in owners : x = y
    <2>1. \A x \in owners : \E s \in Lists(w).replicasets : s.name = p.rs /\ x = s.deploy
        BY <1>1 DEF DeployOf
    <2> QED  BY <1>2, <2>1
<1>4. (CHOOSE x \in owners : TRUE) = d  BY <1>1, <1>3
<1> QED  BY <1>1, <1>4 DEF PodParent

\* A pod's fact is the only one of the pod.
LEMMA SyncedPod ==
    ASSUME NEW before, NEW w, NEW now, NEW F, NEW G, Synchronized(before, w, now, F, G),
           NEW p \in Lists(w).pods
    PROVE  /\ PodId(p.name) \in DOMAIN G.nodes
           /\ \E g \in Nodes(F) : /\ g.rid = PodId(p.name) /\ Stands(F, g.rid) = g.rid
                                  /\ g.attrs = PodFact(p, Lists(w), now).attrs
<1>1. PICK f : f = PodFact(p, Lists(w), now)  OBVIOUS
<1>2. f \in MapCluster(Lists(w), now)
    <2>1. f \in MapPod(p, Lists(w), now)  BY <1>1 DEF PodFact, MapPod
    <2> QED  BY <2>1 DEF MapCluster
<1>3. f.kind = "topology-node" /\ f.rid = PodId(p.name) /\ f.rid[1] = "pod"
    BY <1>1 DEF PodFact, NodeFact, PodId
<1>4. \A r : r[1] = "pod" => r[1] \notin ImageTags /\ r[1] \notin RepoTags  BY DEF ImageTags, RepoTags
<1>5. f.rid \in DOMAIN G.nodes  BY <1>2, <1>3, <1>4, SyncedNode
<1>6. f \in Batch(w, now)  BY <1>2 DEF Batch, SyncK8s, Lists
<1>7. PICK h \in Batch(w, now), g \in Nodes(F) :
          h.rid = f.rid /\ h.kind = "topology-node" /\ g.rid = f.rid /\ g.attrs = h.attrs
    <2>1. \A b \in Batch(w, now) : FactOK(b, ImageIds) /\ b.ts = now  BY BatchShape DEF Synchronized
    <2> QED  BY <1>3, <1>6, <2>1, ImagesOrdered, FreshNode DEF Synchronized
<1>8. h \in MapCluster(Lists(w), now)
    <2>1. \A b \in SyncJaeger(w.traces, w.answered, now) : b.kind = "topology-edge"
        <3>1. \A b \in SyncJaeger(w.traces, w.answered, now) : EdgeOK(b)  BY TracesOK
        <3> QED  BY <3>1 DEF EdgeOK
    <2>2. \A b \in SyncPrometheus(w.samples, {}, now) : b.kind = "metric"  BY DEF SyncPrometheus
    <2>3. \A b \in SyncCodeRepo(w.tree, w.roots, now) : b.source = "code-repo"
        BY ReposFrom
    <2>4. h.source = "k8s"
        <3>1. FactOK(h, ImageIds)  BY BatchShape DEF Synchronized
        <3>2. NodeOK(h, ImageIds)  BY <1>7, <3>1 DEF FactOK, EdgeOK, MetricOK
        <3> QED  BY <1>3, <1>4, <1>7, <3>2 DEF NodeOK
    <2> QED  BY <1>7, <2>1, <2>2, <2>3, <2>4 DEF Batch, SyncK8s, Lists
<1>9. PICK q \in Lists(w).pods : h = PodFact(q, Lists(w), now)  BY <1>3, <1>7, <1>8, PodFacts
<1>10. q = p
    <2>1. h.rid = PodId(q.name)  BY <1>9 DEF PodFact, NodeFact
    <2>2. <<"pod", q.name>> = <<"pod", p.name>>  BY <1>3, <1>7, <2>1 DEF PodId
    <2>3. q.name = p.name  BY <2>2
    <2>4. \A x, y \in Lists(w)["pods"] : x.name = y.name => x = y  BY ListsNamed DEF Synchronized
    <2> QED  BY <2>3, <2>4
<1>11. Stands(F, g.rid) = g.rid  BY <1>3, <1>4, <1>7, SyncedFacts, ImagesOrdered, StandsKeeps
<1> QED  BY <1>3, <1>5, <1>7, <1>9, <1>10, <1>11

LEMMA SyncedOwners ==
    ASSUME NEW before, NEW w, NEW now, NEW F, NEW G, Synchronized(before, w, now, F, G)
    PROVE  PodsOwned(w, G)
<1> SUFFICES ASSUME NEW p \in Lists(w).pods
             PROVE  /\ PodId(p.name) \in DOMAIN G.nodes
                    /\ \A r \in Owners({p}, Lists(w)) :
                           r \in DOMAIN G.nodes /\ Edge(r, PodId(p.name), "CONTAINS") \in G.edges
    BY DEF PodsOwned
<1>1. PodId(p.name) \in DOMAIN G.nodes  BY SyncedPod
<1>2. PICK g \in Nodes(F) : /\ g.rid = PodId(p.name) /\ Stands(F, g.rid) = g.rid
                            /\ g.attrs = PodFact(p, Lists(w), now).attrs
    BY SyncedPod
<1>3. ASSUME NEW r \in Owners({p}, Lists(w))
      PROVE  r \in DOMAIN G.nodes /\ Edge(r, PodId(p.name), "CONTAINS") \in G.edges
    <2>1. PICK e \in Lists(w).deployments : /\ r = DeployId(e.name)
                                            /\ e.name \in DeployOf(p.rs, Lists(w).replicasets)
        BY <1>3 DEF Owners
    <2>2. r \in DOMAIN G.nodes
        <3>1. PICK f : f = NodeFact(now, DeployId(e.name), "Deployment",
                                    Filled(DeploySignals(e), ChildOf(NamespaceId, "normal")))
            OBVIOUS
        <3>2. f \in MapDeployments(Lists(w), now)  BY <3>1 DEF MapDeployments
        <3>3. f \in MapCluster(Lists(w), now)  BY <3>2 DEF MapCluster
        <3>4. f.kind = "topology-node" /\ f.rid = r /\ f.rid[1] \notin ImageTags
            BY <2>1, <3>1 DEF NodeFact, DeployId, ImageTags
        <3> QED  BY <3>3, <3>4, SyncedNode
    <2>3. PodParent(p, Lists(w).replicasets) = r  BY <2>1, OneOwner DEF Synchronized
    <2>4. "parent_resource_id" \in DOMAIN g.attrs /\ g.attrs.parent_resource_id = r
        <3>1. PICK own : own = [phase |-> p.phase]  OBVIOUS
        <3>2. DOMAIN own \cap {"parent_resource_id", "health_status", "metric", "correlation_keys"} = {}
            BY <3>1
        <3>3. ChildAttrsOK(Filled(own, ChildOf(r, PodHealth(p))), r, PodHealth(p))
            BY <3>2, ChildWithMore
        <3>4. g.attrs = Filled(own, ChildOf(r, PodHealth(p)))
            BY <1>2, <2>3, <3>1 DEF PodFact, NodeFact
        <3> QED  BY <3>3, <3>4 DEF ChildAttrsOK
    <2>5. \A q \in Nodes(F) :
              /\ "parent_resource_id" \in DOMAIN q.attrs
              /\ q.rid \in DOMAIN G.nodes /\ q.attrs.parent_resource_id \in DOMAIN G.nodes
              => Edge(q.attrs.parent_resource_id, q.rid, "CONTAINS") \in G.edges
        BY SyncedFacts, ImagesOrdered, ResolvedGraph DEF Synchronized
    <2> QED  BY <1>1, <1>2, <2>2, <2>4, <2>5
<1> QED  BY <1>1, <1>3

LEMMA SyncedUses ==
    ASSUME NEW before, NEW w, NEW now, NEW F, NEW G, Synchronized(before, w, now, F, G)
    PROVE  UsesShown(w, G)
<1> SUFFICES ASSUME NEW r \in DOMAIN G.nodes, NEW p \in Users(Lists(w), r)
             PROVE  Edge(PodId(p.name), r, "USES") \in G.edges
    BY DEF UsesShown
<1>1. /\ p \in Lists(w).pods
      /\ \/ \E c \in CmRefs(p) : r = ConfigMapId(c)
         \/ \E s \in SecretRefs(p) : r = SecretId(s)
    BY DEF Users
<1>2. PodId(p.name) \in DOMAIN G.nodes  BY <1>1, SyncedPod
<1>3. EdgeFact(now, "USES", PodId(p.name), r) \in MapPod(p, Lists(w), now)  BY <1>1 DEF MapPod
<1>4. EdgeFact(now, "USES", PodId(p.name), r) \in MapCluster(Lists(w), now)  BY <1>1, <1>3 DEF MapCluster
<1>5. PodId(p.name)[1] = "pod" /\ r[1] \in {"cm", "secret"}  BY <1>1 DEF PodId, ConfigMapId, SecretId
<1>6. PodId(p.name)[1] \notin ImageTags /\ r[1] \notin ImageTags /\ PodId(p.name)[1] # r[1]
    BY <1>5 DEF ImageTags
<1> QED  BY <1>2, <1>4, <1>6, SyncedEdge

LEMMA SyncedServices ==
    ASSUME NEW before, NEW w, NEW now, NEW F, NEW G, Synchronized(before, w, now, F, G)
    PROVE  ServicesShown(w, G)
<1> SUFFICES ASSUME NEW s \in Lists(w).services
             PROVE  /\ ServiceId(s.name) \in DOMAIN G.nodes
                    /\ \A p \in Lists(w).pods : LabelsMatch(p.labels, s.selector) =>
                           Edge(ServiceId(s.name), PodId(p.name), "ROUTES_TO") \in G.edges
    BY DEF ServicesShown
<1>1. ServiceId(s.name) \in DOMAIN G.nodes
    <2>1. PICK f : f = NodeFact(now, ServiceId(s.name), "Service", ChildOf(NamespaceId, "normal"))  OBVIOUS
    <2>2. f \in MapServices(Lists(w), now)  BY <2>1 DEF MapServices
    <2>3. f \in MapCluster(Lists(w), now)  BY <2>2 DEF MapCluster
    <2>4. f.kind = "topology-node" /\ f.rid = ServiceId(s.name) /\ f.rid[1] \notin ImageTags
        BY <2>1 DEF NodeFact, ServiceId, ImageTags
    <2> QED  BY <2>3, <2>4, SyncedNode
<1>2. ASSUME NEW p \in Lists(w).pods, LabelsMatch(p.labels, s.selector)
      PROVE  Edge(ServiceId(s.name), PodId(p.name), "ROUTES_TO") \in G.edges
    <2>1. p.name \in Selected(Lists(w).pods, s.selector)  BY <1>2 DEF Selected
    <2>2. EdgeFact(now, "ROUTES_TO", ServiceId(s.name), PodId(p.name)) \in MapServices(Lists(w), now)
        BY <2>1 DEF MapServices
    <2>3. EdgeFact(now, "ROUTES_TO", ServiceId(s.name), PodId(p.name)) \in MapCluster(Lists(w), now)
        BY <2>2 DEF MapCluster
    <2>4. PodId(p.name) \in DOMAIN G.nodes  BY SyncedPod
    <2>5. PodId(p.name)[1] = "pod" /\ ServiceId(s.name)[1] = "service"  BY DEF PodId, ServiceId
    <2>6. /\ PodId(p.name)[1] \notin ImageTags /\ ServiceId(s.name)[1] \notin ImageTags
          /\ PodId(p.name)[1] # ServiceId(s.name)[1]
        BY <2>5 DEF ImageTags
    <2> QED  BY <1>1, <2>3, <2>4, <2>6, SyncedEdge
<1> QED  BY <1>1, <1>2

LEMMA SyncedNodes ==
    ASSUME NEW before, NEW w, NEW now, NEW F, NEW G, Synchronized(before, w, now, F, G)
    PROVE  NodesShown(w, G)
<1> SUFFICES ASSUME NEW n \in Lists(w).nodes
             PROVE  /\ NodeId(n.name) \in DOMAIN G.nodes
                    /\ \A p \in Lists(w).pods : p.node = n.name =>
                           Edge(PodId(p.name), NodeId(n.name), "SCHEDULED_ON") \in G.edges
    BY DEF NodesShown
<1>1. NodeId(n.name) \in DOMAIN G.nodes
    <2>1. PICK f : f = NodeFact(now, NodeId(n.name), "Node", ChildOf(ClusterId, NodeHealth(n)))  OBVIOUS
    <2>2. f \in MapNodes(Lists(w), now)  BY <2>1 DEF MapNodes
    <2>3. f \in MapCluster(Lists(w), now)  BY <2>2 DEF MapCluster
    <2>4. f.kind = "topology-node" /\ f.rid = NodeId(n.name) /\ f.rid[1] \notin ImageTags
        BY <2>1 DEF NodeFact, NodeId, ImageTags
    <2> QED  BY <2>3, <2>4, SyncedNode
<1>2. ASSUME NEW p \in Lists(w).pods, p.node = n.name
      PROVE  Edge(PodId(p.name), NodeId(n.name), "SCHEDULED_ON") \in G.edges
    <2>1. \A o \in Lists(w)["nodes"] : o.name # <<>>  BY ListsNamed DEF Synchronized
    <2>2. n.name \in {p.node} \ {<<>>}  BY <1>2, <2>1
    <2>3. EdgeFact(now, "SCHEDULED_ON", PodId(p.name), NodeId(n.name)) \in MapPod(p, Lists(w), now)
        BY <2>2 DEF MapPod
    <2>4. EdgeFact(now, "SCHEDULED_ON", PodId(p.name), NodeId(n.name)) \in MapCluster(Lists(w), now)
        BY <2>3 DEF MapCluster
    <2>5. PodId(p.name) \in DOMAIN G.nodes  BY SyncedPod
    <2>6. PodId(p.name)[1] = "pod" /\ NodeId(n.name)[1] = "node"  BY DEF PodId, NodeId
    <2>7. /\ PodId(p.name)[1] \notin ImageTags /\ NodeId(n.name)[1] \notin ImageTags
          /\ PodId(p.name)[1] # NodeId(n.name)[1]
        BY <2>6 DEF ImageTags
    <2> QED  BY <1>1, <2>4, <2>5, <2>7, SyncedEdge
<1> QED  BY <1>1, <1>2

LEMMA SyncedData ==
    ASSUME NEW before, NEW w, NEW now, NEW F, NEW G, Synchronized(before, w, now, F, G)
    PROVE  DataShown(w, G)
<1>1. ASSUME NEW o \in Lists(w).configmaps  PROVE ConfigMapId(o.name) \in DOMAIN G.nodes
    <2>1. PICK f : f = NodeFact(now, ConfigMapId(o.name), "ConfigMap",
                                Filled(DataSignals(o.data), ChildOf(NamespaceId, "normal")))
        OBVIOUS
    <2>2. f \in MapData(Lists(w), now)  BY <2>1 DEF MapData
    <2>3. f \in MapCluster(Lists(w), now)  BY <2>2 DEF MapCluster
    <2>4. f.kind = "topology-node" /\ f.rid = ConfigMapId(o.name) /\ f.rid[1] \notin ImageTags
        BY <2>1 DEF NodeFact, ConfigMapId, ImageTags
    <2> QED  BY <2>3, <2>4, SyncedNode
<1>2. ASSUME NEW o \in Lists(w).secrets  PROVE SecretId(o.name) \in DOMAIN G.nodes
    <2>1. PICK f : f = NodeFact(now, SecretId(o.name), "Secret",
                                Filled(DataSignals(o.data), ChildOf(NamespaceId, "normal")))
        OBVIOUS
    <2>2. f \in MapData(Lists(w), now)  BY <2>1 DEF MapData
    <2>3. f \in MapCluster(Lists(w), now)  BY <2>2 DEF MapCluster
    <2>4. f.kind = "topology-node" /\ f.rid = SecretId(o.name) /\ f.rid[1] \notin ImageTags
        BY <2>1 DEF NodeFact, SecretId, ImageTags
    <2> QED  BY <2>3, <2>4, SyncedNode
<1> QED  BY <1>1, <1>2 DEF DataShown, TargetsOf

LEMMA SyncedTypes ==
    ASSUME NEW before, NEW w, NEW now, NEW F, NEW G, Synchronized(before, w, now, F, G)
    PROVE  DataTyped(G)
<1> SUFFICES ASSUME NEW r \in DOMAIN G.nodes
             PROVE  /\ G.nodes[r].type = "ConfigMap" <=> r[1] = "cm"
                    /\ G.nodes[r].type = "Secret" <=> r[1] = "secret"
                    /\ G.nodes[r].type = "Deployment" <=> r[1] = "deploy"
                    /\ G.nodes[r].type = "Pod" <=> r[1] = "pod"
    BY DEF DataTyped
<1>1. PICK f : /\ f.rid = r /\ NodeOK(f, ImageIds)
               /\ G.nodes[r] = [type |-> f.type, attrs |-> f.attrs]
    BY SyncedFacts
<1>2. G.nodes[r].type = f.type  BY <1>1
<1> QED  BY <1>1, <1>2 DEF NodeOK, TypeFits

HasImage(container) == container.image.repo # ""

\* An image, with the containers that run it and the repositories that start from it.
ImagesShown(w, G) ==
    \A p \in Lists(w).pods : \A c \in {b \in p.containers : HasImage(b)} :
        \E r \in DOMAIN G.nodes :
            /\ G.nodes[r].type = "ContainerImage" /\ "image" \in DOMAIN G.nodes[r].attrs
            /\ SameImage(G.nodes[r].attrs.image, c.image)
            /\ Edge(PodId(p.name), ContainerId(p.name, c.name), "RUNS") \in G.edges
            /\ Edge(ContainerId(p.name, c.name), r, "USES_IMAGE") \in G.edges
            /\ \A d \in {e \in Entered(w.tree, w.roots) : "Dockerfile" \in DOMAIN w.tree[e].files} :
               \A i \in ParseDockerfile(w.tree[d].files["Dockerfile"]) :
                   SameImage(i, c.image) => Edge(RepoId(w.tree[d].name), r, "BUILDS") \in G.edges

\* The normal form, part by part.
NoDigest == ""

LEMMA FormOf ==
    ASSUME NEW i
    PROVE  NormalizeImageRef(i) = [i EXCEPT !.digest = NoDigest, !.host = HostOf(i), !.tag = TagOf(i)]
BY Zenon DEF NormalizeImageRef, NoDigest, HostOf, TagOf

\* Images are the same exactly if they have one normal form.
LEMMA SameForm ==
    ASSUME NEW i, NEW j, IsImage(j)
    PROVE  /\ NormalizeImageRef(i) = NormalizeImageRef(j) => SameImage(i, j)
           /\ IsImage(i) /\ SameImage(i, j) => NormalizeImageRef(i) = NormalizeImageRef(j)
<1>1. PICK m, n : m = NormalizeImageRef(i) /\ n = NormalizeImageRef(j)  OBVIOUS
<1>2. /\ m = [i EXCEPT !.digest = NoDigest, !.host = HostOf(i), !.tag = TagOf(i)]
      /\ n = [j EXCEPT !.digest = NoDigest, !.host = HostOf(j), !.tag = TagOf(j)]
    BY <1>1, FormOf
<1>3. n = [host |-> HostOf(j), repo |-> j.repo, tag |-> TagOf(j), digest |-> NoDigest]
    BY <1>2 DEF IsImage
<1>4. ASSUME m = n  PROVE SameImage(i, j)
    <2>1. DOMAIN m = {"host", "repo", "tag", "digest"}  BY <1>3, <1>4
    <2>2. DOMAIN i = DOMAIN m  BY <1>2
    <2>3. m.host = HostOf(i) /\ m.repo = i.repo /\ m.tag = TagOf(i)  BY <1>2, <2>1, <2>2
    <2> QED  BY <1>3, <1>4, <2>3 DEF SameImage
<1>5. ASSUME IsImage(i), SameImage(i, j)  PROVE m = n
    <2>1. m = [host |-> HostOf(i), repo |-> i.repo, tag |-> TagOf(i), digest |-> NoDigest]
        BY <1>2, <1>5 DEF IsImage
    <2> QED  BY <1>3, <1>5, <2>1 DEF SameImage
<1> QED  BY <1>1, <1>4, <1>5

\* What stands for a node of the sync is in the graph.
LEMMA SyncedFact ==
    ASSUME NEW before, NEW w, NEW now, NEW F, NEW G, Synchronized(before, w, now, F, G),
           NEW f \in Batch(w, now), f.kind = "topology-node"
    PROVE  Stands(F, f.rid) \in DOMAIN G.nodes /\ \E g \in Nodes(F) : g.rid = f.rid
<1>1. \A b \in Batch(w, now) : FactOK(b, ImageIds) /\ b.ts = now  BY BatchShape DEF Synchronized
<1> QED  BY <1>1, ImagesOrdered, FreshNode DEF Synchronized

\* An edge of the sync is one between what stands for its ends.
LEMMA SyncedEnds ==
    ASSUME NEW before, NEW w, NEW now, NEW F, NEW G, Synchronized(before, w, now, F, G),
           NEW f \in Batch(w, now), f.kind = "topology-edge", NEW s, NEW t,
           s = Stands(F, f.attrs.source), t = Stands(F, f.attrs.target),
           s # t, s \in DOMAIN G.nodes, t \in DOMAIN G.nodes
    PROVE  Edge(s, t, f.attrs.edge_type) \in G.edges
<1>1. \A b \in Batch(w, now) : FactOK(b, ImageIds) /\ b.ts = now  BY BatchShape DEF Synchronized
<1>2. EdgeOK(f)  BY <1>1 DEF FactOK, NodeOK, MetricOK
<1> QED  BY <1>1, <1>2, ImagesOrdered, FreshEdge DEF Synchronized

\* What stands for the image of a container.
LEMMA SyncedImage ==
    ASSUME NEW before, NEW w, NEW now, NEW F, NEW G, Synchronized(before, w, now, F, G),
           NEW p \in Lists(w).pods, NEW c \in p.containers, HasImage(c),
           NEW r, r = Stands(F, ImageId(c.image))
    PROVE  /\ IsImage(c.image) /\ r \in DOMAIN G.nodes /\ r[1] \in ImageTags
           /\ G.nodes[r].type = "ContainerImage" /\ "image" \in DOMAIN G.nodes[r].attrs
           /\ SameImage(G.nodes[r].attrs.image, c.image)
           /\ \E g \in Pictured(F) : g.rid = ImageId(c.image)
<1>1. PICK id : id = ImageId(c.image)  OBVIOUS
<1>2. id[1] = "image" /\ KeyOf(id) = NormalizeImageRef(c.image)  BY <1>1 DEF ImageId, KeyOf
<1>3. IsImage(c.image)
    <2>1. p \in w.cluster.pods  BY ListsNamed DEF Synchronized
    <2>2. c.image \in ImagesOf(w)  BY <2>1 DEF ImagesOf
    <2> QED  BY <2>2, ImagesAssumption DEF Synchronized, IsImage
<1>4. PICK f : f = NodeFact(now, id, "ContainerImage",
                            [image |-> c.image, correlation_keys |-> {NormalizeImageRef(c.image)}])
    OBVIOUS
<1>5. f \in Batch(w, now)
    <2>1. f \in MapContainers(p, now)  BY <1>1, <1>4, Zenon DEF MapContainers, HasImage
    <2>2. f \in MapCluster(Lists(w), now)  BY <2>1 DEF MapCluster
    <2> QED  BY <2>2 DEF Batch, SyncK8s, Lists
<1>6. f.kind = "topology-node" /\ f.rid = id  BY <1>4 DEF NodeFact
<1>7. r \in DOMAIN G.nodes /\ \E g \in Nodes(F) : g.rid = id  BY <1>1, <1>5, <1>6, SyncedFact
<1>8. \E g \in Pictured(F) : g.rid = id  BY <1>2, <1>7 DEF Pictured, ImageTags
<1>9. KeyOf(r) = KeyOf(id)
    <2>1. CASE r = id  BY <2>1
    <2>2. CASE r # id
        <3>1. FactsOK(F, ImageIds, now)  BY SyncedFacts
        <3> QED  BY <1>1, <2>2, <3>1, ImagesOrdered, StandsForImage
    <2> QED  BY <2>1, <2>2
<1>10. r[1] \in ImageTags
    <2>1. Class(r[1]) = Class(id[1])  BY <1>1, SyncedFacts, ImagesOrdered, StandsKeeps
    <2> QED  BY <1>2, <2>1 DEF Class, ImageTags
<1>11. PICK g : g.rid = r /\ NodeOK(g, ImageIds) /\ G.nodes[r] = [type |-> g.type, attrs |-> g.attrs]
    BY <1>7, SyncedFacts
<1>12. G.nodes[r].type = g.type /\ G.nodes[r].attrs = g.attrs  BY <1>11
<1>13. /\ g.type = "ContainerImage" /\ "image" \in DOMAIN g.attrs
       /\ NormalizeImageRef(g.attrs.image) = KeyOf(r)
    BY <1>10, <1>11 DEF NodeOK, TypeFits, AttrsOK, ImageAttrsOK
<1>14. SameImage(g.attrs.image, c.image)  BY <1>2, <1>3, <1>9, <1>13, SameForm
<1> QED  BY <1>1, <1>3, <1>7, <1>8, <1>10, <1>12, <1>13, <1>14

LEMMA SyncedBuilds ==
    ASSUME NEW before, NEW w, NEW now, NEW F, NEW G, Synchronized(before, w, now, F, G),
           NEW p \in Lists(w).pods, NEW c \in p.containers, HasImage(c),
           NEW r, r = Stands(F, ImageId(c.image)),
           NEW d \in Entered(w.tree, w.roots), "Dockerfile" \in DOMAIN w.tree[d].files,
           NEW i \in ParseDockerfile(w.tree[d].files["Dockerfile"]), SameImage(i, c.image)
    PROVE  Edge(RepoId(w.tree[d].name), r, "BUILDS") \in G.edges
<1>1. PICK repo : repo = RepoId(w.tree[d].name)  OBVIOUS
<1>2. PICK ref : ref = ImageRefId(i)  OBVIOUS
<1>3. IsRepo(w.tree[d])  BY DEF IsRepo, RepoMarkers
<1>4. \A f \in ScanRepo(w.tree[d], now) : FactFrom("code-repo", f) \in Batch(w, now)
    <2>1. \A f \in ScanRepo(w.tree[d], now) :
              FactFrom("code-repo", f) \in SyncCodeRepo(w.tree, w.roots, now)
        BY <1>3 DEF SyncCodeRepo
    <2> QED  BY <2>1 DEF Batch
<1>5. /\ NodeFact(now, repo, "CodeRepo", <<>>) \in ScanRepo(w.tree[d], now)
      /\ NodeFact(now, ref, "ContainerImage",
                  [image |-> i, correlation_keys |-> {NormalizeImageRef(i)}]) \in ScanRepo(w.tree[d], now)
      /\ EdgeFact(now, "BUILDS", repo, ref) \in ScanRepo(w.tree[d], now)
    BY <1>1, <1>2 DEF ScanRepo
<1>6. \A rid, type, attrs :
          LET f == FactFrom("code-repo", NodeFact(now, rid, type, attrs))
          IN f.kind = "topology-node" /\ f.rid = rid
    BY DEF FactFrom, NodeFact
<1>7. PICK e : e = FactFrom("code-repo", EdgeFact(now, "BUILDS", repo, ref))  OBVIOUS
<1>8. /\ e \in Batch(w, now) /\ e.kind = "topology-edge"
      /\ e.attrs.source = repo /\ e.attrs.target = ref /\ e.attrs.edge_type = "BUILDS"
    <2>1. e \in Batch(w, now)  BY <1>4, <1>5, <1>7
    <2> QED  BY <1>7, <2>1 DEF FactFrom, EdgeFact
<1>9. FactsOK(F, ImageIds, now) /\ OneEach(F)  BY SyncedFacts
<1>10. repo[1] = "repo" /\ ref[1] = "image-ref" /\ ref[2] = NormalizeImageRef(i)
    BY <1>1, <1>2 DEF RepoId, ImageRefId
<1>11. Stands(F, repo) = repo /\ repo \in DOMAIN G.nodes
    <2>1. repo[1] \notin ImageTags  BY <1>10 DEF ImageTags
    <2>2. Stands(F, repo) = repo  BY <1>9, <2>1, ImagesOrdered, StandsKeeps
    <2>3. PICK f : f = FactFrom("code-repo", NodeFact(now, repo, "CodeRepo", <<>>))  OBVIOUS
    <2>4. f \in Batch(w, now) /\ f.kind = "topology-node" /\ f.rid = repo  BY <1>4, <1>5, <1>6, <2>3
    <2> QED  BY <2>2, <2>4, SyncedFact
<1>12. PICK h \in Pictured(F) : h.rid = ref
    <2>1. PICK f : f = FactFrom("code-repo", NodeFact(now, ref, "ContainerImage",
                                    [image |-> i, correlation_keys |-> {NormalizeImageRef(i)}]))
        OBVIOUS
    <2>2. f \in Batch(w, now) /\ f.kind = "topology-node" /\ f.rid = ref  BY <1>4, <1>5, <1>6, <2>1
    <2>3. PICK h \in Nodes(F) : h.rid = ref  BY <2>2, SyncedFact
    <2> QED  BY <1>10, <2>3 DEF Pictured, ImageTags
<1>13. PICK g \in Pictured(F) : g.rid = ImageId(c.image)  BY SyncedImage
<1>14. KeyOf(h.rid) = KeyOf(g.rid)
    <2>1. IsImage(i)
        <3>1. i \in SourceImagesOf(w)  BY DEF SourceImagesOf
        <3> QED  BY <3>1, ImagesAssumption DEF Synchronized, IsImage
    <2>2. NormalizeImageRef(i) = NormalizeImageRef(c.image)  BY <2>1, SyncedImage, SameForm
    <2>3. KeyOf(ref) = NormalizeImageRef(i)  BY <1>10, <2>1, NormalForm DEF KeyOf
    <2>4. KeyOf(ImageId(c.image)) = NormalizeImageRef(c.image)  BY DEF KeyOf, ImageId
    <2> QED  BY <1>12, <1>13, <2>2, <2>3, <2>4
<1>15. Stands(F, ref) = r
    <2>1. Stands(F, h.rid) = Stands(F, g.rid)  BY <1>9, <1>14, ImagesOrdered, StandsFor
    <2> QED  BY <1>12, <1>13, <2>1
<1>16. r \in DOMAIN G.nodes /\ repo # r
    <2>1. r \in DOMAIN G.nodes /\ r[1] \in ImageTags  BY SyncedImage
    <2> QED  BY <1>10, <2>1 DEF ImageTags
<1> QED  BY <1>1, <1>8, <1>11, <1>15, <1>16, SyncedEnds

LEMMA SyncedImages ==
    ASSUME NEW before, NEW w, NEW now, NEW F, NEW G, Synchronized(before, w, now, F, G)
    PROVE  ImagesShown(w, G)
<1>1. ASSUME NEW p \in Lists(w).pods, NEW c \in p.containers, HasImage(c),
             NEW r, r = Stands(F, ImageId(c.image))
      PROVE  /\ Edge(PodId(p.name), ContainerId(p.name, c.name), "RUNS") \in G.edges
             /\ Edge(ContainerId(p.name, c.name), r, "USES_IMAGE") \in G.edges
    <2>1. PICK pod, container : pod = PodId(p.name) /\ container = ContainerId(p.name, c.name)  OBVIOUS
    <2>2. pod[1] = "pod" /\ container[1] = "container"  BY <2>1 DEF PodId, ContainerId
    <2>3. pod[1] \notin ImageTags /\ container[1] \notin ImageTags /\ pod[1] # container[1]
        BY <2>2 DEF ImageTags
    <2>4. MapContainers(p, now) \subseteq MapCluster(Lists(w), now)  BY DEF MapCluster
    <2>5. container \in DOMAIN G.nodes
        <3>1. PICK f : f = NodeFact(now, container, "Container",
                                    Filled([image |-> c.image], Health(ContainerHealth(c))))
            OBVIOUS
        <3>2. f \in MapContainers(p, now)  BY <2>1, <3>1, Zenon DEF MapContainers
        <3>3. f.kind = "topology-node" /\ f.rid = container  BY <3>1 DEF NodeFact
        <3> QED  BY <2>3, <2>4, <3>2, <3>3, SyncedNode
    <2>6. pod \in DOMAIN G.nodes  BY <2>1, SyncedPod
    <2>7. EdgeFact(now, "RUNS", pod, container) \in MapContainers(p, now)  BY <2>1, Zenon DEF MapContainers
    <2>8. Edge(pod, container, "RUNS") \in G.edges  BY <2>3, <2>4, <2>5, <2>6, <2>7, SyncedEdge
    <2>9. PICK e : e = EdgeFact(now, "USES_IMAGE", container, ImageId(c.image))  OBVIOUS
    <2>10. e \in MapContainers(p, now)  BY <1>1, <2>1, <2>9, Zenon DEF MapContainers, HasImage
    <2>11. e \in Batch(w, now)  BY <2>4, <2>10 DEF Batch, SyncK8s, Lists
    <2>12. /\ e.kind = "topology-edge" /\ e.attrs.source = container
           /\ e.attrs.target = ImageId(c.image) /\ e.attrs.edge_type = "USES_IMAGE"
        BY <2>9 DEF EdgeFact
    <2>13. Stands(F, container) = container  BY <2>3, SyncedFacts, ImagesOrdered, StandsKeeps
    <2>14. r \in DOMAIN G.nodes /\ r[1] \in ImageTags  BY <1>1, SyncedImage
    <2>15. container # r  BY <2>3, <2>14
    <2>16. Edge(container, r, "USES_IMAGE") \in G.edges
        BY <1>1, <2>5, <2>11, <2>12, <2>13, <2>14, <2>15, SyncedEnds
    <2> QED  BY <2>1, <2>8, <2>16
<1>2. ASSUME NEW p \in Lists(w).pods, NEW c \in p.containers, HasImage(c)
      PROVE  \E r \in DOMAIN G.nodes :
                /\ G.nodes[r].type = "ContainerImage" /\ "image" \in DOMAIN G.nodes[r].attrs
                /\ SameImage(G.nodes[r].attrs.image, c.image)
                /\ Edge(PodId(p.name), ContainerId(p.name, c.name), "RUNS") \in G.edges
                /\ Edge(ContainerId(p.name, c.name), r, "USES_IMAGE") \in G.edges
                /\ \A d \in {e \in Entered(w.tree, w.roots) : "Dockerfile" \in DOMAIN w.tree[e].files} :
                   \A i \in ParseDockerfile(w.tree[d].files["Dockerfile"]) :
                       SameImage(i, c.image) => Edge(RepoId(w.tree[d].name), r, "BUILDS") \in G.edges
    <2>1. PICK r : r = Stands(F, ImageId(c.image))  OBVIOUS
    <2>2. /\ r \in DOMAIN G.nodes
          /\ G.nodes[r].type = "ContainerImage" /\ "image" \in DOMAIN G.nodes[r].attrs
          /\ SameImage(G.nodes[r].attrs.image, c.image)
        BY <1>2, <2>1, SyncedImage
    <2>3. \A d \in {e \in Entered(w.tree, w.roots) : "Dockerfile" \in DOMAIN w.tree[e].files} :
              \A i \in ParseDockerfile(w.tree[d].files["Dockerfile"]) :
                  SameImage(i, c.image) => Edge(RepoId(w.tree[d].name), r, "BUILDS") \in G.edges
        BY <1>2, <2>1, SyncedBuilds
    <2> QED  BY <1>1, <1>2, <2>1, <2>2, <2>3
<1> QED  BY <1>2 DEF ImagesShown

\* A component, with its Deployment, and whom it calls often enough.
CallsShown(w, G) ==
    /\ \A d \in {e.name : e \in {b \in Lists(w).deployments : IsComponent(b.name)}} :
           /\ ComponentOf(d) \in DOMAIN G.nodes
           /\ Edge(ComponentOf(d), DeployId(d), "DEPLOYED_AS") \in G.edges
    /\ \A c \in {d \in Callings(w.traces) : CallCount(w.traces, w.answered, d[1], d[2]) >= CallThreshold} :
       \A s, t \in DOMAIN G.nodes :
           s = ServiceToComponentId(c[1]) /\ t = ServiceToComponentId(c[2]) /\ s # t =>
               Edge(s, t, "CALLS") \in G.edges

LEMMA SyncedCalls ==
    ASSUME NEW before, NEW w, NEW now, NEW F, NEW G, Synchronized(before, w, now, F, G)
    PROVE  CallsShown(w, G)
<1>1. ASSUME NEW d \in {e.name : e \in {b \in Lists(w).deployments : IsComponent(b.name)}}
      PROVE  /\ ComponentOf(d) \in DOMAIN G.nodes
             /\ Edge(ComponentOf(d), DeployId(d), "DEPLOYED_AS") \in G.edges
    <2>1. PICK e \in Lists(w).deployments : e.name = d /\ IsComponent(e.name)  BY <1>1
    <2>2. PICK f, g : /\ f = NodeFact(now, ComponentOf(d), "ApplicationComponent", ChildOf(ApplicationId, "normal"))
                      /\ g = NodeFact(now, DeployId(d), "Deployment",
                                      Filled(DeploySignals(e), ChildOf(NamespaceId, "normal")))
        OBVIOUS
    <2>3. {f, g, EdgeFact(now, "DEPLOYED_AS", ComponentOf(d), DeployId(d))} \subseteq MapDeployments(Lists(w), now)
        <3>1. f \in MapDeployments(Lists(w), now)  BY <2>1, <2>2 DEF MapDeployments
        <3>2. g \in MapDeployments(Lists(w), now)  BY <2>1, <2>2 DEF MapDeployments
        <3>3. EdgeFact(now, "DEPLOYED_AS", ComponentOf(d), DeployId(d)) \in MapDeployments(Lists(w), now)
            BY <2>1 DEF MapDeployments
        <3> QED  BY <3>1, <3>2, <3>3
    <2>4. MapDeployments(Lists(w), now) \subseteq MapCluster(Lists(w), now)  BY DEF MapCluster
    <2>5. ComponentOf(d)[1] = "comp" /\ DeployId(d)[1] = "deploy"  BY DEF ComponentOf, ComponentId, DeployId
    <2>6. ComponentOf(d)[1] \notin ImageTags /\ DeployId(d)[1] \notin ImageTags /\ ComponentOf(d)[1] # DeployId(d)[1]
        BY <2>5 DEF ImageTags
    <2>7. f.kind = "topology-node" /\ f.rid = ComponentOf(d) /\ g.kind = "topology-node" /\ g.rid = DeployId(d)
        BY <2>2 DEF NodeFact
    <2>8. ComponentOf(d) \in DOMAIN G.nodes /\ DeployId(d) \in DOMAIN G.nodes
        BY <2>3, <2>4, <2>6, <2>7, SyncedNode
    <2> QED  BY <2>3, <2>4, <2>6, <2>8, SyncedEdge
<1>2. ASSUME NEW c \in {d \in Callings(w.traces) : CallCount(w.traces, w.answered, d[1], d[2]) >= CallThreshold},
             NEW s \in DOMAIN G.nodes, NEW t \in DOMAIN G.nodes,
             s = ServiceToComponentId(c[1]), t = ServiceToComponentId(c[2]), s # t
      PROVE  Edge(s, t, "CALLS") \in G.edges
    <2>1. PICK f : f = CallsEdge(c, now)  OBVIOUS
    <2>2. f \in Batch(w, now)  BY <2>1 DEF Batch, SyncJaeger
    <2>3. /\ f.kind = "topology-edge" /\ f.attrs.source = s /\ f.attrs.target = t /\ f.attrs.edge_type = "CALLS"
        BY <1>2, <2>1 DEF CallsEdge, FactFrom, EdgeFact
    <2>4. s[1] = "comp" /\ t[1] = "comp"  BY <1>2 DEF ServiceToComponentId, ComponentId
    <2>5. s[1] \notin ImageTags /\ t[1] \notin ImageTags  BY <2>4 DEF ImageTags
    <2>6. Stands(F, s) = s /\ Stands(F, t) = t  BY <2>5, SyncedFacts, ImagesOrdered, StandsKeeps
    <2> QED  BY <1>2, <2>2, <2>3, <2>6, SyncedEnds
<1> QED  BY <1>1, <1>2 DEF CallsShown

GraphShows(w, G) ==
    /\ PodsOwned(w, G) /\ UsesShown(w, G) /\ ServicesShown(w, G) /\ NodesShown(w, G)
    /\ DataShown(w, G) /\ ImagesShown(w, G) /\ CallsShown(w, G) /\ DataTyped(G)

\* Health that is laid over a graph hides nothing of it.
LEMMA ShowsStill ==
    ASSUME NEW w, NEW G, NEW H, SameButHealth(G, H), GraphShows(w, G)
    PROVE  GraphShows(w, H)
<1>1. /\ DOMAIN H.nodes = DOMAIN G.nodes /\ H.edges = G.edges
      /\ \A r \in DOMAIN G.nodes :
           /\ H.nodes[r].type = G.nodes[r].type
           /\ \A k \in DOMAIN G.nodes[r].attrs : k \notin {"health_status", "risk_level"} =>
                  k \in DOMAIN H.nodes[r].attrs /\ H.nodes[r].attrs[k] = G.nodes[r].attrs[k]
    BY DEF SameButHealth
<1>2. PodsOwned(w, H)  BY <1>1 DEF GraphShows, PodsOwned
<1>3. UsesShown(w, H)  BY <1>1 DEF GraphShows, UsesShown
<1>4. ServicesShown(w, H)  BY <1>1 DEF GraphShows, ServicesShown
<1>5. NodesShown(w, H)  BY <1>1 DEF GraphShows, NodesShown
<1>6. DataShown(w, H)  BY <1>1 DEF GraphShows, DataShown
<1>7. DataTyped(H)  BY <1>1 DEF GraphShows, DataTyped
<1>8. ImagesShown(w, H)
    <2>1. \A r \in DOMAIN G.nodes : "image" \in DOMAIN G.nodes[r].attrs =>
              "image" \in DOMAIN H.nodes[r].attrs /\ H.nodes[r].attrs.image = G.nodes[r].attrs.image
        BY <1>1
    <2>2. \A r \in DOMAIN G.nodes : H.nodes[r].type = G.nodes[r].type  BY <1>1
    <2> QED  BY <1>1, <2>1, <2>2, ZenonT(40) DEF GraphShows, ImagesShown
<1>9. CallsShown(w, H)  BY <1>1 DEF GraphShows, CallsShown
<1> QED  BY <1>2, <1>3, <1>4, <1>5, <1>6, <1>7, <1>8, <1>9 DEF GraphShows

\* What a sync of a world computes of it.
LEMMA SyncShows ==
    ASSUME NEW before, NEW w \in Worlds, NEW now \in Nat, FactsOK(before, ImageIds, now),
           NEW stored, stored = UpsertFacts(before, Batch(w, now), now),
           NEW next, next = MergeMetricHealth(Resolve(LatestTopologyFacts(stored)), LatestMetricFacts(stored))
    PROVE  GraphShows(w, next) /\ TopologyOK(next) /\ FactsOK(stored, ImageIds, now)
<1>1. PICK F, G : F = LatestTopologyFacts(stored) /\ G = Resolve(F)  OBVIOUS
<1>2. Synchronized(before, w, now, F, G)  BY <1>1 DEF Synchronized
<1>3. GraphShows(w, G)
    BY <1>2, SyncedOwners, SyncedUses, SyncedServices, SyncedNodes, SyncedData, SyncedImages, SyncedCalls,
       SyncedTypes
    DEF GraphShows
<1>4. TopologyOK(G) /\ NodesTyped(G) /\ FactsOK(stored, ImageIds, now)  BY <1>2, SyncedFacts
<1>5. SameButHealth(G, next) /\ TopologyOK(next)  BY <1>1, <1>4, MergedGraph
<1> QED  BY <1>3, <1>4, <1>5, ShowsStill

-----------------------------------------------------------------------------
(* Who depends on what *)

\* Users, their Deployments and the services in front of them are two steps away.
LEMMA DependentsReached ==
    ASSUME NEW w, NEW G, GraphShows(w, G), NEW r \in DOMAIN G.nodes, r[1] \in {"cm", "secret"},
           NEW types, {"USES", "CONTAINS", "ROUTES_TO"} \subseteq types, NEW dir \in {"reverse", "both"},
           NEW n \in {2, 4, 5}
    PROVE  \A d \in Dependents(w, r) : d # r /\ d \in DOMAIN G.nodes /\ d \in Reach(G, r, types, dir, n)
<1>1. PICK R : R = Reach(G, r, types, dir, n)  OBVIOUS
<1>2. \A e \in G.edges : e.edge_type \in types /\ e.target = r =>
          /\ e.source \in R
          /\ \A f \in G.edges : f.edge_type \in types /\ f.target = e.source => f.source \in R
    BY <1>1, ReachesBack
<1>3. \A s, t, type : LET e == Edge(s, t, type)
                      IN e.source = s /\ e.target = t /\ e.edge_type = type
    BY DEF Edge
<1>4. \A x : PodId(x)[1] = "pod" /\ DeployId(x)[1] = "deploy" /\ ServiceId(x)[1] = "service"
    BY DEF PodId, DeployId, ServiceId
<1>5. ASSUME NEW p \in Users(Lists(w), r)
      PROVE  /\ p \in Lists(w).pods /\ PodId(p.name) \in DOMAIN G.nodes /\ PodId(p.name) \in R
             /\ \A s, type : type \in types /\ Edge(s, PodId(p.name), type) \in G.edges => s \in R
    <2>1. p \in Lists(w).pods  BY DEF Users
    <2>2. PodId(p.name) \in DOMAIN G.nodes  BY <2>1 DEF GraphShows, PodsOwned
    <2>3. Edge(PodId(p.name), r, "USES") \in G.edges  BY DEF GraphShows, UsesShown
    <2>4. PodId(p.name) \in R /\ \A f \in G.edges : f.edge_type \in types /\ f.target = PodId(p.name) => f.source \in R
        BY <1>2, <1>3, <2>3
    <2> QED  BY <1>3, <2>1, <2>2, <2>4
<1>6. ASSUME NEW d \in Owners(Users(Lists(w), r), Lists(w))
      PROVE  d[1] = "deploy" /\ d \in DOMAIN G.nodes /\ d \in R
    <2>1. PICK e \in Lists(w).deployments, p \in Users(Lists(w), r) :
              d = DeployId(e.name) /\ e.name \in DeployOf(p.rs, Lists(w).replicasets)
        BY <1>6 DEF Owners
    <2>2. d \in Owners({p}, Lists(w))  BY <2>1 DEF Owners
    <2>3. d \in DOMAIN G.nodes /\ Edge(d, PodId(p.name), "CONTAINS") \in G.edges
        BY <1>5, <2>2 DEF GraphShows, PodsOwned
    <2> QED  BY <1>4, <1>5, <2>1, <2>3
<1>7. ASSUME NEW s \in Lists(w).services, NEW p \in Users(Lists(w), r), LabelsMatch(p.labels, s.selector)
      PROVE  ServiceId(s.name) \in DOMAIN G.nodes /\ ServiceId(s.name) \in R
    <2>1. /\ ServiceId(s.name) \in DOMAIN G.nodes
          /\ Edge(ServiceId(s.name), PodId(p.name), "ROUTES_TO") \in G.edges
        BY <1>5, <1>7 DEF GraphShows, ServicesShown
    <2> QED  BY <1>5, <2>1
<1>8. ASSUME NEW d \in Dependents(w, r)
      PROVE  \/ \E p \in Users(Lists(w), r) : d = PodId(p.name)
             \/ d \in Owners(Users(Lists(w), r), Lists(w))
             \/ \E s \in Lists(w).services : \E p \in Users(Lists(w), r) :
                    LabelsMatch(p.labels, s.selector) /\ d = ServiceId(s.name)
    BY <1>8 DEF Dependents
<1> QED  BY <1>1, <1>4, <1>5, <1>6, <1>7, <1>8

\* The Deployments of the users are no farther than any other Deployment.
LEMMA OwnersNearest ==
    ASSUME NEW w, NEW G, GraphShows(w, G), TopologyOK(G), NEW r \in DOMAIN G.nodes, r[1] \in {"cm", "secret"},
           NEW P, P = DerivePropagation(G, r)
    PROVE  \A d \in Dependents(w, r) \cap DOMAIN P, s \in DOMAIN P :
               d[1] = "deploy" /\ s[1] = "deploy" => P[d] <= P[s]
<1> SUFFICES ASSUME NEW d \in Dependents(w, r), d \in DOMAIN P, d[1] = "deploy",
                    NEW s \in DOMAIN P, s[1] = "deploy"
             PROVE  P[d] <= P[s]
    OBVIOUS
<1>1. PICK types : types = PropagationEdges  OBVIOUS
<1>2. PICK V : V = Visited(G, r, types, "reverse", 4)  OBVIOUS
<1>3. /\ DOMAIN P = DOMAIN V \ {r} /\ \A x \in DOMAIN P : P[x] = V[x]
    <2>1. P = Restrict(V, DOMAIN V \ {r})
        BY <1>1, <1>2, Zenon DEF DerivePropagation, Distances, PropagationDepth
    <2> QED  BY <2>1 DEF Restrict
<1>4. /\ \A x \in DOMAIN V :
              /\ V[x] \in 0..4
              /\ \/ V[x] >= 2
                 \/ x = r
                 \/ \E e \in Typed(G, types) : e.target = r /\ e.source = x
      /\ \A e, f \in Typed(G, types) :
             e.target = r /\ f.target = e.source => f.source \in DOMAIN V /\ V[f.source] <= 2
    BY <1>2, StepsAway
<1>5. Typed(G, types) = {e \in G.edges : e.edge_type \in types}  BY DEF Typed
<1>6. V[s] >= 2
    <2>1. ASSUME NEW e \in G.edges, e.target = r, e.source = s  PROVE FALSE
        <3>1. EdgeFits(e)  BY DEF TopologyOK
        <3>2. Class(e.source[1]) = "deploy" /\ Class(e.target[1]) = e.target[1]
            BY <2>1 DEF Class, ImageTags
        <3>3. \A type : \A t \in {"cm", "secret"} : <<type, "deploy", t>> \notin EdgeTags
            BY DEF EdgeTags, MiddlewareTags
        <3>4. \A t \in {"cm", "secret"} : <<"deploy", t>> \notin ParentTags
            BY DEF ParentTags, MiddlewareTags
        <3> QED  BY <2>1, <3>1, <3>2, <3>3, <3>4 DEF EdgeFits
    <2> QED  BY <1>3, <1>4, <1>5, <2>1
<1>7. V[d] <= 2
    <2>1. d \in Owners(Users(Lists(w), r), Lists(w))
        <3>1. \A x : PodId(x)[1] = "pod" /\ ServiceId(x)[1] = "service"  BY DEF PodId, ServiceId
        <3> QED  BY <3>1 DEF Dependents
    <2>2. PICK o \in Lists(w).deployments, p \in Users(Lists(w), r) :
              d = DeployId(o.name) /\ o.name \in DeployOf(p.rs, Lists(w).replicasets)
        BY <2>1 DEF Owners
    <2>3. d \in Owners({p}, Lists(w))  BY <2>2 DEF Owners
    <2>4. p \in Lists(w).pods  BY DEF Users
    <2>5. PICK e, f : e = Edge(PodId(p.name), r, "USES") /\ f = Edge(d, PodId(p.name), "CONTAINS")  OBVIOUS
    <2>6. e \in G.edges /\ f \in G.edges
        BY <2>3, <2>4, <2>5 DEF GraphShows, UsesShown, PodsOwned
    <2>7. /\ e.edge_type = "USES" /\ e.target = r /\ e.source = PodId(p.name)
          /\ f.edge_type = "CONTAINS" /\ f.target = PodId(p.name) /\ f.source = d
        BY <2>5 DEF Edge
    <2>8. e \in Typed(G, types) /\ f \in Typed(G, types)
        BY <1>1, <1>5, <2>6, <2>7 DEF PropagationEdges
    <2> QED  BY <1>4, <2>7, <2>8
<1>8. V[d] \in 0..4 /\ V[s] \in 0..4 /\ P[d] = V[d] /\ P[s] = V[s]  BY <1>3, <1>4
<1> QED  BY <1>6, <1>7, <1>8

-----------------------------------------------------------------------------
(* The topology *)

\* What a sync computes, from the rows before it.
Computed(before, w, now) ==
    MergeMetricHealth(Resolve(LatestTopologyFacts(UpsertFacts(before, Batch(w, now), now))),
                      LatestMetricFacts(UpsertFacts(before, Batch(w, now), now)))

\* The resources of the rows are those of the topology; an image may stand for another.
RowsShown(facts, G) ==
    \A r : r[1] \notin ImageTags => (r \in DOMAIN G.nodes <=> \E f \in Nodes(facts) : f.rid = r)

\* No resource goes, except that one image may come to stand for another.
Stays(before, after) == \A r \in DOMAIN before.nodes : r[1] \notin ImageTags => r \in DOMAIN after.nodes

LEMMA SyncedRows ==
    ASSUME NEW before, NEW w, NEW now, NEW F, NEW G, Synchronized(before, w, now, F, G)
    PROVE  RowsShown(F, G) /\ \A f \in Nodes(before) : \E g \in Nodes(F) : g.rid = f.rid
<1>1. PICK stored : stored = UpsertFacts(before, Batch(w, now), now)  OBVIOUS
<1>2. FactsOK(F, ImageIds, now) /\ OneEach(F) /\ FactsOK(stored, ImageIds, now)  BY <1>1, SyncedFacts
<1>3. /\ now \in Nat /\ F = LatestTopologyFacts(stored) /\ G = Resolve(F)
      /\ FactsOK(before, ImageIds, now)
    BY <1>1 DEF Synchronized
<1>4. RowsShown(F, G)
    <2>1. \A r : r[1] \notin ImageTags => Stands(F, r) = r  BY <1>2, ImagesOrdered, StandsKeeps
    <2>2. \A r : r \in DOMAIN G.nodes <=> \E f \in Nodes(F) : f.rid = r /\ Stands(F, r) = r
        BY <1>2, <1>3, ImagesOrdered, ResolvedGraph
    <2> QED  BY <2>1, <2>2 DEF RowsShown
<1>5. ASSUME NEW f \in Nodes(before)  PROVE \E g \in Nodes(F) : g.rid = f.rid
    <2>1. \E h \in stored : h.kind = f.kind /\ h.rid = f.rid
        <3>1. CASE f \in stored  BY <3>1
        <3>2. CASE f \notin stored
            <4>1. f \in before  BY DEF Nodes
            <4>2. PICK b \in Batch(w, now) : FactId(b) = FactId(f)  BY <1>1, <3>2, <4>1 DEF UpsertFacts
            <4>3. b.kind = f.kind /\ b.rid = f.rid  BY <4>2 DEF FactId
            <4>4. PICK h : h = [kind |-> b.kind, source |-> b.source, rid |-> b.rid, type |-> b.type,
                                ts |-> b.ts, attrs |-> b.attrs, ins |-> now]  OBVIOUS
            <4>5. h \in stored  BY <1>1, <4>4 DEF UpsertFacts
            <4> QED  BY <4>3, <4>4, <4>5
        <3> QED  BY <3>1, <3>2
    <2>2. PICK h \in stored : h.kind = "topology-node" /\ h.rid = f.rid  BY <2>1 DEF Nodes
    <2>3. PICK g \in F : g.rid = h.rid  BY <1>2, <1>3, <2>2, LatestHolds
    <2>4. h.rid[1] # "edge"
        <3>1. NodeOK(h, ImageIds)
            <4>1. h \in Nodes(stored)  BY <2>2 DEF Nodes
            <4> QED  BY <1>2, <4>1, NodeShape
        <3>2. \A t \in NodeTags : t # "edge"  BY DEF NodeTags, MiddlewareTags, ImageTags, RepoTags
        <3> QED  BY <3>1, <3>2 DEF NodeOK
    <2>5. g \in Nodes(F)
        <3>1. g \in Nodes(F) \/ g \in Edges(F)
            <4>1. F \subseteq Nodes(stored) \cup Edges(stored)
                <5>1. \A x \in Nodes(stored) \cup Edges(stored) : x.ts \in Nat /\ x.ts <= now
                    BY <1>2 DEF FactsOK, Nodes, Edges
                <5> QED  BY <1>3, <5>1, NewestOf DEF LatestTopologyFacts
            <4> QED  BY <4>1 DEF Nodes, Edges
        <3>2. ASSUME NEW e \in Edges(F)  PROVE e.rid[1] = "edge"
            <4>1. PICK type, s, t : e.rid = <<"edge", type, s, t>>  BY <1>2, EdgeShape DEF EdgeOK
            <4> QED  BY <4>1
        <3> QED  BY <2>3, <2>4, <3>1, <3>2
    <2> QED  BY <2>2, <2>3, <2>5
<1> QED  BY <1>4, <1>5

\* The rows are facts of the past, the topology has their resources and shows what the
\* last sync saw.
TopologyInv ==
    /\ FactsOK(rows, ImageIds, clock) /\ TopologyOK(topology) /\ RowsShown(rows, topology)
    /\ \A w \in synced : w \in Worlds /\ GraphShows(w, topology)

LEMMA InitTopology == Init => TopologyInv
<1> SUFFICES ASSUME Init  PROVE TopologyInv  OBVIOUS
<1>1. rows = {} /\ topology = NoTopology /\ synced = {}  BY DEF Init
<1>2. FactsOK(rows, ImageIds, clock)  BY <1>1 DEF FactsOK
<1>3. TopologyOK(topology)  BY <1>1 DEF TopologyOK, NoTopology
<1>4. RowsShown(rows, topology)  BY <1>1 DEF RowsShown, NoTopology, Nodes
<1> QED  BY <1>1, <1>2, <1>3, <1>4 DEF TopologyInv

\* The whole of a sync: it stores what it computed.
LEMMA SyncStores ==
    ASSUME EventsInv, TopologyInv, Sync
    PROVE  /\ topology' = Computed(rows, world, clock) /\ synced' = {world}
           /\ GraphShows(world, topology') /\ TopologyOK(topology') /\ FactsOK(rows', ImageIds, clock)
           /\ RowsShown(rows', topology') /\ Stays(topology, topology')
<1>1. PICK stored : stored = UpsertFacts(rows, Batch(world, clock), clock)  OBVIOUS
<1>2. PICK next : next = Computed(rows, world, clock)  OBVIOUS
<1>3. /\ rows' = LatestTopologyFacts(stored) \cup LatestMetricFacts(stored)
      /\ topology' = ApplyChangeSet(topology, Diff(topology, next))
      /\ synced' = {world}
    BY <1>1, <1>2, Zenon DEF Sync, Computed
<1>4. world \in Worlds /\ clock \in Nat  BY DEF EventsInv
<1>5. FactsOK(rows, ImageIds, clock) /\ TopologyOK(topology)  BY DEF TopologyInv
<1>6. GraphShows(world, next) /\ TopologyOK(next) /\ FactsOK(stored, ImageIds, clock)
    BY <1>1, <1>2, <1>4, <1>5, SyncShows DEF Computed
<1>7. topology' = next  BY <1>3, <1>5, <1>6, AppliedIsNext
<1>8. rows' \subseteq stored
    <2>1. LatestTopologyFacts(stored) \subseteq stored  BY <1>4, <1>6, LatestOK
    <2>2. LatestMetricFacts(stored) \subseteq stored  BY DEF LatestMetricFacts
    <2> QED  BY <1>3, <2>1, <2>2
<1>9. FactsOK(rows', ImageIds, clock)  BY <1>6, <1>8 DEF FactsOK
<1>10. PICK F, G : F = LatestTopologyFacts(stored) /\ G = Resolve(F)  OBVIOUS
<1>11. Synchronized(rows, world, clock, F, G)  BY <1>1, <1>4, <1>5, <1>10 DEF Synchronized
<1>12. DOMAIN next.nodes = DOMAIN G.nodes
    <2>1. TopologyOK(G) /\ NodesTyped(G)  BY <1>11, SyncedFacts
    <2>2. next = MergeMetricHealth(G, LatestMetricFacts(stored))  BY <1>1, <1>2, <1>10 DEF Computed
    <2>3. SameButHealth(G, next)  BY <2>1, <2>2, MergedGraph
    <2> QED  BY <2>3 DEF SameButHealth
<1>13. RowsShown(F, G) /\ \A f \in Nodes(rows) : \E g \in Nodes(F) : g.rid = f.rid
    BY <1>11, SyncedRows
<1>14. Nodes(rows') = Nodes(F)  BY <1>3, <1>10 DEF Nodes, LatestMetricFacts
<1>15. RowsShown(rows', topology')  BY <1>7, <1>12, <1>13, <1>14 DEF RowsShown
<1>16. Stays(topology, topology')
    <2>1. RowsShown(rows, topology)  BY DEF TopologyInv
    <2> QED  BY <1>7, <1>12, <1>13, <2>1 DEF RowsShown, Stays
<1> QED  BY <1>2, <1>3, <1>6, <1>7, <1>9, <1>15, <1>16

LEMMA NextTopology ==
    ASSUME EventsInv, TopologyInv, [Next]_vars  PROVE TopologyInv'
<1>1. CASE Sync
    <2>1. /\ synced' = {world} /\ GraphShows(world, topology') /\ TopologyOK(topology')
          /\ FactsOK(rows', ImageIds, clock) /\ clock' = clock /\ world \in Worlds
        BY <1>1, SyncStores DEF Sync, EventsInv
    <2>2. FactsOK(rows, ImageIds, clock)'  BY <2>1 DEF FactsOK
    <2>3. TopologyOK(topology)' /\ GraphShows(world, topology')  BY <2>1
    <2>4. RowsShown(rows', topology')  BY <1>1, SyncStores
    <2> QED  BY <2>1, <2>2, <2>3, <2>4 DEF TopologyInv
<1>2. CASE ~Sync
    <2>1. /\ UNCHANGED <<rows, topology>> /\ synced' \subseteq synced
          /\ clock' = clock \/ clock' = clock + 2
        BY <1>2 DEF Next, Command, Tick, WorldMoves, RecordChangeEvent, RecordAlert, ResolveAlert, Restart,
                    vars, sync
    <2>2. clock \in Nat  BY DEF EventsInv
    <2>3. FactsOK(rows, ImageIds, clock)'
        <3>1. PICK later : later = clock'  OBVIOUS
        <3>2. \A f \in rows : f.ts \in Nat /\ f.ts <= clock  BY DEF TopologyInv, FactsOK
        <3>3. FactsOK(rows, ImageIds, later)  BY <2>1, <2>2, <3>1, <3>2 DEF TopologyInv, FactsOK
        <3> QED  BY <2>1, <3>1, <3>3 DEF FactsOK
    <2>4. TopologyOK(topology)'  BY <2>1 DEF TopologyInv
    <2>5. \A w \in synced' : w \in Worlds /\ GraphShows(w, topology')
        BY <2>1 DEF TopologyInv
    <2>6. RowsShown(rows', topology')  BY <2>1 DEF TopologyInv
    <2> QED  BY <2>3, <2>4, <2>5, <2>6 DEF TopologyInv
<1> QED  BY <1>1, <1>2

\* No step takes a resource away.
LEMMA ResourcesStay ==
    ASSUME EventsInv, TopologyInv, [Next]_vars  PROVE Stays(topology, topology')
<1>1. CASE Sync  BY <1>1, SyncStores
<1>2. CASE ~Sync
    <2>1. topology' = topology
        BY <1>2 DEF Next, Command, Tick, WorldMoves, RecordChangeEvent, RecordAlert, ResolveAlert, Restart,
                    vars, sync
    <2> QED  BY <2>1 DEF Stays
<1> QED  BY <1>1, <1>2

-----------------------------------------------------------------------------
(* What a sync finds *)

\* A dependent has a name.
NoName == {PodId(<<>>), DeployId(<<>>)}

\* A change of a ConfigMap or a Secret, by the type of its target and its id.
OfItsType(c) ==
    \/ c.change_type = "configmap_updated" /\ c.target_type = "ConfigMap" /\ c.target[1] = "cm"
    \/ c.change_type = "secret_rotated" /\ c.target_type = "Secret" /\ c.target[1] = "secret"

\* The Deployments among these are no farther than any other that is reached.
Nearest(c, depend) ==
    \A d \in depend, s \in DOMAIN c.propagated :
        d[1] = "deploy" /\ s[1] = "deploy" => c.propagated[d] <= c.propagated[s]

\* A change that a sync found has reached everyone who depended on its target, which
\* is still there.
Reaches(c, depend, G) ==
    /\ depend \cap NoName = {}
    /\ FoundByPoll(c) /\ depend # {} =>
           /\ c.at > 0 /\ c.at % 2 = 0
           /\ depend \subseteq DOMAIN c.propagated /\ Nearest(c, depend)
           /\ OfItsType(c) /\ c.target \in DOMAIN G.nodes

PollInv ==
    /\ clock > 0 /\ clock % 2 = 0
    /\ dependents \in Seq(Range(dependents)) /\ Len(dependents) = Len(changes)
    /\ \A c \in Range(changes) : Reaches(c, dependents[c.id], topology)

LEMMA ReachesLater ==
    ASSUME NEW c, NEW depend, NEW G, NEW H, Reaches(c, depend, G), Stays(G, H)
    PROVE  Reaches(c, depend, H)
<1>1. OfItsType(c) => c.target[1] \notin ImageTags  BY DEF OfItsType, ImageTags
<1> QED  BY <1>1 DEF Reaches, Stays

LEMMA Named ==
    ASSUME NEW w \in Worlds, NEW r
    PROVE  Dependents(w, r) \cap NoName = {}
<1>1. /\ \A p \in Lists(w).pods : p.name # <<>>
      /\ \A d \in Lists(w).deployments : d.name # <<>>
    <2>1. \A list \in {"pods", "deployments"} : \A o \in Lists(w)[list] : o.name # <<>>  BY ListsNamed
    <2> QED  BY <2>1
<1>2. Users(Lists(w), r) \subseteq Lists(w).pods  BY DEF Users
<1>3. \A x : /\ PodId(x) \in NoName => x = <<>>
             /\ DeployId(x) \in NoName => x = <<>>
             /\ ServiceId(x) \notin NoName
    BY DEF PodId, DeployId, ServiceId, NoName
<1>4. \A d \in Owners(Users(Lists(w), r), Lists(w)) : \E e \in Lists(w).deployments : d = DeployId(e.name)
    BY DEF Owners
<1>5. \A d \in Dependents(w, r) :
          \/ \E p \in Users(Lists(w), r) : d = PodId(p.name)
          \/ d \in Owners(Users(Lists(w), r), Lists(w))
          \/ \E s \in Lists(w).services : d = ServiceId(s.name)
    BY DEF Dependents
<1> QED  BY <1>1, <1>2, <1>3, <1>4, <1>5

\* The changes that syncs find, and those that connectors report.
LEMMA FoundOrReported ==
    ASSUME NEW next, NEW c \in DetectChanges(topology, next) \cup Reported.k8sEvents.changes
                               \cup Reported.flagd.changes,
           c.source = "k8s_api", c.change_type \in {"configmap_updated", "secret_rotated"}
    PROVE  /\ c.target \in DOMAIN next.nodes
           /\ \/ c.change_type = "configmap_updated" /\ next.nodes[c.target].type = "ConfigMap"
              \/ c.change_type = "secret_rotated" /\ next.nodes[c.target].type = "Secret"
<1>1. CASE c \in DetectChanges(topology, next)
    <2>0. \E r \in DOMAIN next.nodes : \E old, new :
              /\ next.nodes[r].type \in DOMAIN SignalKeys
              /\ c = [change_type |-> ChangeTypeFor[next.nodes[r].type], target |-> r, source |-> "k8s_api",
                      old |-> old, new |-> new]
        BY <1>1, ZenonT(30) DEF DetectChanges
    <2>1. PICK r \in DOMAIN next.nodes :
              /\ next.nodes[r].type \in DOMAIN SignalKeys
              /\ c.target = r /\ c.change_type = ChangeTypeFor[next.nodes[r].type]
        BY <2>0
    <2>2. /\ DOMAIN SignalKeys = {"ConfigMap", "Secret", "Deployment"}
          /\ ChangeTypeFor["ConfigMap"] = "configmap_updated" /\ ChangeTypeFor["Secret"] = "secret_rotated"
          /\ ChangeTypeFor["Deployment"] = "deployment_rolled"
        BY DEF SignalKeys, ChangeTypeFor
    <2> QED  BY <2>1, <2>2
<1>2. CASE c \in Reported.k8sEvents.changes
    <2>1. c \in SyncK8sEvents(guests.k8sEvents, world.events, clock).changes  BY <1>2 DEF Reported
    <2>2. c.change_type = "deployment_rolled"  BY <2>1 DEF SyncK8sEvents, EventToChange
    <2> QED  BY <2>2
<1>3. CASE c \in Reported.flagd.changes
    <2>1. c \in SyncFlagd(guests.flagd, world.flags).changes  BY <1>3 DEF Reported
    <2>2. c.source = "flagd"  BY <2>1 DEF SyncFlagd
    <2> QED  BY <2>2
<1> QED  BY <1>1, <1>2, <1>3

\* What a sync records, and of which target.
LEMMA SyncRecords ==
    ASSUME EventsInv, Sync, NEW next, next = Computed(rows, world, clock)
    PROVE  /\ RegistryOK(changes') /\ Continues(changes, changes')
           /\ \A i \in DOMAIN changes' :
                 \/ i \in DOMAIN changes
                 \/ \E c \in DetectChanges(topology, next) \cup Reported.k8sEvents.changes \cup Reported.flagd.changes :
                        IsRecord(changes'[i], i, next, Request(c), clock)
<1> DEFINE U == DetectChanges(topology, next) \cup Reported.k8sEvents.changes \cup Reported.flagd.changes
<1>1. PICK found : found = IF firstSyncDone THEN DetectChanges(topology, next) ELSE {}  OBVIOUS
<1>2. PICK requests : requests = Listed(found) \o Listed(Reported.k8sEvents.changes)
                                   \o Listed(Reported.flagd.changes)
    OBVIOUS
<1>3. changes' = RecordAll(changes, requests, next)
    <2>1. PICK stored : stored = UpsertFacts(rows, Batch(world, clock), clock)  OBVIOUS
    <2>2. next = MergeMetricHealth(Resolve(LatestTopologyFacts(stored)), LatestMetricFacts(stored))
        BY <2>1 DEF Computed
    <2> QED  BY <1>1, <1>2, <2>1, <2>2 DEF Sync
<1>4. requests \in Seq(U)
    <2>1. PICK A, B, C : /\ A = Listed(found) /\ B = Listed(Reported.k8sEvents.changes)
                         /\ C = Listed(Reported.flagd.changes)
        OBVIOUS
    <2>2. A \in Seq(found) /\ B \in Seq(Reported.k8sEvents.changes) /\ C \in Seq(Reported.flagd.changes)
        BY <2>1, ListedOnce
    <2>3. found \subseteq U /\ Reported.k8sEvents.changes \subseteq U /\ Reported.flagd.changes \subseteq U
        BY <1>1
    <2> HIDE DEF U
    <2>4. A \in Seq(U) /\ B \in Seq(U) /\ C \in Seq(U)  BY <2>2, <2>3, SeqMonotonic
    <2>5. A \o B \in Seq(U)  BY <2>4, ConcatProperties
    <2>6. (A \o B) \o C \in Seq(U)  BY <2>4, <2>5, ConcatProperties
    <2> QED  BY <1>2, <2>1, <2>6
<1> HIDE DEF U
<1>5. Len(requests) \in Nat /\ \A k \in 1..Len(requests) : requests[k] \in U
    BY <1>4, LenProperties, ElementOfSeq
<1>6. clock \in Int  BY DEF EventsInv
<1>7. /\ RegistryOK(changes') /\ Continues(changes, changes')
      /\ \A i \in DOMAIN changes' :
             i \in DOMAIN changes
               \/ \E k \in 1..Len(requests) : IsRecord(changes'[i], i, next, Request(requests[k]), clock)
    BY <1>3, <1>5, <1>6, RecordedAll DEF EventsInv
<1>8. \A i \in DOMAIN changes' :
          i \in DOMAIN changes \/ \E c \in U : IsRecord(changes'[i], i, next, Request(c), clock)
    BY <1>5, <1>7
<1> QED  BY <1>7, <1>8 DEF U

LEMMA InitPoll == Init => PollInv
<1> SUFFICES ASSUME Init  PROVE PollInv  OBVIOUS
<1>1. clock > 0 /\ clock % 2 = 0  BY ConsoleAssumption DEF Init
<1>2. changes = <<>> /\ dependents = <<>> /\ Range(changes) = {}  BY DEF Init, Range
<1> QED  BY <1>1, <1>2 DEF PollInv

\* What a sync records has reached who depends on it.
LEMMA RecordReaches ==
    ASSUME NEW w \in Worlds, NEW next, GraphShows(w, next), TopologyOK(next),
           NEW now \in Nat, now > 0, now % 2 = 0,
           NEW c, NEW i, NEW e, IsRecord(e, i, next, Request(c), now),
           FoundByPoll(e) =>
               /\ c.target \in DOMAIN next.nodes
               /\ \/ c.change_type = "configmap_updated" /\ next.nodes[c.target].type = "ConfigMap"
                  \/ c.change_type = "secret_rotated" /\ next.nodes[c.target].type = "Secret"
    PROVE  Reaches(e, Dependents(w, e.target), next)
<1>1. /\ e.at = now /\ e.target = c.target /\ e.propagated = DerivePropagation(next, e.target)
      /\ e.change_type = c.change_type /\ e.target_type = TypeIn(next, e.target)
    BY DEF IsRecord, Request
<1>3. ASSUME FoundByPoll(e)  PROVE e.target \in DOMAIN next.nodes /\ OfItsType(e)
    <2>1. e.target \in DOMAIN next.nodes /\ e.target_type = next.nodes[e.target].type
        BY <1>1, <1>3 DEF TypeIn, HasNode
    <2>2. /\ next.nodes[e.target].type = "ConfigMap" => e.target[1] = "cm"
          /\ next.nodes[e.target].type = "Secret" => e.target[1] = "secret"
        BY <2>1 DEF GraphShows, DataTyped
    <2> QED  BY <1>1, <1>3, <2>1, <2>2 DEF OfItsType
<1>2. ASSUME FoundByPoll(e)
      PROVE  Dependents(w, e.target) \subseteq DOMAIN DerivePropagation(next, e.target)
    <2>1. PICK r : r = e.target  OBVIOUS
    <2>2. r \in DOMAIN next.nodes /\ r[1] \in {"cm", "secret"}
        BY <1>2, <1>3, <2>1 DEF OfItsType
    <2>3. {"USES", "CONTAINS", "ROUTES_TO"} \subseteq PropagationEdges  BY DEF PropagationEdges
    <2>4. \A d \in Dependents(w, r) : d # r /\ d \in Reach(next, r, PropagationEdges, "reverse", 4)
        BY <2>2, <2>3, DependentsReached
    <2> QED  BY <2>1, <2>4, PropagatesTo
<1>4. ASSUME FoundByPoll(e)  PROVE Nearest(e, Dependents(w, e.target))
    <2>1. PICK r : r = e.target  OBVIOUS
    <2>2. r \in DOMAIN next.nodes /\ r[1] \in {"cm", "secret"}  BY <1>3, <1>4, <2>1 DEF OfItsType
    <2>3. e.propagated = DerivePropagation(next, r)  BY <1>1, <2>1
    <2>4. \A d \in Dependents(w, r) \cap DOMAIN e.propagated, s \in DOMAIN e.propagated :
              d[1] = "deploy" /\ s[1] = "deploy" => e.propagated[d] <= e.propagated[s]
        BY <2>2, <2>3, OwnersNearest
    <2>5. Dependents(w, r) \subseteq DOMAIN e.propagated  BY <1>1, <1>2, <1>4, <2>1
    <2> QED  BY <2>1, <2>4, <2>5 DEF Nearest
<1> QED  BY <1>1, <1>2, <1>3, <1>4, Named DEF Reaches

\* The changes stay, and theirs are no others now.
LEMMA StillReaches ==
    ASSUME PollInv, Range(changes') = Range(changes), Len(changes') = Len(changes), dependents' = dependents,
           clock' = clock \/ clock' = clock + 2, clock \in Nat, Stays(topology, topology')
    PROVE  PollInv'
<1>1. clock' > 0 /\ clock' % 2 = 0
    <2>1. clock > 0 /\ clock % 2 = 0  BY DEF PollInv
    <2> QED  BY <2>1
<1>2. dependents' \in Seq(Range(dependents')) /\ Len(dependents') = Len(changes')  BY DEF PollInv
<1>3. \A c \in Range(changes') : Reaches(c, dependents'[c.id], topology')
    BY ReachesLater DEF PollInv
<1> QED  BY <1>1, <1>2, <1>3 DEF PollInv

\* Some are recorded, with their dependents.
LEMMA MoreReached ==
    ASSUME EventsInv, PollInv, clock' = clock, RegistryOK(changes'), Continues(changes, changes'),
           NEW more, more \in Seq(Range(more)), Len(more) = Len(changes') - Len(changes),
           dependents' = dependents \o more, Stays(topology, topology'),
           \A i \in DOMAIN changes' :
               i \in DOMAIN changes
                 \/ (changes'[i].id = i /\ Reaches(changes'[i], more[i - Len(changes)], topology'))
    PROVE  PollInv'
<1>1. PICK new, after : new = changes' /\ after = dependents'  OBVIOUS
<1>2. /\ Len(changes) \in Nat /\ DOMAIN changes = 1..Len(changes)
      /\ Len(new) \in Nat /\ DOMAIN new = 1..Len(new) /\ Len(changes) <= Len(new)
      /\ \A i \in DOMAIN changes : new[i] = changes[i] /\ changes[i].id \in 1..Len(changes)
    BY <1>1, LenProperties DEF EventsInv, RegistryOK, Continues
<1>3. PICK n \in Nat : n = Len(changes) /\ n = Len(dependents)  BY <1>2 DEF PollInv
<1>4. /\ after \in Seq(Range(after)) /\ Len(after) = Len(new)
      /\ \A k \in 1..n : after[k] = dependents[k]
      /\ \A k \in 1..(Len(new) - n) : after[n + k] = more[k]
    <2>1. PICK U : U = Range(dependents) \cup Range(more)  OBVIOUS
    <2>2. dependents \in Seq(U) /\ more \in Seq(U)
        <3>1. Range(dependents) \subseteq U /\ Range(more) \subseteq U  BY <2>1
        <3>2. dependents \in Seq(Range(dependents))  BY DEF PollInv
        <3> QED  BY <3>1, <3>2, SeqMonotonic
    <2>3. after = dependents \o more /\ Len(more) = Len(new) - n  BY <1>1, <1>3
    <2>4. after \in Seq(U)  BY <2>2, <2>3, ConcatProperties
    <2>5. after \in Seq(Range(after))  BY <2>4, SeqOfRange
    <2>6. Len(after) = n + Len(more)  BY <1>3, <2>2, <2>3, ConcatProperties
    <2>7. \A k \in 1..(n + Len(more)) : after[k] = IF k <= n THEN dependents[k] ELSE more[k - n]
        BY <1>3, <2>2, <2>3, ConcatProperties
    <2>8. n + Len(more) = Len(new)
        <3>1. PICK m \in Nat : m = Len(new)  BY <1>2
        <3>2. n + (m - n) = m  OBVIOUS
        <3> QED  BY <2>3, <3>1, <3>2
    <2>9. \A k \in 1..n : k \in 1..Len(new) /\ k <= n  BY <1>2, <1>3
    <2>10. \A k \in 1..(Len(new) - n) : n + k \in 1..Len(new) /\ ~(n + k <= n) /\ (n + k) - n = k
        BY <1>2, <1>3
    <2> QED  BY <2>5, <2>6, <2>7, <2>8, <2>9, <2>10
<1>5. ASSUME NEW i \in DOMAIN new  PROVE Reaches(new[i], after[new[i].id], topology')
    <2>1. CASE i \in DOMAIN changes
        <3>1. new[i] = changes[i] /\ changes[i].id \in 1..n /\ changes[i] \in Range(changes)
            BY <1>2, <1>3, <2>1 DEF Range
        <3>2. after[new[i].id] = dependents[changes[i].id]  BY <1>4, <3>1
        <3> QED  BY <3>1, <3>2, ReachesLater DEF PollInv
    <2>2. CASE i \notin DOMAIN changes
        <3>1. new[i].id = i /\ Reaches(new[i], more[i - n], topology')  BY <1>1, <1>3, <2>2
        <3>2. i - n \in 1..(Len(new) - n) /\ n + (i - n) = i  BY <1>2, <1>3, <2>2
        <3>3. after[i] = more[i - n]  BY <1>4, <3>2
        <3> QED  BY <3>1, <3>3
    <2> QED  BY <2>1, <2>2
<1>6. \A c \in Range(new) : Reaches(c, after[c.id], topology')  BY <1>5 DEF Range
<1> QED  BY <1>1, <1>4, <1>6 DEF PollInv

LEMMA SyncPoll ==
    ASSUME EventsInv, TopologyInv, PollInv, Sync  PROVE PollInv'
<1>1. PICK next : next = Computed(rows, world, clock)  OBVIOUS
<1>2. /\ next = topology' /\ GraphShows(world, next) /\ TopologyOK(next)
      /\ Stays(topology, topology')
    BY <1>1, SyncStores
<1>3. /\ RegistryOK(changes') /\ Continues(changes, changes')
      /\ \A i \in DOMAIN changes' :
            \/ i \in DOMAIN changes
            \/ \E c \in DetectChanges(topology, next) \cup Reported.k8sEvents.changes \cup Reported.flagd.changes :
                   IsRecord(changes'[i], i, next, Request(c), clock)
    BY <1>1, SyncRecords
<1>4. PICK n \in Nat : n = Len(changes') - Len(changes)
    <2>1. Len(changes) \in Nat /\ Len(changes') \in Nat  BY <1>3, LenProperties DEF EventsInv, RegistryOK
    <2> QED  BY <1>3, <2>1 DEF Continues
<1>5. PICK more : more = [i \in 1..n |-> Dependents(world, changes'[Len(changes) + i].target)]  OBVIOUS
<1>6. more \in Seq(Range(more)) /\ Len(more) = n
    <2>1. more \in [1..n -> Range(more)]  BY <1>5 DEF Range
    <2> QED  BY <1>4, <2>1
<1>7. dependents' = dependents \o more /\ clock' = clock  BY <1>4, <1>5 DEF Sync
<1>8. ASSUME NEW i \in DOMAIN changes', i \notin DOMAIN changes
      PROVE  changes'[i].id = i /\ Reaches(changes'[i], more[i - Len(changes)], topology')
    <2>1. PICK c \in DetectChanges(topology, next) \cup Reported.k8sEvents.changes \cup Reported.flagd.changes :
              IsRecord(changes'[i], i, next, Request(c), clock)
        BY <1>3, <1>8
    <2>2. PICK e : e = changes'[i]  OBVIOUS
    <2>3. IsRecord(e, i, next, Request(c), clock)  BY <2>1, <2>2
    <2>4. e.source = c.source /\ e.change_type = c.change_type  BY <2>3 DEF IsRecord, Request
    <2>5. FoundByPoll(e) =>
              /\ c.target \in DOMAIN next.nodes
              /\ \/ c.change_type = "configmap_updated" /\ next.nodes[c.target].type = "ConfigMap"
                 \/ c.change_type = "secret_rotated" /\ next.nodes[c.target].type = "Secret"
        BY <2>4, FoundOrReported DEF FoundByPoll
    <2>6. Reaches(e, Dependents(world, e.target), next)
        <3>1. world \in Worlds /\ clock \in Nat /\ clock > 0 /\ clock % 2 = 0  BY DEF EventsInv, PollInv
        <3> QED  BY <1>2, <2>3, <2>5, <3>1, RecordReaches
    <2>7. i - Len(changes) \in 1..n /\ Len(changes) + (i - Len(changes)) = i
        <3>1. /\ Len(changes) \in Nat /\ DOMAIN changes = 1..Len(changes)
              /\ Len(changes') \in Nat /\ DOMAIN changes' = 1..Len(changes')
            BY <1>3, LenProperties DEF EventsInv, RegistryOK
        <3> QED  BY <1>4, <1>8, <3>1
    <2>8. more[i - Len(changes)] = Dependents(world, e.target)  BY <1>5, <2>2, <2>7
    <2> QED  BY <1>2, <2>2, <2>3, <2>6, <2>8 DEF IsRecord
<1>9. Len(more) = Len(changes') - Len(changes)  BY <1>4, <1>6
<1>10. \A i \in DOMAIN changes' :
           i \in DOMAIN changes
             \/ (changes'[i].id = i /\ Reaches(changes'[i], more[i - Len(changes)], topology'))
    BY <1>8
<1> QED  BY <1>2, <1>3, <1>6, <1>7, <1>9, <1>10, MoreReached

LEMMA RecordChangePoll ==
    ASSUME EventsInv, PollInv, RecordChangeEvent  PROVE PollInv'
<1>1. PICK r \in Requests : changes' = RecordChange(changes, topology, [r EXCEPT !.at = At(@)], clock)
    BY DEF RecordChangeEvent
<1>2. /\ dependents' = IF changes' = changes THEN dependents ELSE Append(dependents, {})
      /\ clock' = clock /\ Stays(topology, topology')
    BY DEF RecordChangeEvent, sync, Stays
<1>3. PICK req : req = [r EXCEPT !.at = At(@)]  OBVIOUS
<1>4. clock \in Int /\ req.at \in Int
    <2>1. "at" \in DOMAIN r /\ r.at \in Int  BY ConsoleAssumption
    <2> QED  BY <1>3, <2>1 DEF At, EventsInv
<1>5. /\ RegistryOK(changes') /\ Continues(changes, changes')
      /\ \A i \in DOMAIN changes' : i \in DOMAIN changes \/ IsRecord(changes'[i], i, topology, req, clock)
    BY <1>1, <1>3, <1>4, RecordedOne DEF EventsInv
<1>6. CASE changes' = changes
    <2>1. Range(changes') = Range(changes) /\ Len(changes') = Len(changes)  BY <1>6
    <2> QED  BY <1>2, <1>6, <2>1, StillReaches DEF EventsInv
<1>7. CASE changes' # changes
    <2>1. PICK more : more = <<{}>>  OBVIOUS
    <2>2. more \in Seq(Range(more)) /\ Len(more) = 1 /\ more[1] = {}
        <3>1. more \in Seq({{}}) /\ Len(more) = 1 /\ more[1] = {}  BY <2>1
        <3> QED  BY <3>1, SeqOfRange
    <2>3. dependents' = dependents \o more
        <3>1. dependents' = Append(dependents, {})  BY <1>2, <1>7
        <3>2. PICK U : U = Range(dependents) \cup {{}}  OBVIOUS
        <3>3. dependents \in Seq(U) /\ {} \in U
            <4>1. dependents \in Seq(Range(dependents)) /\ Range(dependents) \subseteq U
                BY <3>2 DEF PollInv
            <4> QED  BY <3>2, <4>1, SeqMonotonic
        <3>4. Append(dependents, {}) = dependents \o <<{}>>  BY <3>3, AppendIsConcat
        <3> QED  BY <2>1, <3>1, <3>4
    <2>4. Len(changes') = Len(changes) + 1
        <3>1. changes' = Append(changes, ApplyFrequencyCheck(NewChange(changes, topology, req, clock),
                             Append(changes, NewChange(changes, topology, req, clock)), clock))
            BY <1>1, <1>3, <1>7 DEF RecordChange
        <3>2. changes \in Seq(Range(changes))  BY DEF EventsInv, RegistryOK
        <3> QED  BY <3>1, <3>2
    <2>5. ASSUME NEW i \in DOMAIN changes', i \notin DOMAIN changes
          PROVE  changes'[i].id = i /\ Reaches(changes'[i], more[i - Len(changes)], topology')
        <3>1. changes'[i].id = i  BY <1>5, <2>5 DEF IsRecord
        <3>2. /\ Len(changes) \in Nat /\ DOMAIN changes = 1..Len(changes) /\ DOMAIN changes' = 1..Len(changes')
            BY <1>5, LenProperties DEF EventsInv, RegistryOK
        <3>3. i - Len(changes) = 1  BY <2>4, <2>5, <3>2
        <3> QED  BY <2>2, <3>1, <3>3 DEF Reaches
    <2>6. Len(more) = Len(changes') - Len(changes)
        <3>1. Len(changes) \in Nat  BY LenProperties DEF EventsInv, RegistryOK
        <3> QED  BY <2>2, <2>4, <3>1
    <2>7. \A i \in DOMAIN changes' :
              i \in DOMAIN changes
                \/ (changes'[i].id = i /\ Reaches(changes'[i], more[i - Len(changes)], topology'))
        BY <2>5
    <2> QED  BY <1>2, <1>5, <2>2, <2>3, <2>6, <2>7, MoreReached
<1> QED  BY <1>6, <1>7

LEMMA NextPoll ==
    ASSUME EventsInv, TopologyInv, PollInv, [Next]_vars  PROVE PollInv'
<1>1. CASE Sync  BY <1>1, SyncPoll
<1>2. CASE RecordChangeEvent  BY <1>2, RecordChangePoll
<1>3. CASE Restart
    <2>1. changes' \in ListChangeEvents(changeRows) /\ dependents' = dependents /\ clock' = clock
        BY <1>3 DEF Restart
    <2>2. Len(changes') = Len(changes) /\ Range(changes') = Range(changes)
        BY <2>1, ReadBackOnce DEF EventsInv
    <2>3. Stays(topology, topology')  BY ResourcesStay
    <2> QED  BY <2>1, <2>2, <2>3, StillReaches DEF EventsInv
<1>4. CASE ~Sync /\ ~RecordChangeEvent /\ ~Restart
    <2>1. changes' = changes /\ dependents' = dependents /\ (clock' = clock \/ clock' = clock + 2)
        BY <1>4 DEF Next, Command, Tick, WorldMoves, RecordAlert, ResolveAlert, vars, events
    <2>2. Range(changes') = Range(changes) /\ Len(changes') = Len(changes)  BY <2>1
    <2>3. Stays(topology, topology')  BY ResourcesStay
    <2> QED  BY <2>1, <2>2, <2>3, StillReaches DEF EventsInv
<1> QED  BY <1>1, <1>2, <1>3, <1>4

\* A change that reaches someone is among those that concern them.
LEMMA FoundAmong ==
    ASSUME EventsInv, PollInv  PROVE ConfigChangeReachesUsers
<1> SUFFICES ASSUME NEW i \in DOMAIN changes, NEW c, c = changes[i], FoundByPoll(c),
                    NEW during, during = CorrelatedWindow(RelatedWindow, c.at, 0, clock)
             PROVE  /\ dependents[c.id] \subseteq DOMAIN c.propagated
                    /\ \A r \in dependents[c.id] :
                           c \in {m.event : m \in CorrelatedChanges(changes, topology, r, during, TRUE)}
    BY Zenon DEF ConfigChangeReachesUsers
<1>1. c \in Range(changes) /\ c.at \in Int  BY DEF EventsInv, RegistryOK, Range
<1>2. Reaches(c, dependents[c.id], topology)  BY <1>1 DEF PollInv
<1>3. dependents[c.id] \subseteq DOMAIN c.propagated  BY <1>2 DEF Reaches
<1>4. ASSUME NEW r \in dependents[c.id]
      PROVE  c \in {m.event : m \in CorrelatedChanges(changes, topology, r, during, TRUE)}
    <2>1. c.at > 0 /\ c.at % 2 = 0 /\ r \in DOMAIN c.propagated  BY <1>2, <1>4 DEF Reaches
    <2>2. during = <<c.at, ShiftIso(c.at, RelatedWindow)>>  BY <1>1, <2>1 DEF CorrelatedWindow
    <2>3. NotBefore(c.at, c.at) /\ NotAfter(c.at, ShiftIso(c.at, RelatedWindow))
        <3>1. RelatedWindow \in Nat /\ RelatedWindow % 2 = 0  BY ConsoleAssumption DEF Windows
        <3>2. PICK v \in Nat : RelatedWindow = 2 * v  BY <3>1
        <3>3. PICK a \in Int : c.at = 2 * a  BY <1>1, <2>1
        <3>4. (c.at + RelatedWindow) % 2 = 0  BY <3>2, <3>3
        <3>5. ShiftIso(c.at, RelatedWindow) = c.at + RelatedWindow  BY <1>1, <3>1, <3>4 DEF ShiftIso
        <3>6. Lexical(c.at) = c.at + 1 /\ Lexical(c.at + RelatedWindow) = c.at + RelatedWindow + 1
            BY <2>1, <3>4 DEF Lexical
        <3> QED  BY <1>1, <3>1, <3>5, <3>6 DEF NotBefore, NotAfter
    <2>4. c \in ListChanges(changes, during[1], during[2])  BY <1>1, <2>2, <2>3 DEF ListChanges
    <2>5. PICK n : n = IF c.target = r THEN 0 ELSE Max({1, FindPropagationPath(topology, c.target, r)})  OBVIOUS
    <2>6. [event |-> c, distance |-> n] \in CorrelatedChanges(changes, topology, r, during, TRUE)
        BY <2>1, <2>4, <2>5, Zenon DEF CorrelatedChanges
    <2>7. PICK m : m = [event |-> c, distance |-> n]  OBVIOUS
    <2>8. m \in CorrelatedChanges(changes, topology, r, during, TRUE) /\ m.event = c  BY <2>6, <2>7
    <2> QED  BY <2>8
<1> QED  BY <1>3, <1>4

\* What an event is about is what its alert is about.
LEMMA EventIsOf ==
    ASSUME NEW w \in Worlds, NEW ev \in w.events, NEW a, AlertOK(a), a.id[1] = "k8s-events", a.id[2] = ev.uid,
           NEW s \in Subjects(ev, w), s \notin NoName
    PROVE  a.ref = s
<1>0. PICK v \in Worlds : \E e \in v.events : a.id[2] = e.uid /\ a.ref = EventRef(e)  BY DEF AlertOK
<1>1. PICK e \in v.events : a.id[2] = e.uid /\ a.ref = EventRef(e)  BY <1>0
<1>2. e.kind = ev.kind /\ e.name = ev.name
    <2>1. \A x, y \in Worlds : \A f \in x.events, g \in y.events :
              f.uid = g.uid => f.kind = g.kind /\ f.name = g.name
        BY ClusterAssumption, Zenon
    <2>2. e.uid = ev.uid  BY <1>1
    <2> QED  BY <2>1, <2>2
<1>3. CASE ev.kind = "ReplicaSet"
    <2>1. PICK d \in DeployOf(ev.name, w.cluster.replicasets) : s = DeployId(d)  BY <1>3 DEF Subjects
    <2>2. PICK q \in w.cluster.replicasets : q.name = ev.name /\ q.deploy = d /\ d # <<>>
        BY <2>1 DEF DeployOf
    <2>3. "replicasets" \in DOMAIN w.cluster  BY ClusterAssumption
    <2>4. q.name # <<>>
        <3>1. \A list \in DOMAIN w.cluster : \A o, p \in w.cluster[list] : o.name # <<>>  BY ClusterAssumption
        <3>2. q \in w.cluster["replicasets"]  BY <2>2
        <3> QED  BY <2>3, <3>1, <3>2
    <2>5. Len(q.name) > 1 /\ SubSeq(q.name, 1, Len(q.name) - 1) = d  BY <2>2, ClusterAssumption
    <2>6. HasTarget(e)  BY <1>2, <1>3, <2>2, <2>4 DEF HasTarget
    <2>7. TargetResourceId(e) = DeployId(SubSeq(e.name, 1, Len(e.name) - 1))
        BY <1>2, <1>3, <2>2, <2>5 DEF TargetResourceId
    <2> QED  BY <1>1, <1>2, <2>1, <2>2, <2>5, <2>6, <2>7 DEF EventRef
<1>4. CASE ev.kind = "Deployment"
    <2>1. s = DeployId(ev.name)  BY <1>4 DEF Subjects
    <2>2. ev.name # <<>>  BY <2>1 DEF NoName
    <2> QED  BY <1>1, <1>2, <1>4, <2>1, <2>2 DEF EventRef, HasTarget, TargetResourceId
<1>5. CASE ev.kind = "Pod"
    <2>1. s = PodId(ev.name)  BY <1>5 DEF Subjects
    <2>2. ev.name # <<>>  BY <2>1 DEF NoName
    <2> QED  BY <1>1, <1>2, <1>5, <2>1, <2>2 DEF EventRef, HasTarget, TargetResourceId
<1>6. CASE ev.kind \notin {"ReplicaSet", "Deployment", "Pod"}
    <2>1. Subjects(ev, w) = {}  BY <1>6 DEF Subjects
    <2> QED  BY <2>1
<1> QED  BY <1>3, <1>4, <1>5, <1>6

LEMMA CauseFound ==
    ASSUME EventsInv, PollInv  PROVE AlertsFindTheirCause
<1> SUFFICES ASSUME NEW w \in Worlds, NEW ev \in w.events, NEW k \in DOMAIN alerts, NEW i \in DOMAIN changes,
                    NEW a, a = Get(alerts, alerts[k].id), NEW c, c = changes[i],
                    a.fired_at > 0, a.fired_at % 2 = 0, a.id[1] = "k8s-events", a.id[2] = ev.uid,
                    FoundByPoll(c), Subjects(ev, w) \cap dependents[changes[i].id] # {},
                    NEW apart, apart = SecondsBetween(c.at, a.fired_at)
             PROVE  /\ apart <= AlertWindow \div 2 => a \in CorrelateAlerts(changes, alerts, c.id, AlertWindow)
                    /\ apart <= ChangeWindow \div 2 =>
                           c \in CorrelateChangesForAlert(changes, alerts, a.id, ChangeWindow)
    BY Zenon DEF AlertsFindTheirCause
<1>1. /\ a \in Range(alerts) /\ Known(alerts, a.id) /\ Get(alerts, a.id) = a
    BY GetAlert DEF EventsInv
<1>2. AlertOK(a)  BY <1>1 DEF EventsInv, AlertsOK, Range
<1>3. c \in Range(changes) /\ Reaches(c, dependents[c.id], topology)  BY DEF PollInv, Range
<1>4. PICK s \in Subjects(ev, w) : s \in dependents[c.id]  OBVIOUS
<1>5. s \notin NoName /\ c.at % 2 = 0 /\ s \in DOMAIN c.propagated  BY <1>3, <1>4 DEF Reaches
<1>6. a.ref = s  BY <1>2, <1>4, <1>5, EventIsOf
<1>7. Concerns(c, a.ref)  BY <1>5, <1>6 DEF Concerns
<1>8. ASSUME NEW window, apart <= window \div 2
      PROVE  c \in CorrelateChangesForAlert(changes, alerts, a.id, window)
    BY <1>1, <1>3, <1>7, <1>8 DEF CorrelateChangesForAlert, ChangesAround
<1>9. ASSUME apart <= AlertWindow \div 2  PROVE a \in CorrelateAlerts(changes, alerts, c.id, AlertWindow)
    <2>1. CorrelationIsMutual  BY MutualNow
    <2>2. AlertWindow <= AlertWindow  BY ConsoleAssumption DEF Windows
    <2> QED  BY <1>5, <1>8, <1>9, <2>1, <2>2 DEF CorrelationIsMutual
<1> QED  BY <1>8, <1>9

\* A repository and a container meet at the image of both.
LEMMA BuildsShown ==
    ASSUME TopologyInv  PROVE BuildsReachPods
<1> SUFFICES ASSUME NEW w \in synced, NEW p \in Lists(w).pods, NEW c \in {b \in p.containers : HasImage(b)},
                    NEW d \in {e \in Entered(w.tree, w.roots) : "Dockerfile" \in DOMAIN w.tree[e].files},
                    NEW i \in ParseDockerfile(w.tree[d].files["Dockerfile"]), SameImage(i, c.image)
             PROVE  \E r \in DOMAIN topology.nodes :
                        {Edge(RepoId(w.tree[d].name), r, "BUILDS"),
                         Edge(ContainerId(p.name, c.name), r, "USES_IMAGE")} \subseteq topology.edges
    BY Zenon DEF BuildsReachPods, HasImage
<1>1. ImagesShown(w, topology)  BY DEF TopologyInv, GraphShows
<1>2. PICK r \in DOMAIN topology.nodes :
          /\ Edge(ContainerId(p.name, c.name), r, "USES_IMAGE") \in topology.edges
          /\ Edge(RepoId(w.tree[d].name), r, "BUILDS") \in topology.edges
    BY <1>1, ZenonT(40) DEF ImagesShown
<1> QED  BY <1>2

-----------------------------------------------------------------------------
(* The views *)

\* A pod with its Deployment.
Whole(w, p) == {PodId(p.name)} \cup Owners({p}, Lists(w))

LEMMA WholeShown ==
    ASSUME NEW w, NEW G, GraphShows(w, G), NEW p \in Lists(w).pods
    PROVE  /\ PodId(p.name) \in DOMAIN G.nodes
           /\ \A d \in Whole(w, p) : /\ d \in DOMAIN G.nodes
                                     /\ d = PodId(p.name) \/ Edge(d, PodId(p.name), "CONTAINS") \in G.edges
BY DEF GraphShows, PodsOwned, Whole

LEMMA EndsOf ==
    \A s, t, type : Edge(s, t, type).source = s /\ Edge(s, t, type).target = t /\ Edge(s, t, type).edge_type = type
BY DEF Edge

LEMMA ConfigView ==
    ASSUME NEW w, NEW G, GraphShows(w, G), NEW r \in TargetsOf(w)
    PROVE  /\ r \in DOMAIN G.nodes /\ r[1] \in {"cm", "secret"}
           /\ Dependents(w, r) \subseteq DOMAIN ConfigImpact(G, r).nodes
<1>1. r \in DOMAIN G.nodes  BY DEF GraphShows, DataShown
<1>2. r[1] \in {"cm", "secret"}  BY DEF TargetsOf, ConfigMapId, SecretId
<1>3. {"USES", "CONTAINS", "ROUTES_TO"} \subseteq ConfigImpactEdges  BY DEF ConfigImpactEdges
<1>4. \A d \in Dependents(w, r) : d \in DOMAIN G.nodes /\ d \in Reach(G, r, ConfigImpactEdges, "reverse", 4)
    BY <1>1, <1>2, <1>3, DependentsReached
<1>5. \A d \in Dependents(w, r) : d \in DOMAIN Subgraph(G, r, 4, ConfigImpactEdges, "reverse").nodes
    BY <1>4, SubgraphHolds
<1> QED  BY <1>1, <1>2, <1>5 DEF ConfigImpact

LEMMA NodeView ==
    ASSUME NEW w, NEW G, GraphShows(w, G), NEW n \in Lists(w).nodes, NEW p \in Lists(w).pods, p.node = n.name
    PROVE  Whole(w, p) \subseteq DOMAIN NodeImpact(G, NodeId(n.name)).nodes
<1>1. PICK start, pod : start = NodeId(n.name) /\ pod = PodId(p.name)  OBVIOUS
<1>2. start \in DOMAIN G.nodes /\ Edge(pod, start, "SCHEDULED_ON") \in G.edges
    BY <1>1 DEF GraphShows, NodesShown
<1>3. {"SCHEDULED_ON", "CONTAINS"} \subseteq NodeImpactEdges  BY DEF NodeImpactEdges
<1>4. \A d \in Whole(w, p) : d \in DOMAIN G.nodes /\ (d = pod \/ Edge(d, pod, "CONTAINS") \in G.edges)
    BY <1>1, WholeShown
<1>5. PICK R : R = Reach(G, start, NodeImpactEdges, "reverse", 4)  OBVIOUS
<1>6. \A e \in G.edges : e.edge_type \in NodeImpactEdges /\ e.target = start =>
          /\ e.source \in R
          /\ \A f \in G.edges : f.edge_type \in NodeImpactEdges /\ f.target = e.source => f.source \in R
    BY <1>2, <1>5, ReachesBack
<1>7. pod \in R /\ \A f \in G.edges : f.edge_type \in NodeImpactEdges /\ f.target = pod => f.source \in R
    BY <1>2, <1>3, <1>6, EndsOf
<1>8. \A d \in Whole(w, p) : d \in DOMAIN G.nodes /\ d \in R  BY <1>3, <1>4, <1>7, EndsOf
<1>9. \A d \in Whole(w, p) : d \in DOMAIN Subgraph(G, start, 4, NodeImpactEdges, "reverse").nodes
    BY <1>5, <1>8, SubgraphHolds
<1> QED  BY <1>1, <1>9 DEF NodeImpact

LEMMA ImageView ==
    ASSUME NEW w, NEW G, GraphShows(w, G), NEW p \in Lists(w).pods,
           NEW c \in {b \in p.containers : HasImage(b)}
    PROVE  \E r \in ListResourcesByTypes(G, {"ContainerImage"}) :
               SameImage(G.nodes[r].attrs.image, c.image) /\ Whole(w, p) \subseteq DOMAIN ImageRisk(G, r).nodes
<1>1. PICK r \in DOMAIN G.nodes :
          /\ G.nodes[r].type = "ContainerImage" /\ SameImage(G.nodes[r].attrs.image, c.image)
          /\ Edge(PodId(p.name), ContainerId(p.name, c.name), "RUNS") \in G.edges
          /\ Edge(ContainerId(p.name, c.name), r, "USES_IMAGE") \in G.edges
    <2>1. ImagesShown(w, G)  BY DEF GraphShows
    <2> QED  BY <2>1, ZenonT(40) DEF ImagesShown
<1>2. PICK pod, box : pod = PodId(p.name) /\ box = ContainerId(p.name, c.name)  OBVIOUS
<1>3. PICK types : types = ImageRiskEdges  OBVIOUS
<1>4. {"USES_IMAGE", "RUNS", "CONTAINS"} \subseteq types  BY <1>3 DEF ImageRiskEdges
<1>5. PICK e, f \in G.edges : e = Edge(box, r, "USES_IMAGE") /\ f = Edge(pod, box, "RUNS")
    BY <1>1, <1>2
<1>6. e.target = r /\ e.source = box /\ f.target = box /\ f.source = pod /\ {e.edge_type, f.edge_type} \subseteq types
    BY <1>4, <1>5, EndsOf
<1>7. PICK R : R = Reach(G, r, types, "reverse", 4)  OBVIOUS
<1>8. pod \in R  BY <1>6, <1>7, ReachesBack
<1>9. ASSUME NEW d, Edge(d, pod, "CONTAINS") \in G.edges  PROVE d \in R
    <2>1. PICK g \in G.edges : g = Edge(d, pod, "CONTAINS")  BY <1>9
    <2>2. g.target = f.source /\ g.source = d /\ {e.edge_type, f.edge_type, g.edge_type} \subseteq types
        BY <1>4, <1>6, <2>1, EndsOf
    <2>3. {e.source, f.source, g.source} \subseteq R  BY <1>6, <1>7, <2>2, ReachesFarBack
    <2> QED  BY <2>2, <2>3
<1>10. \A d \in Whole(w, p) : d \in DOMAIN G.nodes /\ d \in R  BY <1>2, <1>8, <1>9, WholeShown
<1>11. \A d \in Whole(w, p) : d \in DOMAIN Subgraph(G, r, 4, types, "reverse").nodes
    BY <1>7, <1>10, SubgraphHolds
<1>12. Whole(w, p) \subseteq DOMAIN ImageRisk(G, r).nodes  BY <1>3, <1>11 DEF ImageRisk
<1> QED  BY <1>1, <1>12 DEF ListResourcesByTypes

LEMMA ServiceView ==
    ASSUME NEW w, NEW G, GraphShows(w, G), NEW s \in Lists(w).services, NEW p \in Lists(w).pods,
           LabelsMatch(p.labels, s.selector)
    PROVE  Whole(w, p) \subseteq DOMAIN AccessLink(G, ServiceId(s.name)).nodes
<1>1. PICK start, pod : start = ServiceId(s.name) /\ pod = PodId(p.name)  OBVIOUS
<1>2. PICK types : types = AccessLinkEdges  OBVIOUS
<1>3. start \in DOMAIN G.nodes /\ Edge(start, pod, "ROUTES_TO") \in G.edges
    BY <1>1 DEF GraphShows, ServicesShown
<1>4. {"ROUTES_TO", "CONTAINS"} \subseteq types  BY <1>2 DEF AccessLinkEdges
<1>5. PICK e \in G.edges : e = Edge(start, pod, "ROUTES_TO")  BY <1>3
<1>6. e.source = start /\ e.target = pod /\ e.edge_type \in types  BY <1>4, <1>5, EndsOf
<1>7. PICK R : R = Reach(G, start, types, "both", 5)  OBVIOUS
<1>8. pod \in R /\ \A f \in G.edges : f.edge_type \in types /\ f.target = pod => f.source \in R
    BY <1>3, <1>6, <1>7, ReachesForth
<1>9. \A d \in Whole(w, p) : d \in DOMAIN G.nodes /\ d \in R  BY <1>1, <1>4, <1>8, WholeShown, EndsOf
<1>10. \A d \in Whole(w, p) : d \in DOMAIN Subgraph(G, start, 5, types, "both").nodes
    BY <1>7, <1>9, SubgraphHolds
<1> QED  BY <1>1, <1>2, <1>10 DEF AccessLink

\* From each of those that depend on it, a ConfigMap or Secret is two steps away.
LEMMA AlertView ==
    ASSUME NEW w, NEW G, GraphShows(w, G), NEW r \in TargetsOf(w), NEW a \in Range(alerts),
           a.status = "firing", a.severity \in {"critical", "warning"}, a.ref \in Dependents(w, r)
    PROVE  r \in AlertAggregationGraph(alerts, G, {"critical", "warning"}, 2).nodes
<1>1. PICK start : start = a.ref  OBVIOUS
<1>2. PICK types : types = AlertContextEdges  OBVIOUS
<1>3. {"USES", "CONTAINS", "ROUTES_TO"} \subseteq types  BY <1>2 DEF AlertContextEdges
<1>4. r \in DOMAIN G.nodes /\ r[1] \in {"cm", "secret"}  BY ConfigView
<1>5. start \in DOMAIN G.nodes  BY <1>1, <1>3, <1>4, DependentsReached
<1>6. PICK R : R = Reach(G, start, types, "both", 2)  OBVIOUS
<1>7. ASSUME NEW x, NEW type \in types, Edge(start, x, type) \in G.edges
      PROVE  x \in R /\ (Edge(x, r, "USES") \in G.edges => r \in R)
    <2>1. PICK e \in G.edges : e = Edge(start, x, type)  BY <1>7
    <2>2. e.source = start /\ e.target = x /\ e.edge_type \in types  BY <2>1, EndsOf
    <2>3. x \in R /\ \A f \in G.edges : f.edge_type \in types => (f.source = x => f.target \in R)
        BY <1>5, <1>6, <2>2, ReachesForth
    <2> QED  BY <1>3, <2>3, EndsOf
<1>8. \A p \in Users(Lists(w), r) : p \in Lists(w).pods /\ Edge(PodId(p.name), r, "USES") \in G.edges
    BY <1>4 DEF GraphShows, UsesShown, Users
<1>9. r \in R
    <2>1. CASE \E p \in Users(Lists(w), r) : start = PodId(p.name)
        BY <1>3, <1>7, <1>8, <2>1
    <2>2. CASE start \in Owners(Users(Lists(w), r), Lists(w))
        <3>1. PICK p \in Users(Lists(w), r) : start \in Owners({p}, Lists(w))
            BY <2>2 DEF Owners
        <3>2. Edge(start, PodId(p.name), "CONTAINS") \in G.edges
            BY <1>8, <3>1 DEF GraphShows, PodsOwned
        <3> QED  BY <1>3, <1>7, <1>8, <3>2
    <2>3. CASE \E s \in Lists(w).services : \E p \in Users(Lists(w), r) :
                   LabelsMatch(p.labels, s.selector) /\ start = ServiceId(s.name)
        <3>1. PICK s \in Lists(w).services, p \in Users(Lists(w), r) :
                  LabelsMatch(p.labels, s.selector) /\ start = ServiceId(s.name)
            BY <2>3
        <3>2. Edge(start, PodId(p.name), "ROUTES_TO") \in G.edges
            BY <1>8, <3>1 DEF GraphShows, ServicesShown
        <3> QED  BY <1>3, <1>7, <1>8, <3>2
    <2> QED  BY <1>1, <2>1, <2>2, <2>3 DEF Dependents
<1>10. PICK graph : graph = Subgraph(G, a.ref, 2, AlertContextEdges, "both")  OBVIOUS
<1>11. r \in DOMAIN graph.nodes  BY <1>1, <1>2, <1>4, <1>6, <1>9, <1>10, SubgraphHolds
<1>12. PICK placed : placed = {b \in {x \in Range(alerts) : x.status = "firing" /\ x.severity \in {"critical", "warning"}} :
                                  HasNode(G, b.ref)}
    OBVIOUS
<1>13. a \in placed  BY <1>1, <1>5, <1>12 DEF HasNode
<1>14. PICK around : around = {Subgraph(G, b.ref, 2, AlertContextEdges, "both") : b \in placed}  OBVIOUS
<1>15. graph \in around  BY <1>10, <1>13, <1>14
<1>16. AlertAggregationGraph(alerts, G, {"critical", "warning"}, 2).nodes = UNION {DOMAIN g.nodes : g \in around}
    BY <1>12, <1>14 DEF AlertAggregationGraph
<1> QED  BY <1>11, <1>15, <1>16

\* Every view shows who is concerned.
LEMMA DependentsShown ==
    ASSUME EventsInv, TopologyInv  PROVE ViewsShowDependents
<1>1. ASSUME NEW w \in synced
      PROVE  /\ \A r \in TargetsOf(w) : Dependents(w, r) \subseteq DOMAIN ConfigImpact(topology, r).nodes
             /\ \A n \in Lists(w).nodes : \A p \in {q \in Lists(w).pods : q.node = n.name} :
                    Whole(w, p) \subseteq DOMAIN NodeImpact(topology, NodeId(n.name)).nodes
             /\ \A p \in Lists(w).pods : \A c \in {b \in p.containers : HasImage(b)} :
                    \E r \in ListResourcesByTypes(topology, {"ContainerImage"}) :
                        /\ SameImage(topology.nodes[r].attrs.image, c.image)
                        /\ Whole(w, p) \subseteq DOMAIN ImageRisk(topology, r).nodes
             /\ \A s \in Lists(w).services : \A p \in Lists(w).pods :
                    LabelsMatch(p.labels, s.selector) =>
                        Whole(w, p) \subseteq DOMAIN AccessLink(topology, ServiceId(s.name)).nodes
             /\ \A r \in TargetsOf(w) : \A a \in Range(alerts) :
                    a.status = "firing" /\ a.ref \in Dependents(w, r) =>
                        r \in AlertAggregationGraph(alerts, topology, {"critical", "warning"}, 2).nodes
    <2>1. GraphShows(w, topology)  BY <1>1 DEF TopologyInv
    <2>2. \A r \in TargetsOf(w) : Dependents(w, r) \subseteq DOMAIN ConfigImpact(topology, r).nodes
        BY <2>1, ConfigView
    <2>3. \A n \in Lists(w).nodes : \A p \in {q \in Lists(w).pods : q.node = n.name} :
              Whole(w, p) \subseteq DOMAIN NodeImpact(topology, NodeId(n.name)).nodes
        BY <2>1, NodeView
    <2>4. \A p \in Lists(w).pods : \A c \in {b \in p.containers : HasImage(b)} :
              \E r \in ListResourcesByTypes(topology, {"ContainerImage"}) :
                  /\ SameImage(topology.nodes[r].attrs.image, c.image)
                  /\ Whole(w, p) \subseteq DOMAIN ImageRisk(topology, r).nodes
        BY <2>1, ImageView
    <2>5. \A s \in Lists(w).services : \A p \in Lists(w).pods :
              LabelsMatch(p.labels, s.selector) =>
                  Whole(w, p) \subseteq DOMAIN AccessLink(topology, ServiceId(s.name)).nodes
        BY <2>1, ServiceView
    <2>6. \A a \in Range(alerts) : a.severity \in {"critical", "warning"}
        BY DEF EventsInv, AlertsOK, AlertOK, Range
    <2>7. \A r \in TargetsOf(w) : \A a \in Range(alerts) :
              a.status = "firing" /\ a.ref \in Dependents(w, r) =>
                  r \in AlertAggregationGraph(alerts, topology, {"critical", "warning"}, 2).nodes
        BY <2>1, <2>6, AlertView
    <2> QED  BY <2>2, <2>3, <2>4, <2>5, <2>7
<1> QED  BY <1>1, ZenonT(60) DEF ViewsShowDependents, HasImage, Whole

-----------------------------------------------------------------------------
(* What is suggested *)

LEMMA Targeted ==
    /\ {"rollback_deployment", "refresh_secret"} \subseteq DOMAIN Catalogue!ActionDefs
    /\ Catalogue!ActionDefs["rollback_deployment"].target = "Deployment"
    /\ Catalogue!ActionDefs["refresh_secret"].target = "Secret"
BY DEF Catalogue!ActionDefs

\* The preview of a rollback counts the pods of its Deployment.
LEMMA PodAffected ==
    ASSUME NEW G, NEW t \in DOMAIN G.nodes, G.nodes[t].type = "Deployment",
           NEW q \in DOMAIN G.nodes, G.nodes[q].type = "Pod", Edge(t, q, "CONTAINS") \in G.edges
    PROVE  q \in DOMAIN DryRun(G, "rollback_deployment", t, 0).affected
<1>1. PICK rule : rule = Rule("CONTAINS", "forward", 1, "Pod", "medium")  OBVIOUS
<1>2. PICK rules : rules = PropagationRules["rollback_deployment"]  OBVIOUS
<1>3. rule \in rules  BY <1>1, <1>2 DEF PropagationRules
<1>4. /\ rule.edge = "CONTAINS" /\ rule.dir = "forward" /\ rule.depth = 1 /\ rule.type = "Pod"
    BY <1>1 DEF Rule
<1>5. q \in Reach(G, t, {"CONTAINS"}, "forward", 1)
    <2>1. t \in Reach(G, t, {"CONTAINS"}, "forward", 0)
        <3>1. PICK types, dir : types = {"CONTAINS"} /\ dir = "forward"  OBVIOUS
        <3>2. Reach(G, t, types, dir, 0) = {t} \cap DOMAIN G.nodes  BY VisitedNext
        <3> QED  BY <3>1, <3>2
    <2>2. PICK e \in G.edges : e = Edge(t, q, "CONTAINS")  OBVIOUS
    <2>3. e.source = t /\ e.target = q /\ e.edge_type \in {"CONTAINS"}  BY <2>2 DEF Edge
    <2>4. PICK types : types = {"CONTAINS"}  OBVIOUS
    <2>5. e.target \in Reach(G, t, types, "forward", 0 + 1)  BY <2>1, <2>3, <2>4, ReachesOn
    <2> QED  BY <2>3, <2>4, <2>5, 0 + 1 = 1
<1>6. q \in Walk(G, t, rule)
    <2>1. PICK V : V = Visited(G, t, {"CONTAINS"}, "forward", 1)  OBVIOUS
    <2>2. PICK D : D = Restrict(V, DOMAIN V \ {t})  OBVIOUS
    <2>3. DOMAIN D = DOMAIN V \ {t}  BY <2>2 DEF Restrict
    <2>4. q \in DOMAIN V  BY <1>5, <2>1 DEF Reach
    <2>5. q # t  OBVIOUS
    <2>6. Distances(G, t, {rule.edge}, rule.dir, rule.depth) = D
        BY <1>4, <2>1, <2>2, Zenon DEF Distances
    <2>7. Walk(G, t, rule) = {r \in DOMAIN D : HasNode(G, r) /\ (rule.type = "any" \/ G.nodes[r].type = rule.type)}
        BY <2>6, Zenon DEF Walk
    <2> QED  BY <1>4, <2>3, <2>4, <2>5, <2>7 DEF HasNode
<1>7. q \in DOMAIN Affected(G, "rollback_deployment", t)
    <2>1. DOMAIN Affected(G, "rollback_deployment", t) = UNION {Walk(G, t, h) : h \in rules}
        BY <1>2 DEF Affected
    <2> QED  BY <1>3, <1>6, <2>1
<1>8. DryRun(G, "rollback_deployment", t, 0).affected = Affected(G, "rollback_deployment", t)
    <2>1. TargetValid(G, "rollback_deployment", t)  BY Targeted DEF TargetValid, HasNode
    <2> QED  BY <2>1, Targeted DEF DryRun
<1> QED  BY <1>7, <1>8

\* The preview takes a target of the type of the action.
LEMMA PreviewTakes ==
    ASSUME NEW G, NEW a \in DOMAIN Catalogue!ActionDefs, NEW t \in DOMAIN G.nodes,
           G.nodes[t].type = Catalogue!ActionDefs[a].target
    PROVE  DryRun(G, a, t, 0).valid
<1>1. TargetValid(G, a, t)  BY DEF TargetValid, HasNode
<1> QED  BY <1>1 DEF DryRun

\* What SuggestedRollbackFits says of one change.
FitsOne(c, w, users, suggested) ==
    FoundByPoll(c) /\ {r \in users : r[1] = "deploy"} # {} =>
        /\ {r \in users : r[1] = "deploy"} \subseteq suggested["rollback_deployment"]
        /\ \A a \in DOMAIN suggested :
               suggested[a] # {} /\ \A t \in suggested[a] : DryRun(topology, a, t, 0).valid
        /\ \A p \in Lists(w).pods : \A t \in suggested["rollback_deployment"] \cap Owners({p}, Lists(w)) :
               PodId(p.name) \in DOMAIN DryRun(topology, "rollback_deployment", t, 0).affected

LEMMA FitsEach ==
    SuggestedRollbackFits <=>
        \A i \in DOMAIN changes : \A w \in synced :
            FitsOne(changes[i], w, dependents[changes[i].id] \cap Dependents(w, changes[i].target),
                    GetRecoverySuggestion(changes, topology, changes[i].id))
BY Zenon DEF SuggestedRollbackFits, FitsOne

LEMMA SuggestionsNow ==
    ASSUME EventsInv, TopologyInv, PollInv  PROVE SuggestedRollbackFits
<1> SUFFICES ASSUME NEW i \in DOMAIN changes, NEW w \in synced, NEW c, c = changes[i],
                    NEW users, users = dependents[c.id] \cap Dependents(w, c.target),
                    NEW suggested, suggested = GetRecoverySuggestion(changes, topology, c.id)
             PROVE  FitsOne(c, w, users, suggested)
    BY FitsEach
<1> SUFFICES ASSUME FoundByPoll(c), NEW deployments, deployments = {r \in users : r[1] = "deploy"},
                    deployments # {}
             PROVE  /\ deployments \subseteq suggested["rollback_deployment"]
                    /\ \A a \in DOMAIN suggested :
                           suggested[a] # {} /\ \A t \in suggested[a] : DryRun(topology, a, t, 0).valid
                    /\ \A p \in Lists(w).pods :
                       \A t \in suggested["rollback_deployment"] \cap Owners({p}, Lists(w)) :
                           PodId(p.name) \in DOMAIN DryRun(topology, "rollback_deployment", t, 0).affected
    BY Zenon DEF FitsOne
<1>1. c \in Range(changes) /\ Reaches(c, dependents[c.id], topology)  BY DEF PollInv, Range
<1>2. dependents[c.id] # {}  OBVIOUS
<1>3. /\ dependents[c.id] \subseteq DOMAIN c.propagated /\ Nearest(c, dependents[c.id])
      /\ OfItsType(c) /\ c.target \in DOMAIN topology.nodes
    BY <1>1, <1>2 DEF Reaches
<1>4. GraphShows(w, topology)  BY DEF TopologyInv
<1>5. \A r \in DOMAIN topology.nodes : /\ topology.nodes[r].type = "Deployment" <=> r[1] = "deploy"
                                       /\ topology.nodes[r].type = "Secret" <=> r[1] = "secret"
                                       /\ topology.nodes[r].type = "Pod" <=> r[1] = "pod"
    BY <1>4 DEF GraphShows, DataTyped
<1>6. \A d \in deployments : d \in DOMAIN topology.nodes /\ d \in dependents[c.id] /\ d[1] = "deploy"
    <2>1. c.target[1] \in {"cm", "secret"}  BY <1>3 DEF OfItsType
    <2>2. \A d \in Dependents(w, c.target) : d \in DOMAIN topology.nodes
        BY <1>3, <1>4, <2>1, DependentsReached
    <2> QED  BY <2>2
<1>7. /\ DOMAIN suggested = SuggestForChange(c.change_type)
      /\ \A a \in DOMAIN suggested : suggested[a] = SuggestedTargets(c, topology, a)
    <2>1. Get(changes, c.id) = c  BY GetChange DEF EventsInv
    <2> QED  BY <2>1 DEF GetRecoverySuggestion
<1>8. PICK targets : targets = SuggestedTargets(c, topology, "rollback_deployment")  OBVIOUS
<1>9. /\ targets \subseteq DOMAIN topology.nodes /\ \A t \in targets : topology.nodes[t].type = "Deployment"
      /\ deployments \subseteq targets
    <2>1. PICK fit : fit = {r \in DOMAIN c.propagated :
                               HasNode(topology, r) /\ topology.nodes[r].type = "Deployment"}
        OBVIOUS
    <2>2. c.target_type # "Deployment"  BY <1>3 DEF OfItsType
    <2>3. targets = {r \in fit : \A s \in fit : c.propagated[r] <= c.propagated[s]}
        BY <1>8, <2>1, <2>2, Targeted DEF SuggestedTargets
    <2>4. \A r \in fit : r \in DOMAIN c.propagated /\ r \in DOMAIN topology.nodes
                        /\ topology.nodes[r].type = "Deployment" /\ r[1] = "deploy"
        BY <1>5, <2>1 DEF HasNode
    <2>5. \A d \in deployments : d \in fit  BY <1>3, <1>5, <1>6, <2>1 DEF HasNode
    <2>6. \A d \in deployments, s \in fit : c.propagated[d] <= c.propagated[s]
        BY <1>3, <1>6, <2>4 DEF Nearest
    <2> QED  BY <2>3, <2>4, <2>5, <2>6
<1>10. \/ DOMAIN suggested = {"rollback_deployment"}
       \/ /\ DOMAIN suggested = {"refresh_secret", "rollback_deployment"}
          /\ c.target_type = "Secret" /\ c.target[1] = "secret"
    BY <1>3, <1>7 DEF OfItsType, SuggestForChange
<1>11. suggested["rollback_deployment"] = targets  BY <1>7, <1>8, <1>10
<1>12. ASSUME NEW a \in DOMAIN suggested
       PROVE  suggested[a] # {} /\ \A t \in suggested[a] : DryRun(topology, a, t, 0).valid
    <2>1. CASE a = "rollback_deployment"
        <3>1. suggested[a] = targets /\ a \in DOMAIN Catalogue!ActionDefs
              /\ Catalogue!ActionDefs[a].target = "Deployment"
            BY <1>11, <2>1, Targeted
        <3> QED  BY <1>9, <3>1, PreviewTakes
    <2>2. CASE a # "rollback_deployment"
        <3>1. a = "refresh_secret" /\ c.target_type = "Secret" /\ c.target[1] = "secret"
            BY <1>10, <1>12, <2>2
        <3>2. /\ a \in DOMAIN Catalogue!ActionDefs /\ Catalogue!ActionDefs[a].target = "Secret"
            BY <3>1, Targeted
        <3>3. suggested[a] = {c.target}  BY <1>7, <3>1, <3>2 DEF SuggestedTargets
        <3>4. topology.nodes[c.target].type = "Secret"  BY <1>3, <1>5, <3>1
        <3> QED  BY <1>3, <3>2, <3>3, <3>4, PreviewTakes
    <2> QED  BY <2>1, <2>2
<1>13. ASSUME NEW p \in Lists(w).pods, NEW t \in targets \cap Owners({p}, Lists(w))
       PROVE  PodId(p.name) \in DOMAIN DryRun(topology, "rollback_deployment", t, 0).affected
    <2>1. /\ PodId(p.name) \in DOMAIN topology.nodes
          /\ Edge(t, PodId(p.name), "CONTAINS") \in topology.edges
        BY <1>4 DEF GraphShows, PodsOwned
    <2>2. PodId(p.name)[1] = "pod"  BY DEF PodId
    <2> QED  BY <1>5, <1>9, <2>1, <2>2, PodAffected
<1> QED  BY <1>9, <1>11, <1>12, <1>13

-----------------------------------------------------------------------------
(* Health *)

\* What the cluster says of the pod that a sample measures, and what the samples say.
OwnHealth(w, s) == {PodHealth(p) : p \in {q \in Lists(w).pods : PodId(q.name) = ResolveTarget(s)}}
MeasuredHealth(w, s, now) ==
    {DeriveMetricHealth(f) :
        f \in {g \in SyncPrometheus(w.samples, {}, now) : g.rid = ResolveTarget(s) /\ Derivable(g)}}

\* The last measurement is all of one sync.
MeasuredAlone(w, stored) ==
    LET metrics == {r \in stored : r.kind = "metric"}
    IN \A m \in metrics : (\A n \in metrics : n.ts <= m.ts) =>
           FactId(m) \in {FactId(f) : f \in SyncPrometheus(w.samples, {}, m.ts)}

HealthShown(w, stored, G, now) ==
    \A s \in {t \in w.samples : MeasuredAlone(w, stored) /\ HasNode(G, ResolveTarget(t))} :
        LET said == MeasuredHealth(w, s, now) \cup OwnHealth(w, s)
            shown == G.nodes[ResolveTarget(s)].attrs.health_status
        IN MeasuredHealth(w, s, now) # {} /\ (s.target = "pod" => OwnHealth(w, s) # {}) =>
            /\ shown \in said
            /\ \A h \in said : SeverityRank(h) <= SeverityRank(shown)

LEMMA HealthBySync == HealthIsCurrent <=> \A w \in synced : HealthShown(w, rows, topology, clock)
BY ZenonT(60) DEF HealthIsCurrent, HealthShown, MeasuredAlone, OwnHealth, MeasuredHealth

LEMMA Ranked ==
    /\ \A h : SeverityRank(h) \in 0..3
    /\ \A h \in {"critical", "warning", "normal"} : SeverityRank(h) >= SeverityRank("normal")
<1>1. ASSUME NEW h  PROVE SeverityRank(h) \in 0..3
    <2>1. CASE h = "critical"  BY <2>1 DEF SeverityRank
    <2>2. CASE h = "warning"  BY <2>2 DEF SeverityRank
    <2>3. CASE h = "normal"  BY <2>3 DEF SeverityRank
    <2>4. CASE h \notin {"critical", "warning", "normal"}  BY <2>4 DEF SeverityRank
    <2> QED  BY <2>1, <2>2, <2>3, <2>4
<1>2. SeverityRank("critical") = 3 /\ SeverityRank("warning") = 2 /\ SeverityRank("normal") = 1
    BY DEF SeverityRank
<1> QED  BY <1>1, <1>2

LEMMA Judged ==
    ASSUME NEW f
    PROVE  DeriveMetricHealth(f) \in {"critical", "warning", "normal"}
<1>1. PICK threshold : threshold = HealthThresholds[f.attrs.metric]  OBVIOUS
<1>2. CASE f.attrs.value >= threshold.critical  BY <1>1, <1>2 DEF DeriveMetricHealth
<1>3. CASE ~(f.attrs.value >= threshold.critical)
    <2>1. CASE f.attrs.value < threshold.critical /\ f.attrs.value >= threshold.warning
        BY <1>1, <1>3, <2>1 DEF DeriveMetricHealth
    <2>2. CASE ~(f.attrs.value < threshold.critical /\ f.attrs.value >= threshold.warning)
        BY <1>1, <1>3, <2>2 DEF DeriveMetricHealth
    <2> QED  BY <2>1, <2>2
<1> QED  BY <1>2, <1>3

\* The worst of some is one of them.
LEMMA WorstIsThere ==
    ASSUME NEW S, S # {}, S \subseteq {"critical", "warning", "normal"},
           NEW worst, worst = CHOOSE h \in S : \A g \in S : SeverityRank(g) <= SeverityRank(h)
    PROVE  worst \in S /\ \A g \in S : SeverityRank(g) <= SeverityRank(worst)
<1>1. SeverityRank("critical") = 3 /\ SeverityRank("warning") = 2 /\ SeverityRank("normal") = 1
    BY DEF SeverityRank
<1>2. \E h \in S : \A g \in S : SeverityRank(g) <= SeverityRank(h)
    <2>1. CASE "critical" \in S  BY <1>1, <2>1
    <2>2. CASE "critical" \notin S /\ "warning" \in S  BY <1>1, <2>2
    <2>3. CASE "critical" \notin S /\ "warning" \notin S
        <3>1. \A g \in S : g = "normal"  BY <2>3
        <3>2. PICK h \in S : h = "normal"  BY <3>1
        <3> QED  BY <1>1, <3>1, <3>2
    <2> QED  BY <2>1, <2>2, <2>3
<1> QED  BY <1>2

\* A measurement says the same at any time.
LEMMA MeasuredSame ==
    ASSUME NEW w, NEW s, NEW now, NEW later
    PROVE  MeasuredHealth(w, s, now) \subseteq MeasuredHealth(w, s, later)
<1> SUFFICES ASSUME NEW h \in MeasuredHealth(w, s, now)  PROVE h \in MeasuredHealth(w, s, later)
    OBVIOUS
<1>1. PICK f \in SyncPrometheus(w.samples, {}, now) :
          f.rid = ResolveTarget(s) /\ Derivable(f) /\ h = DeriveMetricHealth(f)
    BY DEF MeasuredHealth
<1>2. PICK t \in w.samples : /\ t.name # <<>> /\ t.value >= 0
                             /\ f = [kind |-> "metric", source |-> "prometheus", rid |-> ResolveTarget(t),
                                     type |-> IF t.target = "pod" THEN "Pod" ELSE "Service", ts |-> now,
                                     attrs |-> [metric |-> t.query, value |-> t.value]]
    BY <1>1 DEF SyncPrometheus
<1>3. PICK g : g = [kind |-> "metric", source |-> "prometheus", rid |-> ResolveTarget(t),
                    type |-> IF t.target = "pod" THEN "Pod" ELSE "Service", ts |-> later,
                    attrs |-> [metric |-> t.query, value |-> t.value]]
    OBVIOUS
<1>4. g \in SyncPrometheus(w.samples, {}, later)  BY <1>2, <1>3 DEF SyncPrometheus
<1>5. g.rid = f.rid /\ g.kind = f.kind /\ g.attrs = f.attrs  BY <1>2, <1>3
<1>6. Derivable(g) /\ DeriveMetricHealth(g) = h  BY <1>1, <1>5 DEF Derivable, DeriveMetricHealth
<1> QED  BY <1>1, <1>4, <1>5, <1>6 DEF MeasuredHealth

\* The metrics that a sync keeps are its own, unless the last measurement is not.
LEMMA MetricsOfSync ==
    ASSUME NEW before, NEW w \in Worlds, NEW now \in Nat, FactsOK(before, ImageIds, now),
           NEW stored, stored = UpsertFacts(before, Batch(w, now), now),
           NEW kept, kept = LatestTopologyFacts(stored) \cup LatestMetricFacts(stored),
           MeasuredAlone(w, kept), NEW s, MeasuredHealth(w, s, now) # {}
    PROVE  Derived(LatestMetricFacts(stored), ResolveTarget(s)) = MeasuredHealth(w, s, now)
<1>1. PICK samples : samples = SyncPrometheus(w.samples, {}, now)  OBVIOUS
<1>2. PICK metrics : metrics = LatestMetricFacts(stored)  OBVIOUS
<1>3. \A f \in Batch(w, now) : FactOK(f, ImageIds) /\ f.ts = now  BY BatchShape
<1>4. FactsOK(stored, ImageIds, now)  BY <1>3, StoredOK
<1>5. samples \subseteq Batch(w, now) /\ \A f \in samples : f.kind = "metric" /\ f.ts = now
    BY <1>1 DEF Batch, SyncPrometheus
<1>6. ASSUME NEW f \in Batch(w, now), f.kind = "metric"  PROVE f \in samples
    <2>1. \A g \in MapCluster(Lists(w), now) : g.kind # "metric"
        <3>1. ASSUME NEW p \in Lists(w).pods  PROVE ImagesIn(p.containers, ImageIds)
            <4>1. p \in w.cluster.pods  BY ListsNamed
            <4>2. \A c \in p.containers : c.image \in ImagesOf(w)  BY <4>1 DEF ImagesOf
            <4>3. \A i \in ImagesOf(w) : ImageId(i) \in ImageIds  BY DEF ImageIds
            <4> QED  BY <4>2, <4>3 DEF ImagesIn
        <3>2. \A g \in MapCluster(Lists(w), now) : NodeOK(g, ImageIds) \/ EdgeOK(g)  BY <3>1, ClusterOK
        <3> QED  BY <3>2 DEF NodeOK, EdgeOK
    <2>2. \A g \in SyncJaeger(w.traces, w.answered, now) : g.kind # "metric"  BY TracesOK DEF EdgeOK
    <2>3. \A g \in SyncCodeRepo(w.tree, w.roots, now) : g.source = "code-repo"  BY ReposFrom
    <2>4. f.source = "prometheus"  BY <1>3, <1>6 DEF FactOK, NodeOK, EdgeOK, MetricOK
    <2> QED  BY <1>1, <1>6, <2>1, <2>2, <2>3, <2>4 DEF Batch, SyncK8s, Lists
<1>7. ASSUME NEW f \in samples
      PROVE  \E r \in metrics : r.kind = f.kind /\ r.rid = f.rid /\ r.attrs = f.attrs /\ r.ts = now
    <2>1. PICK r : r = [kind |-> f.kind, source |-> f.source, rid |-> f.rid, type |-> f.type,
                        ts |-> f.ts, attrs |-> f.attrs, ins |-> now]
        OBVIOUS
    <2>2. r \in stored  BY <1>5, <2>1 DEF UpsertFacts
    <2>3. r.kind = "metric" /\ r.ts = now  BY <1>5, <2>1
    <2>4. \A m \in stored : m.ts <= r.ts  BY <1>4, <2>3 DEF FactsOK
    <2>5. r \in metrics  BY <1>2, <2>2, <2>3, <2>4 DEF LatestMetricFacts
    <2> QED  BY <2>1, <2>3, <2>5
<1>8. PICK f \in samples : f.rid = ResolveTarget(s)  BY <1>1 DEF MeasuredHealth
<1>9. metrics \subseteq stored /\ \A m \in metrics : m.kind = "metric" /\ m.ts = now
    <2>1. PICK r \in metrics : r.ts = now  BY <1>7, <1>8
    <2>2. \A m \in metrics : m \in stored /\ m.kind = "metric" /\ r.ts <= m.ts
        BY <1>2 DEF LatestMetricFacts
    <2>3. \A m \in metrics : m.ts \in Nat /\ m.ts <= now  BY <1>4, <2>2 DEF FactsOK
    <2> QED  BY <2>1, <2>2, <2>3
<1>10. ASSUME NEW m \in metrics
       PROVE  \E g \in samples : m.kind = g.kind /\ m.rid = g.rid /\ m.attrs = g.attrs
    <2>1. {r \in kept : r.kind = "metric"} \subseteq metrics
        <3>1. \A r \in LatestTopologyFacts(stored) : r.kind # "metric"
            <4>1. \A r \in Nodes(stored) \cup Edges(stored) : r \in stored /\ r.ts \in Nat /\ r.ts <= now
                BY <1>4 DEF FactsOK, Nodes, Edges
            <4>2. LatestTopologyFacts(stored) \subseteq Nodes(stored) \cup Edges(stored)
                BY <4>1, NewestOf DEF LatestTopologyFacts
            <4> QED  BY <4>2 DEF Nodes, Edges
        <3> QED  BY <1>2, <3>1
    <2>2. m \in {r \in kept : r.kind = "metric"}  BY <1>2, <1>9
    <2>3. \A n \in {r \in kept : r.kind = "metric"} : n.ts <= m.ts  BY <1>9, <2>1
    <2>4. FactId(m) \in {FactId(g) : g \in SyncPrometheus(w.samples, {}, m.ts)}
        BY <2>2, <2>3 DEF MeasuredAlone
    <2>5. PICK g \in samples : FactId(m) = FactId(g)  BY <1>1, <1>9, <2>4
    <2>6. FactId(m) \in {FactId(b) : b \in Batch(w, now)}  BY <1>5, <2>5
    <2>7. m \in stored  BY <1>9
    <2>8. PICK b \in Batch(w, now) :
              m = [kind |-> b.kind, source |-> b.source, rid |-> b.rid, type |-> b.type,
                   ts |-> b.ts, attrs |-> b.attrs, ins |-> now]
        BY <2>6, <2>7 DEF UpsertFacts
    <2>9. m.kind = b.kind /\ m.rid = b.rid /\ m.attrs = b.attrs  BY <2>8
    <2> QED  BY <1>6, <1>9, <2>9
<1>11. \A x, y : x.kind = y.kind /\ x.attrs = y.attrs =>
           (Derivable(x) <=> Derivable(y)) /\ DeriveMetricHealth(x) = DeriveMetricHealth(y)
    BY DEF Derivable, DeriveMetricHealth
<1>12. ASSUME NEW h \in MeasuredHealth(w, s, now)  PROVE h \in Derived(metrics, ResolveTarget(s))
    <2>1. PICK g \in samples : g.rid = ResolveTarget(s) /\ Derivable(g) /\ h = DeriveMetricHealth(g)
        BY <1>1 DEF MeasuredHealth
    <2>2. PICK m \in metrics : m.kind = g.kind /\ m.rid = g.rid /\ m.attrs = g.attrs  BY <1>7
    <2> QED  BY <1>11, <2>1, <2>2 DEF Derived
<1>13. ASSUME NEW h \in Derived(metrics, ResolveTarget(s))  PROVE h \in MeasuredHealth(w, s, now)
    <2>1. PICK m \in metrics : m.rid = ResolveTarget(s) /\ Derivable(m) /\ h = DeriveMetricHealth(m)
        BY DEF Derived
    <2>2. PICK g \in samples : m.kind = g.kind /\ m.rid = g.rid /\ m.attrs = g.attrs  BY <1>10
    <2> QED  BY <1>1, <1>11, <2>1, <2>2 DEF MeasuredHealth
<1> QED  BY <1>2, <1>12, <1>13

\* What the cluster says of a resource that is measured, as the graph shows it.
LEMMA OwnShown ==
    ASSUME NEW before, NEW w, NEW now, NEW F, NEW G, Synchronized(before, w, now, F, G),
           NEW s, ResolveTarget(s) \in DOMAIN G.nodes, s.target = "pod" => OwnHealth(w, s) # {}
    PROVE  \E own \in {"critical", "warning", "normal"} :
               /\ Attr(G.nodes[ResolveTarget(s)], "health_status", "unknown") = own
               /\ OwnHealth(w, s) \subseteq {own}
               /\ own \in OwnHealth(w, s) \/ own = "normal"
<1>1. PICK r : r = ResolveTarget(s)  OBVIOUS
<1>2. CASE s.target = "pod"
    <2>1. PICK p \in Lists(w).pods : PodId(p.name) = r  BY <1>1, <1>2 DEF OwnHealth
    <2>2. \A q \in Lists(w).pods : PodId(q.name) = r => q = p
        <3>1. \A x, y \in Lists(w)["pods"] : x.name = y.name => x = y  BY ListsNamed DEF Synchronized
        <3>2. \A x, y : PodId(x) = PodId(y) => x = y  BY DEF PodId
        <3> QED  BY <2>1, <3>1, <3>2
    <2>3. PICK own : own = PodHealth(p)  OBVIOUS
    <2>4. OwnHealth(w, s) = {own}  BY <1>1, <2>1, <2>2, <2>3 DEF OwnHealth
    <2>5. PICK g \in Nodes(F) : /\ g.rid = r /\ Stands(F, g.rid) = g.rid
                                /\ g.attrs = PodFact(p, Lists(w), now).attrs
        BY <2>1, SyncedPod
    <2>6. G.nodes[r] = [type |-> g.type, attrs |-> g.attrs]
        <3>1. FactsOK(F, ImageIds, now) /\ OneEach(F) /\ OrderedIds(ImageIds)  BY SyncedFacts, ImagesOrdered
        <3>2. \A f \in Nodes(F) : Stands(F, f.rid) = f.rid => G.nodes[f.rid] = [type |-> f.type, attrs |-> f.attrs]
            BY <3>1, ResolvedGraph DEF Synchronized
        <3> QED  BY <2>5, <3>2
    <2>7. "health_status" \in DOMAIN g.attrs /\ g.attrs.health_status = own
        <3>1. PICK phase, parent : phase = [phase |-> p.phase] /\ parent = PodParent(p, Lists(w).replicasets)
            OBVIOUS
        <3>2. DOMAIN phase \cap {"parent_resource_id", "health_status", "metric", "correlation_keys"} = {}
            BY <3>1
        <3>3. ChildAttrsOK(Filled(phase, ChildOf(parent, PodHealth(p))), parent, PodHealth(p))
            BY <3>2, ChildWithMore
        <3>4. g.attrs = Filled(phase, ChildOf(parent, PodHealth(p)))  BY <2>5, <3>1 DEF PodFact, NodeFact
        <3> QED  BY <2>3, <3>3, <3>4 DEF ChildAttrsOK
    <2>8. Attr(G.nodes[r], "health_status", "unknown") = own  BY <2>6, <2>7 DEF Attr
    <2>9. own \in {"critical", "warning", "normal"}  BY <2>3 DEF PodHealth
    <2> QED  BY <1>1, <2>4, <2>8, <2>9
<1>3. CASE s.target # "pod"
    <2>1. r = ServiceId(s.name)  BY <1>1, <1>3 DEF ResolveTarget
    <2>2. r[1] = "service"  BY <2>1 DEF ServiceId
    <2>3. PICK f \in Nodes(F) : /\ f.rid = r /\ NodeOK(f, ImageIds)
                                /\ G.nodes[r] = [type |-> f.type, attrs |-> f.attrs]
        BY <1>1, SyncedFacts
    <2>4. "health_status" \in DOMAIN f.attrs /\ f.attrs.health_status = "normal"
        BY <2>2, <2>3 DEF NodeOK, AttrsOK
    <2>5. Attr(G.nodes[r], "health_status", "unknown") = "normal"  BY <2>3, <2>4 DEF Attr
    <2>6. \A q : PodId(q)[1] = "pod"  BY DEF PodId
    <2>7. OwnHealth(w, s) = {}  BY <1>1, <2>2, <2>6 DEF OwnHealth
    <2> QED  BY <1>1, <2>5, <2>7
<1> QED  BY <1>2, <1>3

\* A sync shows the worst that is said of what it measures.
LEMMA HealthOfSync ==
    ASSUME NEW before, NEW w \in Worlds, NEW now \in Nat, FactsOK(before, ImageIds, now),
           NEW stored, stored = UpsertFacts(before, Batch(w, now), now),
           NEW kept, kept = LatestTopologyFacts(stored) \cup LatestMetricFacts(stored),
           NEW next, next = Computed(before, w, now)
    PROVE  HealthShown(w, kept, next, now)
<1>1. PICK F, G, metrics : /\ F = LatestTopologyFacts(stored) /\ G = Resolve(F)
                           /\ metrics = LatestMetricFacts(stored)
    OBVIOUS
<1>2. Synchronized(before, w, now, F, G)  BY <1>1 DEF Synchronized
<1>3. TopologyOK(G) /\ NodesTyped(G)  BY <1>2, SyncedFacts
<1>4. next = MergeMetricHealth(G, metrics)  BY <1>1 DEF Computed
<1>5. SUFFICES ASSUME NEW s, MeasuredAlone(w, kept), HasNode(next, ResolveTarget(s)),
                      MeasuredHealth(w, s, now) # {}, s.target = "pod" => OwnHealth(w, s) # {},
                      NEW shown, shown = next.nodes[ResolveTarget(s)].attrs.health_status
               PROVE  /\ shown \in MeasuredHealth(w, s, now) \cup OwnHealth(w, s)
                      /\ \A h \in MeasuredHealth(w, s, now) \cup OwnHealth(w, s) :
                             SeverityRank(h) <= SeverityRank(shown)
    BY DEF HealthShown
<1>6. PICK r, said : r = ResolveTarget(s) /\ said = MeasuredHealth(w, s, now)  OBVIOUS
<1>7. /\ DOMAIN next.nodes = DOMAIN G.nodes
      /\ \A x \in DOMAIN G.nodes :
             next.nodes[x] = IF Derived(metrics, x) = {} THEN G.nodes[x]
                             ELSE Overlaid(G.nodes[x],
                                      CHOOSE h \in Derived(metrics, x) : \A g \in Derived(metrics, x) :
                                          SeverityRank(g) <= SeverityRank(h))
    BY <1>3, <1>4, MergedGraph DEF SameButHealth
<1>8. r \in DOMAIN G.nodes  BY <1>5, <1>6, <1>7 DEF HasNode
<1>9. Derived(metrics, r) = said  BY <1>1, <1>5, <1>6, MetricsOfSync
<1>10. PICK worst : worst = CHOOSE h \in said : \A g \in said : SeverityRank(g) <= SeverityRank(h)  OBVIOUS
<1>11. said # {} /\ said \subseteq {"critical", "warning", "normal"}
    BY <1>5, <1>6, Judged DEF MeasuredHealth
<1>12. worst \in said /\ \A g \in said : SeverityRank(g) <= SeverityRank(worst)
    BY <1>10, <1>11, WorstIsThere
<1>13. next.nodes[r] = Overlaid(G.nodes[r], worst)  BY <1>7, <1>8, <1>9, <1>10, <1>11
<1>14. PICK own \in {"critical", "warning", "normal"} :
           /\ Attr(G.nodes[r], "health_status", "unknown") = own
           /\ OwnHealth(w, s) \subseteq {own}
           /\ own \in OwnHealth(w, s) \/ own = "normal"
    BY <1>2, <1>5, <1>6, <1>8, OwnShown
<1>15. G.nodes[r] = [type |-> G.nodes[r].type, attrs |-> G.nodes[r].attrs]  BY <1>3, <1>8 DEF NodesTyped
<1>16. shown = IF SeverityRank(worst) >= SeverityRank(own) THEN worst ELSE own
    <2>1. PICK old, new : old = G.nodes[r] /\ new = next.nodes[r]  OBVIOUS
    <2>2. new = Overlaid(old, worst) /\ old = [type |-> old.type, attrs |-> old.attrs]
        BY <1>13, <1>15, <2>1
    <2>3. new.attrs.health_status =
              IF SeverityRank(worst) >= SeverityRank(Attr(old, "health_status", "unknown"))
              THEN worst ELSE Attr(old, "health_status", "unknown")
        BY <2>2, OverlaidKeeps
    <2> QED  BY <1>5, <1>6, <1>14, <2>1, <2>3
<1>17. worst \in {"critical", "warning", "normal"}  BY <1>11, <1>12
<1>18. SeverityRank(worst) \in Int /\ SeverityRank(own) \in Int /\ \A h : SeverityRank(h) \in Int
    BY Ranked
<1>19. CASE SeverityRank(worst) >= SeverityRank(own)
    BY <1>6, <1>12, <1>14, <1>16, <1>18, <1>19
<1>20. CASE ~(SeverityRank(worst) >= SeverityRank(own))
    <2>1. own \in OwnHealth(w, s)  BY <1>14, <1>17, <1>20, Ranked
    <2> QED  BY <1>6, <1>12, <1>14, <1>16, <1>18, <1>20, <2>1
<1> QED  BY <1>19, <1>20

\* What is shown stays so as time goes by.
LEMMA ShownLater ==
    ASSUME NEW w, NEW stored, NEW G, NEW now, NEW later, HealthShown(w, stored, G, now)
    PROVE  HealthShown(w, stored, G, later)
<1>1. \A s : MeasuredHealth(w, s, later) = MeasuredHealth(w, s, now)
    <2>1. \A s : MeasuredHealth(w, s, now) \subseteq MeasuredHealth(w, s, later)  BY MeasuredSame
    <2>2. \A s : MeasuredHealth(w, s, later) \subseteq MeasuredHealth(w, s, now)  BY MeasuredSame
    <2> QED  BY <2>1, <2>2
<1> QED  BY <1>1, Zenon DEF HealthShown

LEMMA NextHealth ==
    ASSUME EventsInv, TopologyInv, HealthIsCurrent, [Next]_vars
    PROVE  HealthIsCurrent'
<1>1. \A w \in synced : HealthShown(w, rows, topology, clock)  BY HealthBySync
<1>2. ASSUME \A w \in synced' : HealthShown(w, rows', topology', clock')  PROVE HealthIsCurrent'
    BY <1>2, ZenonT(60) DEF HealthIsCurrent, HealthShown, MeasuredAlone, OwnHealth, MeasuredHealth
<1>3. CASE Sync
    <2>1. PICK stored : stored = UpsertFacts(rows, Batch(world, clock), clock)  OBVIOUS
    <2>2. rows' = LatestTopologyFacts(stored) \cup LatestMetricFacts(stored) /\ clock' = clock
        BY <1>3, <2>1 DEF Sync
    <2>3. topology' = Computed(rows, world, clock) /\ synced' = {world}  BY <1>3, SyncStores
    <2>4. world \in Worlds /\ clock \in Nat /\ FactsOK(rows, ImageIds, clock)  BY DEF EventsInv, TopologyInv
    <2>5. HealthShown(world, rows', topology', clock)  BY <2>1, <2>2, <2>3, <2>4, HealthOfSync
    <2> QED  BY <1>2, <2>2, <2>3, <2>5
<1>4. CASE ~Sync
    <2>1. UNCHANGED <<rows, topology>> /\ synced' \subseteq synced
        BY <1>4 DEF Next, Command, Tick, WorldMoves, RecordChangeEvent, RecordAlert, ResolveAlert, Restart,
                    vars, sync
    <2>2. \A w \in synced' : HealthShown(w, rows, topology, clock')  BY <1>1, <2>1, ShownLater
    <2> QED  BY <1>2, <2>1, <2>2
<1> QED  BY <1>3, <1>4

-----------------------------------------------------------------------------
(* Who calls whom *)

\* A name without the suffix.
Cut(x, suffix) == IF Len(x) > 1 /\ x[Len(x)] = suffix THEN SubSeq(x, 1, Len(x) - 1) ELSE x

LEMMA CutNames ==
    ASSUME NEW a, NEW b, Cut(StripReleasePrefix(a), "service") = Cut(StripReleasePrefix(b), "service")
    PROVE  NormalizeComponentName(a) = NormalizeComponentName(b)
BY DEF NormalizeComponentName, Cut

LEMMA CutSuffix ==
    ASSUME NEW S, NEW suffix \in S, NEW x \in Seq(S), x # <<>>, x[Len(x)] # suffix
    PROVE  Cut(x \o <<suffix>>, suffix) = Cut(x, suffix)
<1>1. PICK y : y = x \o <<suffix>>  OBVIOUS
<1>2. y \in Seq(S) /\ Len(y) = Len(x) + 1 /\ y[Len(y)] = suffix  BY <1>1
<1>3. Len(x) \in Nat /\ Len(x) > 0  OBVIOUS
<1>4. SubSeq(y, 1, Len(x)) = x
    <2>1. SubSeq(y, 1, Len(x)) = [i \in 1..Len(x) |-> y[i]]  BY <1>2, <1>3
    <2>2. \A i \in 1..Len(x) : y[i] = x[i]  BY <1>1
    <2> QED  BY <2>1, <2>2
<1>5. Cut(y, suffix) = SubSeq(y, 1, Len(y) - 1)  BY <1>2, <1>3 DEF Cut
<1>6. Cut(x, suffix) = x  BY DEF Cut
<1>7. Len(y) - 1 = Len(x)  BY <1>2, <1>3
<1> QED  BY <1>1, <1>4, <1>5, <1>6, <1>7

\* Both connectors' names are those of one component.
LEMMA NamedAlike ==
    ASSUME NEW s \in Seq(STRING), s # <<>>, NEW d \in Seq(STRING), NamedAfter(s, d)
    PROVE  ServiceToComponentId(s) = ComponentOf(d)
<1>0. PICK x : x = Tail(d)  OBVIOUS
<1>1. PICK y : y = <<Release>> \o s  OBVIOUS
<1>2. PICK suffix, words : suffix = "service" /\ words = STRING \cup {suffix}  OBVIOUS
<1>3. suffix \in words  BY <1>2, Zenon
<1>4. /\ Len(d) > 1 /\ d = <<Release>> \o x
      /\ \/ s = x
         \/ s[Len(s)] # suffix /\ x = s \o <<suffix>>
         \/ d[Len(d)] # suffix /\ s = x \o <<suffix>>
    BY <1>0, <1>2, Zenon DEF NamedAfter
<1>5. s \in Seq(words) /\ d \in Seq(words)
    <2>1. PICK strings : strings = STRING  OBVIOUS
    <2>2. s \in Seq(strings) /\ d \in Seq(strings) /\ strings \subseteq words  BY <1>2, <2>1, Zenon
    <2> QED  BY <2>2
<1>6. x \in Seq(words) /\ x # <<>> /\ x[Len(x)] = d[Len(d)]
    <2>1. Len(d) > 1  BY <1>4
    <2>2. x \in Seq(words) /\ Len(x) = Len(d) - 1 /\ Len(d) \in Nat  BY <1>0, <1>5, <2>1
    <2>3. \A i \in 1..Len(x) : x[i] = d[i + 1]  BY <1>0, <1>5, <2>1
    <2>4. Len(x) \in 1..Len(x) /\ Len(x) + 1 = Len(d)  BY <2>1, <2>2
    <2> QED  BY <2>2, <2>3, <2>4
<1>7. StripReleasePrefix(d) = x
    <2>1. (<<Release>> \o x)[1] = Release  BY <1>6
    <2>2. Head(d) = Release  BY <1>4, <1>5, <2>1
    <2> QED  BY <1>0, <1>4, <2>2 DEF StripReleasePrefix
<1>8. StripReleasePrefix(y) = s
    <2>1. Len(y) > 1 /\ Head(y) = Release /\ Tail(y) = s  BY <1>1, <1>5
    <2> QED  BY <2>1 DEF StripReleasePrefix
<1>9. Cut(x, suffix) = Cut(s, suffix)  BY <1>3, <1>4, <1>5, <1>6, CutSuffix
<1>10. NormalizeComponentName(y) = NormalizeComponentName(d)  BY <1>2, <1>7, <1>8, <1>9, CutNames
<1> QED  BY <1>1, <1>10 DEF ServiceToComponentId, ComponentOf

\* Who calls whom is shown between the components.
LEMMA CallsShownNow ==
    ASSUME TopologyInv  PROVE CallsAttach
<1> SUFFICES ASSUME NEW w \in synced,
                    NEW c \in {d \in Callings(w.traces) :
                                  CallCount(w.traces, w.answered, d[1], d[2]) >= CallThreshold},
                    NEW caller \in {d.name : d \in {e \in Lists(w).deployments : IsComponent(e.name)}},
                    NEW callee \in {d.name : d \in {e \in Lists(w).deployments : IsComponent(e.name)}},
                    NamedAfter(c[1], caller), NamedAfter(c[2], callee), ComponentOf(caller) # ComponentOf(callee)
             PROVE  {Edge(ComponentOf(caller), DeployId(caller), "DEPLOYED_AS"),
                     Edge(ComponentOf(callee), DeployId(callee), "DEPLOYED_AS"),
                     Edge(ComponentOf(caller), ComponentOf(callee), "CALLS")} \subseteq topology.edges
    BY Zenon DEF CallsAttach
<1>1. w \in Worlds /\ CallsShown(w, topology)  BY DEF TopologyInv, GraphShows
<1>2. c[1] \in Seq(STRING) \ {<<>>} /\ c[2] \in Seq(STRING) \ {<<>>}
    <2>1. c \in Seq(STRING) \X Seq(STRING)  BY <1>1, ConsoleAssumption
    <2>2. PICK t \in w.traces : \E r \in CallsOf(t) : c = <<t.spans[r.parent], t.spans[r.child]>>
        BY DEF Callings
    <2>3. c[1] # <<>> /\ c[2] # <<>>  BY <2>2 DEF CallsOf
    <2> QED  BY <2>1, <2>3
<1>3. caller \in Seq(STRING) /\ callee \in Seq(STRING)
    <2>1. \A d \in Lists(w)["deployments"] : d.name \in Seq(STRING)
        BY <1>1, ListsNamed, ClusterAssumption
    <2> QED  BY <2>1
<1>4. ServiceToComponentId(c[1]) = ComponentOf(caller) /\ ServiceToComponentId(c[2]) = ComponentOf(callee)
    BY <1>2, <1>3, NamedAlike
<1>5. /\ ComponentOf(caller) \in DOMAIN topology.nodes /\ ComponentOf(callee) \in DOMAIN topology.nodes
      /\ Edge(ComponentOf(caller), DeployId(caller), "DEPLOYED_AS") \in topology.edges
      /\ Edge(ComponentOf(callee), DeployId(callee), "DEPLOYED_AS") \in topology.edges
    BY <1>1 DEF CallsShown
<1>6. Edge(ComponentOf(caller), ComponentOf(callee), "CALLS") \in topology.edges
    BY <1>1, <1>4, <1>5 DEF CallsShown
<1> QED  BY <1>5, <1>6

-----------------------------------------------------------------------------
(* Reports: what is sorted *)

Earlier(key, i, j) == key[i] < key[j] \/ (key[i] = key[j] /\ i < j)
EarlierOf(places, key, i) == {j \in places : Earlier(key, j, i)}

\* A place comes after those that are earlier, and no two after as many.
LEMMA PlacesCounted ==
    ASSUME NEW places \in SUBSET Nat, IsFiniteSet(places), NEW key \in [places -> Int],
           NEW n, n = Cardinality(places)
    PROVE  /\ n \in Nat
           /\ \A i, j \in places : Earlier(key, i, j) =>
                  Cardinality(EarlierOf(places, key, i)) < Cardinality(EarlierOf(places, key, j))
           /\ \A i \in places : Cardinality(EarlierOf(places, key, i)) \in 0..(n - 1)
           /\ \A i, j \in places : i = j \/ Earlier(key, i, j) \/ Earlier(key, j, i)
           /\ \A k \in 1..n : \E i \in places : Cardinality(EarlierOf(places, key, i)) = k - 1
<1>1. n \in Nat  BY FS_CardinalityType
<1>2. /\ \A i, j \in places : i = j \/ Earlier(key, i, j) \/ Earlier(key, j, i)
      /\ \A i \in places : ~Earlier(key, i, i)
      /\ \A i, j, k \in places : Earlier(key, i, j) /\ Earlier(key, j, k) => Earlier(key, i, k)
    <2>1. \A i \in places : key[i] \in Int /\ i \in Nat  OBVIOUS
    <2> QED  BY <2>1 DEF Earlier
<1>3. ASSUME NEW i \in places
      PROVE  /\ IsFiniteSet(EarlierOf(places, key, i))
             /\ Cardinality(EarlierOf(places, key, i)) \in 0..(n - 1)
    <2>1. PICK rest : rest = places \ {i}  OBVIOUS
    <2>2. IsFiniteSet(rest) /\ Cardinality(rest) = n - 1  BY <2>1, FS_RemoveElement
    <2>3. EarlierOf(places, key, i) \in SUBSET rest  BY <1>2, <2>1 DEF EarlierOf
    <2>4. /\ IsFiniteSet(EarlierOf(places, key, i))
          /\ Cardinality(EarlierOf(places, key, i)) <= Cardinality(rest)
        BY <2>2, <2>3, FS_Subset
    <2>5. Cardinality(EarlierOf(places, key, i)) \in Nat  BY <2>4, FS_CardinalityType
    <2> QED  BY <1>1, <2>2, <2>4, <2>5
<1>4. ASSUME NEW i \in places, NEW j \in places, Earlier(key, i, j)
      PROVE  Cardinality(EarlierOf(places, key, i)) < Cardinality(EarlierOf(places, key, j))
    <2>1. PICK S, T : S = EarlierOf(places, key, i) /\ T = EarlierOf(places, key, j)  OBVIOUS
    <2>2. S \in SUBSET T /\ i \in T /\ i \notin S  BY <1>2, <1>4, <2>1 DEF EarlierOf
    <2>3. IsFiniteSet(T) /\ Cardinality(T) \in Nat /\ Cardinality(S) \in Nat  BY <1>1, <1>3, <2>1
    <2>4. Cardinality(S) <= Cardinality(T) /\ Cardinality(S) # Cardinality(T)  BY <2>2, <2>3, FS_Subset
    <2> QED  BY <2>1, <2>3, <2>4
<1>5. PICK f : f = [i \in places |-> Cardinality(EarlierOf(places, key, i))]  OBVIOUS
<1>6. PICK ranks : ranks = 0..(n - 1)  OBVIOUS
<1>7. f \in Injection(places, ranks)
    <2>1. f \in [places -> ranks]  BY <1>3, <1>5, <1>6
    <2>2. ASSUME NEW i \in places, NEW j \in places, f[i] = f[j]  PROVE i = j
        <3>1. \A x \in places : f[x] = Cardinality(EarlierOf(places, key, x)) /\ f[x] \in Int
            BY <1>1, <1>3, <1>5
        <3> QED  BY <1>2, <1>4, <2>2, <3>1
    <2> QED  BY <2>1, <2>2 DEF Injection, IsInjective
<1>8. IsFiniteSet(ranks) /\ Cardinality(ranks) = n  BY <1>1, <1>6, FS_Interval
<1>9. f \in Surjection(places, ranks)  BY <1>7, <1>8, FS_Injection
<1>10. ASSUME NEW k \in 1..n  PROVE \E i \in places : Cardinality(EarlierOf(places, key, i)) = k - 1
    <2>1. k - 1 \in ranks  BY <1>1, <1>6
    <2> QED  BY <1>5, <1>9, <2>1 DEF Surjection
<1> QED  BY <1>1, <1>2, <1>3, <1>4, <1>10

Sortable(places, key) == places \in SUBSET Nat /\ IsFiniteSet(places) /\ key \in [places -> Int]

\* A sorted list is what it is sorted from, in the order of the key.
SortedFrom(s, list, places, key) ==
    /\ Len(s) = Cardinality(places) /\ DOMAIN s = 1..Cardinality(places) /\ Cardinality(places) \in Nat
    /\ \A i \in places : \E k \in DOMAIN s : s[k] = list[i]
    /\ \A k \in 1..(Len(s) - 1) : \E i, j \in places :
           s[k] = list[i] /\ s[k + 1] = list[j] /\ key[i] <= key[j]

LEMMA SortedHolds ==
    ASSUME NEW list, NEW places, NEW key, Sortable(places, key), NEW s, s = Sorted(list, places, key)
    PROVE  SortedFrom(s, list, places, key)
<1> USE DEF Sortable
<1>1. PICK n : n = Cardinality(places)  OBVIOUS
<1> DEFINE Place(k) == CHOOSE i \in places : Cardinality(EarlierOf(places, key, i)) = k - 1
<1>2. s = [k \in 1..n |-> list[Place(k)]]  BY <1>1 DEF Sorted, EarlierOf, Earlier
<1>3. /\ n \in Nat
      /\ \A i, j \in places : Earlier(key, i, j) =>
             Cardinality(EarlierOf(places, key, i)) < Cardinality(EarlierOf(places, key, j))
      /\ \A i \in places : Cardinality(EarlierOf(places, key, i)) \in 0..(n - 1)
      /\ \A i, j \in places : i = j \/ Earlier(key, i, j) \/ Earlier(key, j, i)
      /\ \A k \in 1..n : \E i \in places : Cardinality(EarlierOf(places, key, i)) = k - 1
    BY <1>1, PlacesCounted
<1>4. \A k \in 1..n : Place(k) \in places /\ Cardinality(EarlierOf(places, key, Place(k))) = k - 1
    BY <1>3
<1> HIDE DEF Place
<1>5. DOMAIN s = 1..n /\ Len(s) = n  BY <1>2, <1>3
<1>6. ASSUME NEW i \in places  PROVE \E k \in 1..n : s[k] = list[i]
    <2>1. PICK k : k = Cardinality(EarlierOf(places, key, i)) + 1  OBVIOUS
    <2>2. k \in 1..n /\ k - 1 = Cardinality(EarlierOf(places, key, i))  BY <1>3, <2>1
    <2>3. PICK j : j = Place(k)  OBVIOUS
    <2>4. j \in places /\ Cardinality(EarlierOf(places, key, j)) = k - 1  BY <1>4, <2>2, <2>3
    <2>5. j = i
        <3>1. \A x \in places : Cardinality(EarlierOf(places, key, x)) \in Int  BY <1>3
        <3> QED  BY <1>3, <2>2, <2>4, <3>1
    <2> QED  BY <1>2, <2>2, <2>3, <2>5
<1>7. ASSUME NEW k \in 1..(n - 1)
      PROVE  \E i, j \in places : s[k] = list[i] /\ s[k + 1] = list[j] /\ key[i] <= key[j]
    <2>1. k \in 1..n /\ k + 1 \in 1..n /\ k \in Int  BY <1>3
    <2>2. PICK i, j : i = Place(k) /\ j = Place(k + 1)  OBVIOUS
    <2>3. /\ i \in places /\ Cardinality(EarlierOf(places, key, i)) = k - 1
          /\ j \in places /\ Cardinality(EarlierOf(places, key, j)) = k + 1 - 1
        BY <1>4, <2>1, <2>2
    <2>4. ~Earlier(key, j, i)  BY <1>3, <2>1, <2>3
    <2>5. key[i] <= key[j]  BY <2>3, <2>4 DEF Earlier
    <2> QED  BY <1>2, <2>1, <2>2, <2>3, <2>5
<1> QED  BY <1>1, <1>3, <1>5, <1>6, <1>7 DEF SortedFrom

-----------------------------------------------------------------------------
(* Reports: what they are made from *)

\* A pod that crash-loops is shown as critical.
Crashing(p) == "crashloop" \in {c.state : c \in p.containers}

CrashShown(w, G) ==
    \A p \in Lists(w).pods : Crashing(p) =>
        PodId(p.name) \in DOMAIN G.nodes /\ ShownHealth(G.nodes[PodId(p.name)]) = "critical"

\* The names of the Deployments that are a component.
ComponentNames(w) == {e.name : e \in {b \in Lists(w).deployments : IsComponent(b.name)}}

\* There is one application, and the components are its own.
ApplicationShown(w, G) ==
    /\ ApplicationId \in DOMAIN G.nodes
    /\ \A r \in DOMAIN G.nodes : G.nodes[r].type = "Application" <=> r = ApplicationId
    /\ \A d \in ComponentNames(w) : Edge(ApplicationId, ComponentOf(d), "CONTAINS") \in G.edges

Clocks == {Start} \cup Start..(MaxClock + 1)

ReportInv ==
    /\ clock \in Clocks /\ IsFiniteSet(rows) /\ IsFiniteSet(DOMAIN topology.nodes)
    /\ \A w \in synced : CrashShown(w, topology) /\ ApplicationShown(w, topology)

LEMMA FiniteRange ==
    ASSUME NEW f, NEW S, IsFiniteSet(S), DOMAIN f = S
    PROVE  IsFiniteSet({f[x] : x \in S})
<1>1. PICK T : T = {f[x] : x \in S}  OBVIOUS
<1>2. PICK g : g = [x \in S |-> f[x]]  OBVIOUS
<1>3. g \in Surjection(S, T)  BY <1>1, <1>2 DEF Surjection
<1> QED  BY <1>1, <1>3, FS_Surjection

\* Finitely many facts upon finitely many rows make a finite graph.
LEMMA FiniteSync ==
    ASSUME NEW before, IsFiniteSet(before), NEW w, NEW now, NEW F, NEW G, Synchronized(before, w, now, F, G),
           IsFiniteSet(Batch(w, now)), NEW stored, stored = UpsertFacts(before, Batch(w, now), now)
    PROVE  IsFiniteSet(stored) /\ IsFiniteSet(DOMAIN G.nodes)
<1>1. IsFiniteSet(stored)
    <2>1. PICK row : row = [f \in Batch(w, now) |->
                                [kind |-> f.kind, source |-> f.source, rid |-> f.rid, type |-> f.type,
                                 ts |-> f.ts, attrs |-> f.attrs, ins |-> now]]
        OBVIOUS
    <2>2. IsFiniteSet({row[f] : f \in Batch(w, now)})  BY <2>1, FiniteRange
    <2>3. IsFiniteSet(before \cup {row[f] : f \in Batch(w, now)})  BY <2>2, FS_Union
    <2>4. stored \in SUBSET (before \cup {row[f] : f \in Batch(w, now)})  BY <2>1 DEF UpsertFacts
    <2> QED  BY <2>3, <2>4, FS_Subset
<1>2. F \in SUBSET stored
    <2>1. FactsOK(stored, ImageIds, now)  BY SyncedFacts
    <2> QED  BY <2>1, LatestOK DEF Synchronized
<1>3. PICK id : id = [f \in F |-> f.rid]  OBVIOUS
<1>4. IsFiniteSet({id[f] : f \in F})  BY <1>1, <1>2, <1>3, FS_Subset, FiniteRange
<1>5. DOMAIN G.nodes \in SUBSET {id[f] : f \in F}
    <2>1. ASSUME NEW r \in DOMAIN G.nodes  PROVE r \in {id[f] : f \in F}
        <3>1. PICK f \in Nodes(F) : /\ f.rid = r /\ Stands(F, r) = r /\ NodeOK(f, ImageIds)
                                    /\ G.nodes[r] = [type |-> f.type, attrs |-> f.attrs]
            BY SyncedFacts
        <3>2. f \in F  BY DEF Nodes
        <3> QED  BY <1>3, <3>1, <3>2
    <2> QED  BY <2>1
<1> QED  BY <1>1, <1>4, <1>5, FS_Subset

\* A sync shows the pods that crash-loop, and the application.
LEMMA SyncedCrashes ==
    ASSUME NEW before, NEW w, NEW now, NEW F, NEW G, Synchronized(before, w, now, F, G),
           NEW metrics, NEW H, H = MergeMetricHealth(G, metrics)
    PROVE  CrashShown(w, H)
<1> SUFFICES ASSUME NEW p \in Lists(w).pods, Crashing(p)
             PROVE  PodId(p.name) \in DOMAIN H.nodes /\ ShownHealth(H.nodes[PodId(p.name)]) = "critical"
    BY DEF CrashShown
<1>1. PICK r : r = PodId(p.name)  OBVIOUS
<1>2. r \in DOMAIN G.nodes  BY <1>1, SyncedPod
<1>3. PICK g \in Nodes(F) : /\ g.rid = r /\ Stands(F, g.rid) = g.rid
                            /\ g.attrs = PodFact(p, Lists(w), now).attrs
    BY <1>1, SyncedPod
<1>4. G.nodes[r] = [type |-> g.type, attrs |-> g.attrs]
    <2>1. FactsOK(F, ImageIds, now) /\ OneEach(F) /\ OrderedIds(ImageIds)  BY SyncedFacts, ImagesOrdered
    <2>2. \A f \in Nodes(F) : Stands(F, f.rid) = f.rid => G.nodes[f.rid] = [type |-> f.type, attrs |-> f.attrs]
        BY <2>1, ResolvedGraph DEF Synchronized
    <2> QED  BY <1>3, <2>2
<1>5. PodHealth(p) = "critical"
    <2>1. "crashloop" \in {c.state : c \in p.containers} \ {"absent"}  BY DEF Crashing
    <2> QED  BY <2>1 DEF PodHealth
<1>6. "health_status" \in DOMAIN g.attrs /\ g.attrs.health_status = "critical"
    <2>1. PICK phase, parent : phase = [phase |-> p.phase] /\ parent = PodParent(p, Lists(w).replicasets)
        OBVIOUS
    <2>2. DOMAIN phase \cap {"parent_resource_id", "health_status", "metric", "correlation_keys"} = {}
        BY <2>1
    <2>3. ChildAttrsOK(Filled(phase, ChildOf(parent, PodHealth(p))), parent, PodHealth(p))
        BY <2>2, ChildWithMore
    <2>4. g.attrs = Filled(phase, ChildOf(parent, PodHealth(p)))  BY <1>3, <2>1 DEF PodFact, NodeFact
    <2> QED  BY <1>5, <2>3, <2>4 DEF ChildAttrsOK
<1>7. PICK old, new : old = G.nodes[r] /\ new = H.nodes[r]  OBVIOUS
<1>8. /\ old = [type |-> old.type, attrs |-> old.attrs] /\ old.attrs = g.attrs
      /\ Attr(old, "health_status", "unknown") = "critical" /\ Attr(old, "health_status", "normal") = "critical"
    BY <1>4, <1>6, <1>7 DEF Attr
<1>9. TopologyOK(G) /\ NodesTyped(G)  BY SyncedFacts
<1>10. /\ DOMAIN H.nodes = DOMAIN G.nodes
       /\ new = IF Derived(metrics, r) = {} THEN old
                ELSE Overlaid(old, CHOOSE h \in Derived(metrics, r) : \A x \in Derived(metrics, r) :
                                       SeverityRank(x) <= SeverityRank(h))
    <2>1. SameButHealth(G, H)  BY <1>9, MergedGraph
    <2>2. H.nodes[r] = IF Derived(metrics, r) = {} THEN G.nodes[r]
                       ELSE Overlaid(G.nodes[r], CHOOSE h \in Derived(metrics, r) : \A x \in Derived(metrics, r) :
                                                     SeverityRank(x) <= SeverityRank(h))
        BY <1>2, <1>9, MergedGraph
    <2> QED  BY <1>7, <2>1, <2>2 DEF SameButHealth
<1>11. CASE Derived(metrics, r) = {}
    <2>1. new = old  BY <1>10, <1>11
    <2> QED  BY <1>1, <1>2, <1>7, <1>8, <1>10, <2>1 DEF ShownHealth
<1>12. CASE Derived(metrics, r) # {}
    <2>1. PICK worst : worst = CHOOSE h \in Derived(metrics, r) : \A x \in Derived(metrics, r) :
                                   SeverityRank(x) <= SeverityRank(h)
        OBVIOUS
    <2>2. Derived(metrics, r) \subseteq {"critical", "warning", "normal"}  BY Judged DEF Derived
    <2>3. worst \in {"critical", "warning", "normal"}  BY <1>12, <2>1, <2>2, WorstIsThere
    <2>4. new = Overlaid(old, worst)  BY <1>10, <1>12, <2>1
    <2>5. /\ "health_status" \in DOMAIN new.attrs
          /\ new.attrs.health_status = IF SeverityRank(worst) >= SeverityRank("critical") THEN worst ELSE "critical"
        <3>1. /\ "health_status" \in DOMAIN new.attrs
              /\ new.attrs.health_status =
                     IF SeverityRank(worst) >= SeverityRank(Attr(old, "health_status", "unknown"))
                     THEN worst ELSE Attr(old, "health_status", "unknown")
            BY <1>8, <2>4, OverlaidKeeps
        <3> QED  BY <1>8, <3>1
    <2>6. new.attrs.health_status = "critical"
        <3>1. SeverityRank("critical") = 3 /\ SeverityRank("warning") = 2 /\ SeverityRank("normal") = 1
            BY DEF SeverityRank
        <3> QED  BY <2>3, <2>5, <3>1
    <2>7. Attr(new, "health_status", "normal") = "critical"  BY <2>5, <2>6 DEF Attr
    <2> QED  BY <1>1, <1>2, <1>7, <1>10, <2>7 DEF ShownHealth
<1> QED  BY <1>11, <1>12

LEMMA SyncedApplication ==
    ASSUME NEW before, NEW w, NEW now, NEW F, NEW G, Synchronized(before, w, now, F, G)
    PROVE  ApplicationShown(w, G)
<1>1. ApplicationId \in DOMAIN G.nodes
    <2>1. PICK f : f = NodeFact(now, ApplicationId, "Application", ChildOf(NamespaceId, "normal"))  OBVIOUS
    <2>2. f \in MapCluster(Lists(w), now)  BY <2>1 DEF MapNodes, MapCluster
    <2>3. f.kind = "topology-node" /\ f.rid = ApplicationId  BY <2>1 DEF NodeFact
    <2>4. ApplicationId[1] \notin ImageTags  BY DEF ApplicationId, ImageTags
    <2> QED  BY <2>2, <2>3, <2>4, SyncedNode
<1>2. ASSUME NEW r \in DOMAIN G.nodes  PROVE G.nodes[r].type = "Application" <=> r = ApplicationId
    <2>1. PICK f \in Nodes(F) : /\ f.rid = r /\ NodeOK(f, ImageIds)
                                /\ G.nodes[r] = [type |-> f.type, attrs |-> f.attrs]
        BY SyncedFacts
    <2>2. ApplicationId[1] = "app"  BY DEF ApplicationId
    <2> QED  BY <2>1, <2>2 DEF NodeOK, TypeFits
<1>3. ASSUME NEW d \in ComponentNames(w)  PROVE Edge(ApplicationId, ComponentOf(d), "CONTAINS") \in G.edges
    <2>1. ComponentOf(d) \in DOMAIN G.nodes
        <3>1. CallsShown(w, G)  BY SyncedCalls
        <3> QED  BY <3>1 DEF CallsShown, ComponentNames
    <2>2. PICK f \in Nodes(F) : /\ f.rid = ComponentOf(d) /\ Stands(F, ComponentOf(d)) = ComponentOf(d)
                                /\ NodeOK(f, ImageIds)
                                /\ G.nodes[ComponentOf(d)] = [type |-> f.type, attrs |-> f.attrs]
        BY <2>1, SyncedFacts
    <2>3. ComponentOf(d)[1] = "comp"  BY DEF ComponentOf, ComponentId
    <2>4. "parent_resource_id" \in DOMAIN f.attrs /\ f.attrs.parent_resource_id = ApplicationId
        BY <2>2, <2>3 DEF NodeOK, AttrsOK
    <2>5. \A q \in Nodes(F) :
              /\ "parent_resource_id" \in DOMAIN q.attrs
              /\ q.rid \in DOMAIN G.nodes /\ q.attrs.parent_resource_id \in DOMAIN G.nodes
              => Edge(q.attrs.parent_resource_id, q.rid, "CONTAINS") \in G.edges
        BY SyncedFacts, ImagesOrdered, ResolvedGraph DEF Synchronized
    <2> QED  BY <1>1, <2>1, <2>2, <2>4, <2>5
<1> QED  BY <1>1, <1>2, <1>3 DEF ApplicationShown

LEMMA InitReports == Init => ReportInv
<1> SUFFICES ASSUME Init  PROVE ReportInv  OBVIOUS
<1>1. rows = {} /\ topology = NoTopology /\ synced = {} /\ clock = Start  BY DEF Init
<1>2. IsFiniteSet({})  BY FS_EmptySet
<1>3. DOMAIN topology.nodes = {}  BY <1>1 DEF NoTopology
<1> QED  BY <1>1, <1>2, <1>3 DEF ReportInv, Clocks

LEMMA NextReports ==
    ASSUME EventsInv, TopologyInv, ReportInv, [Next]_vars
    PROVE  ReportInv'
<1>1. CASE Sync
    <2>1. PICK stored, F, G : /\ stored = UpsertFacts(rows, Batch(world, clock), clock)
                              /\ F = LatestTopologyFacts(stored) /\ G = Resolve(F)
        OBVIOUS
    <2>2. world \in Worlds /\ clock \in Nat /\ FactsOK(rows, ImageIds, clock)  BY DEF EventsInv, TopologyInv
    <2>3. Synchronized(rows, world, clock, F, G)  BY <2>1, <2>2 DEF Synchronized
    <2>4. IsFiniteSet(rows) /\ clock \in Clocks  BY DEF ReportInv
    <2>5. IsFiniteSet(Batch(world, clock))  BY <2>2, <2>4, FactsAssumption DEF Clocks
    <2>6. IsFiniteSet(stored) /\ IsFiniteSet(DOMAIN G.nodes)  BY <2>1, <2>3, <2>4, <2>5, FiniteSync
    <2>7. PICK next : next = MergeMetricHealth(G, LatestMetricFacts(stored))  OBVIOUS
    <2>8. topology' = next /\ synced' = {world} /\ clock' = clock
        BY <1>1, <2>1, <2>7, SyncStores DEF Sync, Computed
    <2>9. SameButHealth(G, next)
        <3>1. TopologyOK(G) /\ NodesTyped(G)  BY <2>3, SyncedFacts
        <3> QED  BY <2>7, <3>1, MergedGraph
    <2>10. CrashShown(world, next)  BY <2>3, <2>7, SyncedCrashes
    <2>11. ApplicationShown(world, next)
        <3>1. ApplicationShown(world, G)  BY <2>3, SyncedApplication
        <3> QED  BY <2>9, <3>1 DEF ApplicationShown, SameButHealth
    <2>12. IsFiniteSet(rows')
        <3>1. rows' = LatestTopologyFacts(stored) \cup LatestMetricFacts(stored)  BY <1>1, <2>1 DEF Sync
        <3>2. LatestTopologyFacts(stored) \subseteq stored
            <4>1. FactsOK(stored, ImageIds, clock)  BY <2>1, <2>3, SyncedFacts
            <4> QED  BY <2>2, <4>1, LatestOK
        <3>3. LatestMetricFacts(stored) \subseteq stored  BY DEF LatestMetricFacts
        <3>4. rows' \in SUBSET stored  BY <3>1, <3>2, <3>3
        <3> QED  BY <2>6, <3>4, FS_Subset
    <2>13. IsFiniteSet(DOMAIN next.nodes)  BY <2>6, <2>9 DEF SameButHealth
    <2>14. clock' \in Clocks  BY <2>4, <2>8
    <2> QED  BY <2>8, <2>10, <2>11, <2>12, <2>13, <2>14 DEF ReportInv, Clocks
<1>2. CASE ~Sync
    <2>1. /\ UNCHANGED <<rows, topology>> /\ synced' \subseteq synced
          /\ clock' = clock \/ (clock' = clock + 2 /\ clock < MaxClock)
        BY <1>2 DEF Next, Command, Tick, WorldMoves, RecordChangeEvent, RecordAlert, ResolveAlert, Restart,
                    vars, sync
    <2>2. clock' \in Clocks
        <3>1. clock \in Clocks  BY DEF ReportInv
        <3>2. clock \in Nat /\ Start \in Nat /\ MaxClock \in Nat  BY ConsoleAssumption DEF EventsInv
        <3>3. PICK now : now = clock'  OBVIOUS
        <3>4. now = clock \/ (now = clock + 2 /\ clock < MaxClock)  BY <2>1, <3>3
        <3>5. now \in Clocks
            <4>1. CASE now = clock  BY <3>1, <4>1
            <4>2. CASE now = clock + 2 /\ clock < MaxClock
                <5>1. clock >= Start  BY <3>1, <3>2 DEF Clocks
                <5>2. Start % 2 = 0  BY ConsoleAssumption
                <5> QED  BY <3>2, <4>2, <5>1 DEF Clocks
            <4> QED  BY <3>4, <4>1, <4>2
        <3> QED  BY <3>3, <3>5
    <2> QED  BY <2>1, <2>2 DEF ReportInv, Clocks
<1> QED  BY <1>1, <1>2

-----------------------------------------------------------------------------
(* Reports: what they tell *)

\* A component's Deployment, its pods and what these use belong to the application.
LEMMA BelongsToApplication ==
    ASSUME NEW w, NEW G, GraphShows(w, G), ApplicationShown(w, G), NEW p \in Lists(w).pods,
           NEW d \in Owners({p}, Lists(w)) \cap Components(w)
    PROVE  /\ {d, PodId(p.name)} \subseteq Subtree(G, ApplicationId)
           /\ \A r \in DOMAIN G.nodes : p \in Users(Lists(w), r) => r \in Subtree(G, ApplicationId)
<1>1. PICK n \in ComponentNames(w) : d = DeployId(n)  BY DEF Components, ComponentNames
<1>2. PICK e, f, g : /\ e = Edge(ApplicationId, ComponentOf(n), "CONTAINS")
                     /\ f = Edge(ComponentOf(n), d, "DEPLOYED_AS")
                     /\ g = Edge(d, PodId(p.name), "CONTAINS")
    OBVIOUS
<1>3. e \in G.edges /\ f \in G.edges /\ g \in G.edges
    <2>1. e \in G.edges  BY <1>2 DEF ApplicationShown
    <2>2. f \in G.edges  BY <1>1, <1>2 DEF GraphShows, CallsShown, ComponentNames
    <2>3. g \in G.edges  BY <1>2 DEF GraphShows, PodsOwned
    <2> QED  BY <2>1, <2>2, <2>3
<1>4. /\ e.source = ApplicationId /\ e.target = ComponentOf(n) /\ e.edge_type = "CONTAINS"
      /\ f.source = ComponentOf(n) /\ f.target = d /\ f.edge_type = "DEPLOYED_AS"
      /\ g.source = d /\ g.target = PodId(p.name) /\ g.edge_type = "CONTAINS"
    BY <1>2 DEF Edge
<1>5. {"CONTAINS", "DEPLOYED_AS", "USES"} \subseteq PropagationEdges  BY DEF PropagationEdges
<1>6. PICK R : R = Reach(G, ApplicationId, PropagationEdges, "forward", 6)  OBVIOUS
<1>7. /\ {d, PodId(p.name)} \subseteq R
      /\ \A h \in G.edges : h.edge_type \in PropagationEdges /\ h.source = PodId(p.name) => h.target \in R
    BY <1>3, <1>4, <1>5, <1>6, ReachesFarForth DEF ApplicationShown
<1>8. R \subseteq Subtree(G, ApplicationId)  BY <1>6, DescendsTo DEF Subtree
<1>9. ASSUME NEW r \in DOMAIN G.nodes, p \in Users(Lists(w), r)  PROVE r \in R
    <2>1. PICK h : h = Edge(PodId(p.name), r, "USES")  OBVIOUS
    <2>2. h \in G.edges  BY <1>9, <2>1 DEF GraphShows, UsesShown
    <2>3. h.source = PodId(p.name) /\ h.target = r /\ h.edge_type = "USES"  BY <2>1 DEF Edge
    <2> QED  BY <1>5, <1>7, <2>2, <2>3
<1> QED  BY <1>7, <1>8, <1>9

\* The sections of each report.
LEMMA ReportsMade ==
    ASSUME NEW G, NEW reg, NEW runs, NEW scope, scope.fault_id = 0,
           NEW all, all = Everything(G, reg, runs), NEW app, app = scope.application_id
    PROVE  /\ \A report \in GenerateReport("application_health", {}, scope, G, reg, runs, IncidentWindow) :
                  /\ report["health_score"] = ComputeHealthScore(G, app)
                  /\ report["risk_list"] = GatherRiskList(G, reg, app)
                  /\ report["seven_views"] = GatherSevenViews(G, reg, runs, app)
           /\ \A report \in GenerateReport("cluster_overview", {}, scope, G, reg, runs, IncidentWindow) :
                  /\ report["cluster_health"] = GatherClusterHealth(G, all)
                  /\ report["cluster_risk_top_n"] = GatherClusterRiskTopN(G, reg, all)
           /\ Known(reg, scope.change_event_id) =>
                  GenerateReport("incident_report", {}, scope, G, reg, runs, IncidentWindow) # {}
           /\ \A report \in GenerateReport("incident_report", {}, scope, G, reg, runs, IncidentWindow) :
                  LET anchor == Get(reg, scope.change_event_id)
                  IN /\ report["incident_summary"] = GatherIncidentSummary(G, anchor)
                     /\ report["incident_timeline"] = GatherIncidentTimeline(G, reg, runs, anchor, IncidentWindow)
                     /\ report["incident_recoveries"] = GatherIncidentRecoveries(G, runs, anchor)
<1> DEFINE Made(modules, anchor) == [m \in modules |-> Section(m, G, reg, runs, app, anchor, IncidentWindow)]
<1>1. PICK A, C, I : /\ A = EnabledModules("application_health", {})
                     /\ C = EnabledModules("cluster_overview", {})
                     /\ I = EnabledModules("incident_report", {})
    OBVIOUS
<1>2. /\ {"health_score", "risk_list", "seven_views"} \subseteq A
      /\ {"cluster_health", "cluster_risk_top_n"} \subseteq C
      /\ {"incident_summary", "incident_timeline", "incident_recoveries"} \subseteq I
    BY <1>1 DEF EnabledModules, ValidModules
<1>3. \A anchor :
          /\ Section("health_score", G, reg, runs, app, anchor, IncidentWindow) = ComputeHealthScore(G, app)
          /\ Section("risk_list", G, reg, runs, app, anchor, IncidentWindow) = GatherRiskList(G, reg, app)
          /\ Section("seven_views", G, reg, runs, app, anchor, IncidentWindow) = GatherSevenViews(G, reg, runs, app)
    BY DEF Section
<1>4. \A anchor :
          /\ Section("cluster_health", G, reg, runs, app, anchor, IncidentWindow) = GatherClusterHealth(G, all)
          /\ Section("cluster_risk_top_n", G, reg, runs, app, anchor, IncidentWindow) = GatherClusterRiskTopN(G, reg, all)
    BY DEF Section
<1>5. \A anchor :
          /\ Section("incident_summary", G, reg, runs, app, anchor, IncidentWindow) = GatherIncidentSummary(G, anchor)
          /\ Section("incident_timeline", G, reg, runs, app, anchor, IncidentWindow) =
                 GatherIncidentTimeline(G, reg, runs, anchor, IncidentWindow)
          /\ Section("incident_recoveries", G, reg, runs, app, anchor, IncidentWindow) =
                 GatherIncidentRecoveries(G, runs, anchor)
    BY DEF Section
<1>6. /\ GenerateReport("application_health", {}, scope, G, reg, runs, IncidentWindow) = {Made(A, "none")}
      /\ GenerateReport("cluster_overview", {}, scope, G, reg, runs, IncidentWindow) = {Made(C, "none")}
      /\ GenerateReport("incident_report", {}, scope, G, reg, runs, IncidentWindow) =
             {Made(I, anchor) : anchor \in ResolveAnchor(reg, scope)}
    BY <1>1 DEF GenerateReport
<1>7. \A modules, anchor : \A m \in modules :
          Made(modules, anchor)[m] = Section(m, G, reg, runs, app, anchor, IncidentWindow)
    OBVIOUS
<1> HIDE DEF Made
<1>8. /\ Known(reg, scope.change_event_id) => ResolveAnchor(reg, scope) # {}
      /\ \A anchor \in ResolveAnchor(reg, scope) : anchor = Get(reg, scope.change_event_id)
    BY DEF ResolveAnchor
<1>9. \A report \in GenerateReport("application_health", {}, scope, G, reg, runs, IncidentWindow) :
          /\ report["health_score"] = ComputeHealthScore(G, app)
          /\ report["risk_list"] = GatherRiskList(G, reg, app)
          /\ report["seven_views"] = GatherSevenViews(G, reg, runs, app)
    BY <1>2, <1>3, <1>6, <1>7
<1>10. \A report \in GenerateReport("cluster_overview", {}, scope, G, reg, runs, IncidentWindow) :
          /\ report["cluster_health"] = GatherClusterHealth(G, all)
          /\ report["cluster_risk_top_n"] = GatherClusterRiskTopN(G, reg, all)
    BY <1>2, <1>4, <1>6, <1>7
<1>11. ASSUME NEW report \in GenerateReport("incident_report", {}, scope, G, reg, runs, IncidentWindow),
              NEW anchor, anchor = Get(reg, scope.change_event_id)
       PROVE  /\ report["incident_summary"] = GatherIncidentSummary(G, anchor)
              /\ report["incident_timeline"] = GatherIncidentTimeline(G, reg, runs, anchor, IncidentWindow)
              /\ report["incident_recoveries"] = GatherIncidentRecoveries(G, runs, anchor)
    <2>1. report = Made(I, anchor)  BY <1>6, <1>8, <1>11
    <2> QED  BY <1>2, <1>5, <1>7, <2>1
<1> QED  BY <1>6, <1>8, <1>9, <1>10, <1>11

LEMMA NotBelowZero ==
    ASSUME NEW x \in Int
    PROVE  Max({0, x}) \in Int /\ Max({0, x}) = IF x > 0 THEN x ELSE 0
<1>1. PICK m : m = IF x > 0 THEN x ELSE 0  OBVIOUS
<1>2. m \in {0, x} /\ \A y \in {0, x} : m >= y  BY <1>1
<1>3. \A n \in {0, x} : (\A y \in {0, x} : n >= y) => n = m  BY <1>1
<1>4. Max({0, x}) = m  BY <1>2, <1>3 DEF Max
<1> QED  BY <1>1, <1>4

\* The pods of a component that crash-loop.
Crashed(w) ==
    {p \in Lists(w).pods : "crashloop" \in {c.state : c \in p.containers} /\ Owners({p}, Lists(w)) \cap Components(w) # {}}

\* Each is a critical risk of the application, and costs it ten points.
LEMMA CrashesTold ==
    ASSUME TopologyInv, ReportInv, NEW w \in synced, NEW app, app = ApplicationId
    PROVE  /\ {PodId(p.name) : p \in Crashed(w)} \subseteq WithHealth(topology, Subtree(topology, app), "critical")
           /\ ComputeHealthScore(topology, app).score <= Max({0, 100 - 10 * Cardinality(Crashed(w))})
           /\ ComputeHealthScore(topology, app).score \in Int
<1>1. PICK risks, warned : /\ risks = WithHealth(topology, Subtree(topology, app), "critical")
                           /\ warned = WithHealth(topology, Subtree(topology, app), "warning")
    OBVIOUS
<1>2. w \in Worlds /\ GraphShows(w, topology) /\ CrashShown(w, topology) /\ ApplicationShown(w, topology)
    BY DEF TopologyInv, ReportInv
<1>3. ASSUME NEW p \in Crashed(w)  PROVE PodId(p.name) \in risks
    <2>1. p \in Lists(w).pods /\ Crashing(p)  BY DEF Crashed, Crashing
    <2>2. PICK d : d \in Owners({p}, Lists(w)) \cap Components(w)  BY DEF Crashed
    <2>3. PodId(p.name) \in Subtree(topology, app)  BY <1>2, <2>1, <2>2, BelongsToApplication
    <2>4. PodId(p.name) \in DOMAIN topology.nodes /\ ShownHealth(topology.nodes[PodId(p.name)]) = "critical"
        BY <1>2, <2>1 DEF CrashShown
    <2> QED  BY <1>1, <2>3, <2>4 DEF WithHealth, Placed, HasNode
<1>4. IsFiniteSet(risks) /\ IsFiniteSet(warned)
    <2>1. risks \in SUBSET DOMAIN topology.nodes /\ warned \in SUBSET DOMAIN topology.nodes
        BY <1>1 DEF WithHealth, Placed, HasNode
    <2>2. IsFiniteSet(DOMAIN topology.nodes)  BY DEF ReportInv
    <2> QED  BY <2>1, <2>2, FS_Subset
<1>5. IsFiniteSet(Crashed(w)) /\ Cardinality(Crashed(w)) <= Cardinality(risks)
    <2>1. PICK f : f = [p \in Crashed(w) |-> PodId(p.name)]  OBVIOUS
    <2>2. f \in [Crashed(w) -> risks]  BY <1>3, <2>1
    <2>3. ASSUME NEW p \in Crashed(w), NEW q \in Crashed(w), f[p] = f[q]  PROVE p = q
        <3>1. <<"pod", p.name>> = <<"pod", q.name>>  BY <2>1, <2>3 DEF PodId
        <3>2. p.name = q.name  BY <3>1
        <3>3. \A x, y \in Lists(w)["pods"] : x.name = y.name => x = y  BY <1>2, ListsNamed
        <3> QED  BY <3>2, <3>3 DEF Crashed
    <2>4. f \in Injection(Crashed(w), risks)  BY <2>2, <2>3 DEF Injection, IsInjective
    <2> QED  BY <1>4, <2>4, FS_Injection
<1>6. PICK r, s, c : r = Cardinality(risks) /\ s = Cardinality(warned) /\ c = Cardinality(Crashed(w))  OBVIOUS
<1>7. r \in Nat /\ s \in Nat /\ c \in Nat /\ c <= r  BY <1>4, <1>5, <1>6, FS_CardinalityType
<1>8. ComputeHealthScore(topology, app).score = Max({0, 100 - 10 * r - 3 * s})
    BY <1>1, <1>6 DEF ComputeHealthScore
<1>9. Max({0, 100 - 10 * r - 3 * s}) \in Int /\ Max({0, 100 - 10 * r - 3 * s}) <= Max({0, 100 - 10 * c})
    <2>1. PICK x, y : x = 100 - 10 * r - 3 * s /\ y = 100 - 10 * c  OBVIOUS
    <2>2. x \in Int /\ y \in Int /\ x <= y  BY <1>7, <2>1
    <2>3. /\ Max({0, x}) = IF x > 0 THEN x ELSE 0
          /\ Max({0, y}) = IF y > 0 THEN y ELSE 0
        BY <2>2, NotBelowZero
    <2> QED  BY <2>1, <2>2, <2>3
<1> QED  BY <1>1, <1>3, <1>6, <1>8, <1>9

\* The application is the one that the overview lists.
LEMMA OverviewTold ==
    ASSUME TopologyInv, ReportInv, NEW w \in synced, NEW all, DOMAIN topology.nodes \subseteq all,
           NEW score, score = ComputeHealthScore(topology, ApplicationId)
    PROVE  /\ Range(GatherClusterHealth(topology, all).apps) = {score}
           /\ GatherClusterRiskTopN(topology, changes, all).apps[1] = score
<1>1. ApplicationShown(w, topology) /\ score.score \in Int  BY CrashesTold DEF ReportInv
<1>2. ListApplications(topology, all) = {ApplicationId}
    BY <1>1 DEF ListApplications, OfType, Placed, HasNode, ApplicationShown
<1>3. PICK scores : scores = SetToSeq({ComputeHealthScore(topology, a) : a \in ListApplications(topology, all)})
    OBVIOUS
<1>4. scores = SetToSeq({score})  BY <1>2, <1>3
<1>5. scores \in [1..1 -> {score}]
    <2>1. IsFiniteSet({score}) /\ Cardinality({score}) = 1  BY FS_Singleton
    <2>2. PICK f : f = [i \in 1..1 |-> score]  OBVIOUS
    <2>3. f \in [1..1 -> {score}] /\ IsInjective(f)  BY <2>2 DEF IsInjective
    <2> QED  BY <1>4, <2>1, <2>3 DEF SetToSeq
<1>6. DOMAIN scores = {1} /\ scores[1] = score  BY <1>5
<1>7. PICK key : key = Column(scores, DOMAIN scores, "score")  OBVIOUS
<1>8. key = [i \in DOMAIN scores |-> scores[i].score]  BY <1>7 DEF Column
<1>9. key \in [DOMAIN scores -> Int]  BY <1>1, <1>6, <1>8
<1>10. PICK apps : apps = Sorted(scores, DOMAIN scores, key)  OBVIOUS
<1>11. IsFiniteSet({1}) /\ Cardinality({1}) = 1  BY FS_Singleton
<1>12. Len(apps) = 1 /\ DOMAIN apps = 1..1 /\ \E k \in DOMAIN apps : apps[k] = scores[1]
    <2>1. PICK places : places = {1}  OBVIOUS
    <2>2. Sortable(places, key)  BY <1>6, <1>9, <1>11, <2>1 DEF Sortable
    <2>3. apps = Sorted(scores, places, key)  BY <1>6, <1>10, <2>1
    <2>4. SortedFrom(apps, scores, places, key)  BY <2>2, <2>3, SortedHolds
    <2> QED  BY <1>11, <2>1, <2>4 DEF SortedFrom
<1>13. apps[1] = score  BY <1>6, <1>12
<1>14. GatherClusterHealth(topology, all).apps = apps  BY <1>3, <1>7, <1>10 DEF GatherClusterHealth
<1>15. Range(apps) = {score}  BY <1>12, <1>13 DEF Range
<1>16. SubSeq(apps, 1, Min({TopN, Len(apps)}))[1] = score
    <2>1. Min({5, 1}) = 1
        <3>1. 1 \in {5, 1} /\ \A y \in {5, 1} : 1 <= y  OBVIOUS
        <3>2. \A n \in {5, 1} : (\A y \in {5, 1} : n <= y) => n = 1  OBVIOUS
        <3> QED  BY <3>1, <3>2 DEF Min
    <2>2. PICK top : top = SubSeq(apps, 1, 1)  OBVIOUS
    <2>3. top[1] = apps[1]
        <3>1. apps = [i \in 1..1 |-> apps[i]]  BY <1>10, <1>12 DEF Sorted
        <3>2. apps \in Seq({score})  BY <1>13, <3>1
        <3> QED  BY <1>12, <2>2, <3>2, SubSeqProperties
    <2> QED  BY <1>12, <1>13, <2>1, <2>2, <2>3 DEF TopN
<1> QED  BY <1>14, <1>15, <1>16 DEF GatherClusterRiskTopN

\* The strings of two times are in the order of their seconds.
LEMMA LexicalSeconds ==
    ASSUME NEW s \in Int, NEW t \in Int, Lexical(s) <= Lexical(t)
    PROVE  s \div 2 <= t \div 2
BY DEF Lexical

\* The timeline of an incident has every change and recovery around it, by the second.
LEMMA TimelineTold ==
    ASSUME NEW G, NEW reg, RegistryOK(reg), NEW run, run.at \in Int, NEW anchor, NEW line,
           line = GatherIncidentTimeline(G, reg, <<run>>, anchor, IncidentWindow)
    PROVE  /\ \A e \in Range(reg) :
                  /\ e.target \in PropagatedWithTarget(G, anchor)
                  /\ SecondsBetween(e.at, anchor.at) <= IncidentWindow \div 2
                  => Item("change", e) \in Range(line)
           /\ /\ run.target \in PropagatedWithTarget(G, anchor)
              /\ SecondsBetween(run.at, anchor.at) <= IncidentWindow \div 2
              => Item("recovery", run) \in Range(line)
           /\ \A k \in 1..(Len(line) - 1) : line[k].at \div 2 <= line[k + 1].at \div 2
<1>1. PICK n \in Nat : n = Len(reg)  BY LenProperties DEF RegistryOK
<1>2. DOMAIN reg = 1..n /\ \A i \in 1..n : reg[i].at \in Int  BY <1>1, LenProperties DEF RegistryOK
<1>3. PICK U : U = {Item("change", reg[i]) : i \in 1..n} \cup {Item("recovery", run)}  OBVIOUS
<1>4. PICK A, B, items : /\ A = [i \in DOMAIN reg |-> Item("change", reg[i])]
                         /\ B = [i \in DOMAIN <<run>> |-> Item("recovery", <<run>>[i])]
                         /\ items = A \o B
    OBVIOUS
<1>5. /\ DOMAIN items = 1..(n + 1) /\ items[n + 1] = Item("recovery", run)
      /\ \A i \in 1..n : items[i] = Item("change", reg[i])
    <2>1. A \in Seq(U) /\ Len(A) = n
        <3>1. A = [i \in 1..n |-> Item("change", reg[i])]  BY <1>2, <1>4
        <3>2. A \in [1..n -> U]  BY <1>3, <3>1
        <3> QED  BY <3>1, <3>2
    <2>2. B \in Seq(U) /\ Len(B) = 1 /\ B[1] = Item("recovery", run)
        <3>1. B = [i \in 1..1 |-> Item("recovery", run)]  BY <1>4
        <3>2. B \in [1..1 -> U]  BY <1>3, <3>1
        <3> QED  BY <3>1, <3>2
    <2>3. /\ items \in Seq(U) /\ Len(items) = n + 1
          /\ \A k \in 1..(n + 1) : items[k] = IF k <= n THEN A[k] ELSE B[k - n]
        BY <1>4, <2>1, <2>2, ConcatProperties
    <2>4. DOMAIN items = 1..(n + 1)  BY <2>3, LenProperties
    <2>5. items[n + 1] = B[1]
        <3>1. n + 1 \in 1..(n + 1) /\ ~(n + 1 <= n) /\ (n + 1) - n = 1  OBVIOUS
        <3> QED  BY <2>3, <3>1
    <2>6. \A i \in 1..n : items[i] = A[i]  BY <2>3
    <2> QED  BY <1>2, <1>4, <2>2, <2>4, <2>5, <2>6
<1>6. \A i \in 1..(n + 1) : items[i].at \in Int
    <2>1. \A kind, e : Item(kind, e).at = e.at  BY DEF Item
    <2>2. \A i \in 1..(n + 1) : i \in 1..n \/ i = n + 1  OBVIOUS
    <2> QED  BY <1>2, <1>5, <2>1, <2>2
<1>7. PICK around : around = {i \in Against(items, PropagatedWithTarget(G, anchor)) :
                                  WithinWindow(items[i].at, anchor, IncidentWindow)}
    OBVIOUS
<1>8. around = {i \in 1..(n + 1) : /\ items[i].target \in PropagatedWithTarget(G, anchor)
                                   /\ SecondsBetween(items[i].at, anchor.at) <= IncidentWindow \div 2}
    BY <1>5, <1>7 DEF Against, WithinWindow
<1>9. PICK key : key = [i \in around |-> Lexical(items[i].at)]  OBVIOUS
<1>10. line = Sorted(items, around, key)  BY <1>4, <1>7, <1>9 DEF GatherIncidentTimeline
<1>11. around \in SUBSET Nat /\ IsFiniteSet(around)
    <2>1. around \in SUBSET (1..(n + 1)) /\ 1..(n + 1) \subseteq Nat  BY <1>8
    <2>2. IsFiniteSet(1..(n + 1))  BY FS_Interval
    <2> QED  BY <2>1, <2>2, FS_Subset
<1>12. key \in [around -> Int]
    <2>1. \A i \in around : Lexical(items[i].at) \in Int  BY <1>6, <1>8 DEF Lexical
    <2> QED  BY <1>9, <2>1
<1>13. /\ \A i \in around : \E k \in DOMAIN line : line[k] = items[i]
       /\ \A k \in 1..(Len(line) - 1) : \E i, j \in around :
              line[k] = items[i] /\ line[k + 1] = items[j] /\ key[i] <= key[j]
    <2>1. Sortable(around, key)  BY <1>11, <1>12 DEF Sortable
    <2>2. SortedFrom(line, items, around, key)  BY <1>10, <2>1, SortedHolds
    <2> QED  BY <2>2 DEF SortedFrom
<1>14. \A i \in around : items[i] \in Range(line)  BY <1>13 DEF Range
<1>15. \A kind, e : Item(kind, e).target = e.target /\ Item(kind, e).at = e.at  BY DEF Item
<1>16. ASSUME NEW e \in Range(reg), e.target \in PropagatedWithTarget(G, anchor),
              SecondsBetween(e.at, anchor.at) <= IncidentWindow \div 2
       PROVE  Item("change", e) \in Range(line)
    <2>1. PICK i \in 1..n : e = reg[i]  BY <1>2 DEF Range
    <2>2. items[i] = Item("change", e) /\ i \in 1..(n + 1)  BY <1>5, <2>1
    <2>3. i \in around  BY <1>8, <1>15, <1>16, <2>2
    <2> QED  BY <1>14, <2>2, <2>3
<1>17. ASSUME run.target \in PropagatedWithTarget(G, anchor), SecondsBetween(run.at, anchor.at) <= IncidentWindow \div 2
       PROVE  Item("recovery", run) \in Range(line)
    <2>1. n + 1 \in 1..(n + 1)  OBVIOUS
    <2>2. n + 1 \in around  BY <1>5, <1>8, <1>15, <1>17, <2>1
    <2> QED  BY <1>5, <1>14, <2>2
<1>18. ASSUME NEW k \in 1..(Len(line) - 1)  PROVE line[k].at \div 2 <= line[k + 1].at \div 2
    <2>1. PICK i \in around, j \in around : line[k] = items[i] /\ line[k + 1] = items[j] /\ key[i] <= key[j]
        BY <1>13
    <2>2. PICK s \in Int, t \in Int : s = items[i].at /\ t = items[j].at  BY <1>6, <1>8
    <2>3. Lexical(s) <= Lexical(t)  BY <1>9, <2>1, <2>2
    <2> QED  BY <2>1, <2>2, <2>3, LexicalSeconds
<1> QED  BY <1>16, <1>17, <1>18

\* The Deployments that used the target of a change, and still do.
StillUsers(w, c) == Dependents(w, c.target) \cap {r \in dependents[c.id] : r[1] = "deploy"}

\* The report of a change that was found tells of those who still use its target.
LEMMA IncidentTold ==
    ASSUME EventsInv, TopologyInv, PollInv, ReportInv, NEW w \in synced,
           NEW i \in DOMAIN changes, NEW c, c = changes[i], FoundByPoll(c),
           NEW users, users = StillUsers(w, c), NEW run, run.target \in users, run.at = c.at + IncidentWindow,
           NEW line, line = GatherIncidentTimeline(topology, changes, <<run>>, c, IncidentWindow)
    PROVE  /\ users \cap Components(w) # {} =>
                  c.change_type \in DOMAIN GatherSevenViews(topology, changes, <<>>, ApplicationId).changes
           /\ users \subseteq ChangeEventImpact(changes, topology, c.id)
           /\ users \subseteq GatherIncidentSummary(topology, c)
           /\ \A d \in Range(changes) :
                  d.target \in users \cup {c.target} /\ SecondsBetween(d.at, c.at) <= IncidentWindow \div 2
                  => Item("change", d) \in Range(line)
           /\ Item("recovery", run) \in Range(line)
           /\ \A k \in 1..(Len(line) - 1) : line[k].at \div 2 <= line[k + 1].at \div 2
           /\ run \in GatherIncidentRecoveries(topology, <<run>>, c).executed
<1> USE DEF StillUsers
<1>1. RegistryOK(changes) /\ c \in Range(changes) /\ Get(changes, c.id) = c /\ c.at \in Int
    BY GetChange DEF EventsInv, RegistryOK, Range
<1>2. OfItsType(c) /\ c.target \in DOMAIN topology.nodes /\ GraphShows(w, topology) /\ w \in Worlds
    <2>1. dependents[c.id] # {}  OBVIOUS
    <2> QED  BY <1>1, <2>1 DEF PollInv, Reaches, TopologyInv
<1>3. c.target[1] \in {"cm", "secret"}  BY <1>2 DEF OfItsType
<1>4. PICK reached : reached = DOMAIN DerivePropagation(topology, c.target)  OBVIOUS
<1>5. users \subseteq reached /\ users \subseteq DOMAIN topology.nodes
    <2>1. {"USES", "CONTAINS", "ROUTES_TO"} \subseteq PropagationEdges  BY DEF PropagationEdges
    <2>2. \A d \in Dependents(w, c.target) :
              /\ d # c.target /\ d \in DOMAIN topology.nodes
              /\ d \in Reach(topology, c.target, PropagationEdges, "reverse", 4)
        BY <1>2, <1>3, <2>1, DependentsReached
    <2>3. \A d \in Dependents(w, c.target) : d \in reached  BY <1>4, <2>2, PropagatesTo
    <2> QED  BY <2>2, <2>3
<1>6. users \subseteq ChangeEventImpact(changes, topology, c.id)  BY <1>1, <1>4, <1>5 DEF ChangeEventImpact
<1>7. users \subseteq GatherIncidentSummary(topology, c)
    BY <1>4, <1>5 DEF GatherIncidentSummary, Placed, HasNode
<1>8. users \cup {c.target} \subseteq PropagatedWithTarget(topology, c)  BY <1>4, <1>5 DEF PropagatedWithTarget
<1>9. run.at \in Int /\ SecondsBetween(run.at, c.at) <= IncidentWindow \div 2
    <2>1. PICK at \in Int, W \in Nat : at = c.at /\ W = IncidentWindow
        BY <1>1, ConsoleAssumption DEF Windows
    <2>2. at + W \in Int /\ SecondsBetween(at + W, at) <= W \div 2  BY <2>1 DEF SecondsBetween
    <2> QED  BY <2>1, <2>2
<1>10. /\ \A e \in Range(changes) :
              /\ e.target \in PropagatedWithTarget(topology, c)
              /\ SecondsBetween(e.at, c.at) <= IncidentWindow \div 2
              => Item("change", e) \in Range(line)
       /\ /\ run.target \in PropagatedWithTarget(topology, c)
          /\ SecondsBetween(run.at, c.at) <= IncidentWindow \div 2
          => Item("recovery", run) \in Range(line)
       /\ \A k \in 1..(Len(line) - 1) : line[k].at \div 2 <= line[k + 1].at \div 2
    BY <1>1, <1>9, TimelineTold
<1>11. run \in GatherIncidentRecoveries(topology, <<run>>, c).executed
    <2>1. PICK runs : runs = <<run>>  OBVIOUS
    <2>2. 1 \in DOMAIN runs /\ runs[1] = run  BY <2>1
    <2>3. 1 \in Against(runs, PropagatedWithTarget(topology, c))  BY <1>8, <2>2 DEF Against
    <2>4. run \in {runs[k] : k \in Against(runs, PropagatedWithTarget(topology, c))}  BY <2>2, <2>3
    <2> QED  BY <2>1, <2>4 DEF GatherIncidentRecoveries
<1>12. ASSUME users \cap Components(w) # {}
       PROVE  c.change_type \in DOMAIN GatherSevenViews(topology, changes, <<>>, ApplicationId).changes
    <2>1. PICK d : d \in users /\ d \in Components(w)  BY <1>12
    <2>2. d \in Owners(Users(Lists(w), c.target), Lists(w))
        <3>1. d[1] = "deploy"  BY <2>1
        <3>2. \A x : PodId(x)[1] = "pod" /\ ServiceId(x)[1] = "service"  BY DEF PodId, ServiceId
        <3> QED  BY <2>1, <3>1, <3>2 DEF Dependents
    <2>3. PICK p \in Users(Lists(w), c.target) : d \in Owners({p}, Lists(w))  BY <2>2 DEF Owners
    <2>4. p \in Lists(w).pods  BY DEF Users
    <2>5. ApplicationShown(w, topology)  BY DEF ReportInv
    <2>6. c.target \in Subtree(topology, ApplicationId)
        BY <1>2, <2>1, <2>3, <2>4, <2>5, BelongsToApplication
    <2>7. PICK places : places = Against(changes, Subtree(topology, ApplicationId))  OBVIOUS
    <2>8. i \in places  BY <2>6, <2>7 DEF Against
    <2>9. PICK column : column = Column(changes, places, "change_type")  OBVIOUS
    <2>10. i \in DOMAIN column /\ column[i] = c.change_type  BY <2>8, <2>9 DEF Column
    <2>11. c.change_type \in DOMAIN Tally(column)  BY <2>10 DEF Tally, Range
    <2> QED  BY <2>7, <2>9, <2>11 DEF GatherSevenViews
<1> QED  BY <1>6, <1>7, <1>8, <1>9, <1>10, <1>11, <1>12

\* A report of the registries and the topology of now, and a recovery after a change.
ReportOf(template, id, runs) ==
    GenerateReport(template, {}, [application_id |-> ApplicationId, change_event_id |-> id, fault_id |-> 0],
                   topology, changes, runs, IncidentWindow)

RunOf(c, users) == [target |-> CHOOSE r \in users : TRUE, action |-> "rollback_deployment",
                    status |-> "succeeded", at |-> c.at + IncidentWindow]

Related(c, users) == {d \in Range(changes) : /\ d.target \in users \cup {c.target}
                                             /\ SecondsBetween(d.at, c.at) <= IncidentWindow \div 2}

\* What the reports of the application and of the cluster tell.
HealthFits(w) ==
    \A app \in ReportOf("application_health", 0, <<>>), cluster \in ReportOf("cluster_overview", 0, <<>>) :
        /\ {PodId(p.name) : p \in Crashed(w)} \subseteq app["risk_list"].critical
        /\ app["health_score"].score <= Max({0, 100 - 10 * Cardinality(Crashed(w))})
        /\ \A s \in Range(cluster["cluster_health"].apps) :
               cluster["cluster_risk_top_n"].apps[1].score <= s.score
        /\ app["health_score"] \in Range(cluster["cluster_health"].apps)

\* What the reports tell of a change, its users and a recovery of one of them.
IncidentFits(w, c, users, run) ==
    /\ users \cap Components(w) # {} => \A app \in ReportOf("application_health", 0, <<>>) :
           c.change_type \in DOMAIN app["seven_views"].changes
    /\ users \subseteq ChangeEventImpact(changes, topology, c.id)
    /\ ReportOf("incident_report", c.id, <<run>>) # {}
    /\ \A incident \in ReportOf("incident_report", c.id, <<run>>) :
           LET timeline == incident["incident_timeline"]
           IN /\ users \subseteq incident["incident_summary"]
              /\ {Item("change", d) : d \in Related(c, users)} \subseteq Range(timeline)
              /\ Item("recovery", run) \in Range(timeline)
              /\ \A k \in 1..(Len(timeline) - 1) : timeline[k].at \div 2 <= timeline[k + 1].at \div 2
              /\ run \in incident["incident_recoveries"].executed

LEMMA ReportsInParts ==
    ReportsTellOfTrouble <=> \A w \in synced :
        /\ HealthFits(w)
        /\ \A i \in DOMAIN changes :
               FoundByPoll(changes[i]) /\ StillUsers(w, changes[i]) # {} =>
                   IncidentFits(w, changes[i], StillUsers(w, changes[i]),
                                RunOf(changes[i], StillUsers(w, changes[i])))
BY DEF ReportsTellOfTrouble, HealthFits, IncidentFits, ReportOf, StillUsers, RunOf, Related, Crashed

\* All of it together.
LEMMA ReportsNow ==
    ASSUME EventsInv, TopologyInv, PollInv, ReportInv
    PROVE  ReportsTellOfTrouble
<1>1. PICK score : score = ComputeHealthScore(topology, ApplicationId)  OBVIOUS
<1>2. ASSUME NEW id, NEW runs
      PROVE  /\ \A app \in ReportOf("application_health", id, runs) :
                    /\ app["health_score"] = score
                    /\ app["risk_list"] = GatherRiskList(topology, changes, ApplicationId)
                    /\ app["seven_views"] = GatherSevenViews(topology, changes, runs, ApplicationId)
             /\ synced # {} => \A cluster \in ReportOf("cluster_overview", id, runs) :
                    /\ Range(cluster["cluster_health"].apps) = {score}
                    /\ cluster["cluster_risk_top_n"].apps[1] = score
             /\ Known(changes, id) => ReportOf("incident_report", id, runs) # {}
             /\ \A incident \in ReportOf("incident_report", id, runs) :
                    LET anchor == Get(changes, id)
                    IN /\ incident["incident_summary"] = GatherIncidentSummary(topology, anchor)
                       /\ incident["incident_timeline"] =
                              GatherIncidentTimeline(topology, changes, runs, anchor, IncidentWindow)
                       /\ incident["incident_recoveries"] = GatherIncidentRecoveries(topology, runs, anchor)
    <2>1. PICK all : all = Everything(topology, changes, runs)  OBVIOUS
    <2>2. PICK scope : scope = [application_id |-> ApplicationId, change_event_id |-> id, fault_id |-> 0]
        OBVIOUS
    <2>3. /\ scope.application_id = ApplicationId /\ scope.change_event_id = id /\ scope.fault_id = 0
          /\ \A template : ReportOf(template, id, runs)
                               = GenerateReport(template, {}, scope, topology, changes, runs, IncidentWindow)
        BY <2>2 DEF ReportOf
    <2>4. DOMAIN topology.nodes \subseteq all  BY <2>1 DEF Everything
    <2>5. ASSUME synced # {}
          PROVE  /\ Range(GatherClusterHealth(topology, all).apps) = {score}
                 /\ GatherClusterRiskTopN(topology, changes, all).apps[1] = score
        BY <1>1, <2>4, <2>5, OverviewTold
    <2>6. /\ \A report \in ReportOf("application_health", id, runs) :
                 /\ report["health_score"] = ComputeHealthScore(topology, ApplicationId)
                 /\ report["risk_list"] = GatherRiskList(topology, changes, ApplicationId)
                 /\ report["seven_views"] = GatherSevenViews(topology, changes, runs, ApplicationId)
          /\ \A report \in ReportOf("cluster_overview", id, runs) :
                 /\ report["cluster_health"] = GatherClusterHealth(topology, all)
                 /\ report["cluster_risk_top_n"] = GatherClusterRiskTopN(topology, changes, all)
          /\ Known(changes, id) => ReportOf("incident_report", id, runs) # {}
          /\ \A report \in ReportOf("incident_report", id, runs) :
                 LET anchor == Get(changes, id)
                 IN /\ report["incident_summary"] = GatherIncidentSummary(topology, anchor)
                    /\ report["incident_timeline"] =
                           GatherIncidentTimeline(topology, changes, runs, anchor, IncidentWindow)
                    /\ report["incident_recoveries"] = GatherIncidentRecoveries(topology, runs, anchor)
        BY <2>1, <2>3, ReportsMade
    <2> QED  BY <1>1, <2>5, <2>6
<1>3. ASSUME NEW w \in synced  PROVE HealthFits(w)
    <2> SUFFICES ASSUME NEW app \in ReportOf("application_health", 0, <<>>),
                        NEW cluster \in ReportOf("cluster_overview", 0, <<>>)
                 PROVE  /\ {PodId(p.name) : p \in Crashed(w)} \subseteq app["risk_list"].critical
                        /\ app["health_score"].score <= Max({0, 100 - 10 * Cardinality(Crashed(w))})
                        /\ \A s \in Range(cluster["cluster_health"].apps) :
                               cluster["cluster_risk_top_n"].apps[1].score <= s.score
                        /\ app["health_score"] \in Range(cluster["cluster_health"].apps)
        BY DEF HealthFits
    <2>1. /\ {PodId(p.name) : p \in Crashed(w)}
                 \subseteq WithHealth(topology, Subtree(topology, ApplicationId), "critical")
          /\ score.score <= Max({0, 100 - 10 * Cardinality(Crashed(w))}) /\ score.score \in Int
        BY <1>1, CrashesTold
    <2>2. app["health_score"] = score /\ app["risk_list"] = GatherRiskList(topology, changes, ApplicationId)
        BY <1>2
    <2>3. app["risk_list"].critical = WithHealth(topology, Subtree(topology, ApplicationId), "critical")
        BY <2>2 DEF GatherRiskList
    <2>4. Range(cluster["cluster_health"].apps) = {score} /\ cluster["cluster_risk_top_n"].apps[1] = score
        BY <1>2
    <2>5. score.score <= score.score  BY <2>1
    <2> QED  BY <2>1, <2>2, <2>3, <2>4, <2>5
<1>4. ASSUME NEW w \in synced, NEW i \in DOMAIN changes, NEW c, c = changes[i], FoundByPoll(c),
             NEW users, users = StillUsers(w, c), users # {}, NEW run, run = RunOf(c, users)
      PROVE  IncidentFits(w, c, users, run)
    <2>1. run.target \in users /\ run.at = c.at + IncidentWindow  BY <1>4 DEF RunOf
    <2>2. PICK line : line = GatherIncidentTimeline(topology, changes, <<run>>, c, IncidentWindow)  OBVIOUS
    <2>3. /\ users \cap Components(w) # {} =>
                 c.change_type \in DOMAIN GatherSevenViews(topology, changes, <<>>, ApplicationId).changes
          /\ users \subseteq ChangeEventImpact(changes, topology, c.id)
          /\ users \subseteq GatherIncidentSummary(topology, c)
          /\ \A d \in Range(changes) :
                 d.target \in users \cup {c.target} /\ SecondsBetween(d.at, c.at) <= IncidentWindow \div 2
                 => Item("change", d) \in Range(line)
          /\ Item("recovery", run) \in Range(line)
          /\ \A k \in 1..(Len(line) - 1) : line[k].at \div 2 <= line[k + 1].at \div 2
          /\ run \in GatherIncidentRecoveries(topology, <<run>>, c).executed
        BY <1>4, <2>1, <2>2, IncidentTold
    <2>4. Get(changes, c.id) = c /\ Known(changes, c.id)
        BY <1>4, GetChange DEF EventsInv, Known
    <2>5. ReportOf("incident_report", c.id, <<run>>) # {}  BY <1>2, <2>4
    <2>6. \A app \in ReportOf("application_health", 0, <<>>) :
              app["seven_views"] = GatherSevenViews(topology, changes, <<>>, ApplicationId)
        BY <1>2
    <2>7. \A incident \in ReportOf("incident_report", c.id, <<run>>) :
              /\ incident["incident_summary"] = GatherIncidentSummary(topology, c)
              /\ incident["incident_timeline"] = line
              /\ incident["incident_recoveries"] = GatherIncidentRecoveries(topology, <<run>>, c)
        BY <1>2, <2>2, <2>4
    <2>8. {Item("change", d) : d \in Related(c, users)} \subseteq Range(line)  BY <2>3 DEF Related
    <2> QED  BY <2>3, <2>5, <2>6, <2>7, <2>8 DEF IncidentFits
<1> QED  BY <1>3, <1>4, ReportsInParts

-----------------------------------------------------------------------------
(* The theorems *)

\* In every reachable state the registry numbers the changes one to n, its table
\* holds the same changes, and every resource that is too frequent is tagged.
THEOREM RegistriesStored == Spec => []EventsInv
<1>1. Init => EventsInv  BY InitEvents
<1>2. EventsInv /\ [Next]_vars => EventsInv'  BY NextEvents
<1> QED  BY <1>1, <1>2, PTL DEF Spec

\* A resource that changed too often has a change that says so, whatever syncs,
\* recordings and restarts came between (frequency.rs, event_service.rs).
THEOREM FrequentAreTagged == Spec => []FrequentTargetsAreTagged
<1>1. EventsInv => FrequentTargetsAreTagged
    BY FrequentlyFound DEF EventsInv, FrequentTargetsAreTagged, IsTagged
<1> QED  BY <1>1, RegistriesStored, PTL

\* The two searches of the correlation find each other, though one compares
\* strings and the other instants (alert_correlation.rs, iso.rs).
THEOREM CorrelatesBothWays == Spec => []CorrelationIsMutual
<1>1. EventsInv => CorrelationIsMutual  BY MutualNow
<1> QED  BY <1>1, RegistriesStored, PTL

\* No change that was recorded is ever lost or altered, by a restart either.
THEOREM ChangesAreKept == Spec => [][Kept(changes, changes')]_changes
<1>1. EventsInv /\ [Next]_vars => [Kept(changes, changes')]_changes
    BY NextEvents DEF Kept
<1> QED  BY <1>1, RegistriesStored, PTL DEF Spec

\* In every reachable state the facts that are stored have the shape of their
\* connector and are of the past, the topology shows what the last sync saw of the
\* world, no matter what was stored before, and a change that a sync found has
\* reached everyone who depended on its target (sync.rs, correlation.rs, graph.rs).
THEOREM TopologyIsOfWorld == Spec => [](TopologyInv /\ PollInv)
<1>1. Init => TopologyInv /\ PollInv  BY InitTopology, InitPoll
<1>2. EventsInv /\ (TopologyInv /\ PollInv) /\ [Next]_vars => (TopologyInv /\ PollInv)'
    BY NextTopology, NextPoll
<1> QED  BY <1>1, <1>2, RegistriesStored, PTL DEF Spec

\* What a sync stores is what it computed from the facts: the transaction that
\* applies the difference to the tables leaves nothing of the topology before
\* (diff_resources, apply_change_set).
THEOREM SyncStoresComputed == Spec => [][Sync => topology' = Computed(rows, world, clock)]_vars
<1>1. EventsInv /\ TopologyInv /\ [Next]_vars => [Sync => topology' = Computed(rows, world, clock)]_vars
    BY SyncStores
<1> QED  BY <1>1, RegistriesStored, TopologyIsOfWorld, PTL DEF Spec

\* A change of a ConfigMap or Secret that a sync finds concerns everyone who used
\* it in the cluster (map_pods, map_services, derive_propagation).
THEOREM ChangesReachUsers == Spec => []ConfigChangeReachesUsers
<1>1. EventsInv /\ PollInv => ConfigChangeReachesUsers  BY FoundAmong
<1> QED  BY <1>1, RegistriesStored, TopologyIsOfWorld, PTL

\* A warning event of something that used a ConfigMap or Secret when it changed
\* leads to the change, and the change to it (target_resource_id,
\* alert_correlation.rs).
THEOREM CausesAreFound == Spec => []AlertsFindTheirCause
<1>1. EventsInv /\ PollInv => AlertsFindTheirCause  BY CauseFound
<1> QED  BY <1>1, RegistriesStored, TopologyIsOfWorld, PTL

\* A repository and a container that name one image in different ways meet at one
\* node (correlation.rs, normalize_image_ref).
THEOREM BuildsMeetPods == Spec => []BuildsReachPods
<1>1. TopologyInv => BuildsReachPods  BY BuildsShown
<1> QED  BY <1>1, TopologyIsOfWorld, PTL

\* The views show all who depend on what they start from (views.rs,
\* alert_correlation.rs).
THEOREM ViewsAreWhole == Spec => []ViewsShowDependents
<1>1. EventsInv /\ TopologyInv => ViewsShowDependents  BY DependentsShown
<1> QED  BY <1>1, RegistriesStored, TopologyIsOfWorld, PTL

\* What is measured shows the worst of what the last sync measured and of what the
\* cluster says of it (health_merge.rs, latest_metric_facts).
THEOREM HealthIsShown == Spec => []HealthIsCurrent
<1>1. Init => HealthIsCurrent  BY DEF Init, HealthIsCurrent
<1>2. EventsInv /\ TopologyInv /\ HealthIsCurrent /\ [Next]_vars => HealthIsCurrent'  BY NextHealth
<1> QED  BY <1>1, <1>2, RegistriesStored, TopologyIsOfWorld, PTL DEF Spec

\* Enough calls from one traced service to another are an edge between the components
\* of the Deployments they are named after (service_to_component_id,
\* normalize_component_name).
THEOREM CallsFindComponents == Spec => []CallsAttach
<1>1. TopologyInv => CallsAttach  BY CallsShownNow
<1> QED  BY <1>1, TopologyIsOfWorld, PTL

\* Every Deployment that used a changed resource and still does is suggested for a
\* rollback, and the preview takes whatever is suggested and counts the pods.
THEOREM SuggestionsFit == Spec => []SuggestedRollbackFits
<1>1. EventsInv /\ TopologyInv /\ PollInv => SuggestedRollbackFits  BY SuggestionsNow
<1> QED  BY <1>1, RegistriesStored, TopologyIsOfWorld, PTL

\* A resource that has been seen stays in the topology, unless it is an image that
\* another stands for.
THEOREM ResourcesAreKept == Spec => [][Stays(topology, topology')]_topology
<1>1. EventsInv /\ TopologyInv /\ [Next]_vars => [Stays(topology, topology')]_topology
    BY ResourcesStay
<1> QED  BY <1>1, RegistriesStored, TopologyIsOfWorld, PTL DEF Spec

\* Reports tell of what is wrong: a pod of a component that crash-loops is a critical
\* risk and costs ten points, the application is in the overview and nothing before it is
\* better, and the report of a change that was found tells of those who still use its
\* target, of all that happened to them in the window, by the second, and of the
\* recovery that followed (health_score.rs, gatherers.rs, incident_gatherers.rs).
THEOREM ReportsAreTrue == Spec => []ReportsTellOfTrouble
<1>1. Init => ReportInv  BY InitReports
<1>2. EventsInv /\ TopologyInv /\ ReportInv /\ [Next]_vars => ReportInv'  BY NextReports
<1>3. EventsInv /\ TopologyInv /\ PollInv /\ ReportInv => ReportsTellOfTrouble  BY ReportsNow
<1> QED  BY <1>1, <1>2, <1>3, RegistriesStored, TopologyIsOfWorld, PTL DEF Spec

================================================================================
