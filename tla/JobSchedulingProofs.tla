------------------------- MODULE JobSchedulingProofs -------------------------
(***************************************************************************)
(* Proofs about JobGraph and JobScheduling, for every set of TaskManagers  *)
(* and every number of vertices, edges, tasks and slots.                   *)
(***************************************************************************)
EXTENDS JobScheduling, SequenceLemmas
-----------------------------------------------------------------------------
(***************************************************************************)
(* The allocation.                                                         *)
(***************************************************************************)

\* However many TaskManagers there are, one of the open ones is chosen.
LEMMA FillingIsOpen ==
    ASSUME slots \in [TMs -> 0 .. MaxSlots], Open(slots, available) # {}
    PROVE  Filling(slots, available) \in Open(slots, available)
<1> DEFINE open == Open(slots, available)
           lacks == {MaxSlots - slots[tm] : tm \in open}
<1>1. open \subseteq TMs
  BY DEF Open
<1>2. lacks \subseteq Nat /\ lacks # {}
  BY <1>1, JobSchedulingAssumption
<1>3. PICK least \in lacks : \A other \in lacks : least <= other
  BY <1>2, SmallestExists
<1>4. PICK tm \in open : least = MaxSlots - slots[tm]
  OBVIOUS
<1>5. ASSUME NEW other \in open PROVE slots[other] <= slots[tm]
  <2>1. MaxSlots - slots[tm] <= MaxSlots - slots[other]
    BY <1>3, <1>4
  <2> QED
    BY <1>1, <2>1, JobSchedulingAssumption
<1> QED
  BY <1>5 DEF Filling, Largest

\* Each task that is placed has been counted twice.
CountedTwice ==
    /\ slots = None => placed = << >>
    /\ slots # None =>
          /\ slots \in [TMs -> 0 .. MaxSlots]
          /\ available \in [TMs -> Int]
          /\ placed \in Seq(TMs)
          /\ \A tm \in TMs : available[tm] + 2 * Cardinality(On(tm)) = slots[tm]

LEMMA OnIsFinite ==
    ASSUME NEW tm, placed \in Seq(TMs)
    PROVE  IsFiniteSet(On(tm)) /\ Cardinality(On(tm)) \in Nat
<1>1. DOMAIN placed = 1 .. Len(placed) /\ Len(placed) \in Nat
  OBVIOUS
<1>2. IsFiniteSet(1 .. Len(placed))
  BY <1>1, FS_Interval
<1>3. On(tm) \in SUBSET (1 .. Len(placed))
  BY <1>1 DEF On
<1> QED
  BY <1>2, <1>3, FS_Subset, FS_CardinalityType

LEMMA NextCountedTwice ==
    CountedTwice /\ NeverOvercommits /\ [Next]_vars => CountedTwice' /\ NeverOvercommits'
<1> SUFFICES ASSUME CountedTwice, NeverOvercommits, [Next]_vars
             PROVE  CountedTwice' /\ NeverOvercommits'
  OBVIOUS
<1>1. CASE GraphStep \/ UNCHANGED vars
  BY <1>1 DEF GraphStep, vars, CountedTwice, NeverOvercommits, On
<1>2. CASE CreatePhysicalTasks
  <2>1. /\ slots' \in [TMs -> 0 .. MaxSlots] /\ available' = slots' /\ placed' = << >>
    BY <1>2 DEF CreatePhysicalTasks, CountedTwice
  <2>2. \A tm : On(tm)' = {}
    BY <2>1 DEF On
  <2>3. ASSUME NEW tm \in TMs
        PROVE  available'[tm] + 2 * Cardinality(On(tm)') = slots'[tm]
               /\ Cardinality(On(tm)') <= slots'[tm]
    <3>1. Cardinality(On(tm)') = 0
      BY <2>2, FS_EmptySet
    <3>2. slots'[tm] \in Nat /\ available'[tm] = slots'[tm]
      BY <2>1, JobSchedulingAssumption
    <3> QED
      BY <3>1, <3>2
  <2>4. available' \in [TMs -> Int]
    BY <2>1, JobSchedulingAssumption
  <2> QED
    BY <2>1, <2>3, <2>4 DEF CountedTwice, NeverOvercommits
<1>3. CASE PlaceTask
  <2> DEFINE tm == Filling(slots, available)
  <2>1. /\ slots \in [TMs -> 0 .. MaxSlots] /\ available \in [TMs -> Int]
        /\ placed \in Seq(TMs) /\ slots' = slots /\ slots # None
        /\ \A t \in TMs : available[t] + 2 * Cardinality(On(t)) = slots[t]
    BY <1>3 DEF PlaceTask, CountedTwice
  <2>2. tm \in TMs /\ available[tm] > 0
    BY <1>3, <2>1, FillingIsOpen DEF PlaceTask, Open
  <2>3. /\ placed' = Append(placed, tm)
        /\ available' = [available EXCEPT ![tm] = (available[tm] - 1) - 1]
    BY <1>3 DEF PlaceTask, TakeSlot
  <2> HIDE DEF tm
  <2>4. ASSUME NEW t \in TMs
        PROVE  On(t)' = IF t = tm THEN On(t) \cup {Len(placed) + 1} ELSE On(t)
    <3>1. DOMAIN placed' = DOMAIN placed \cup {Len(placed) + 1}
          /\ DOMAIN placed = 1 .. Len(placed) /\ Len(placed) \in Nat
      BY <2>1, <2>2, <2>3
    <3>2. placed'[Len(placed) + 1] = tm /\ \A k \in DOMAIN placed : placed'[k] = placed[k]
      BY <2>1, <2>2, <2>3
    <3> QED
      BY <3>1, <3>2 DEF On
  <2>5. Len(placed) + 1 \notin On(tm)
    BY <2>1 DEF On
  <2>6. ASSUME NEW t \in TMs
        PROVE  available'[t] + 2 * Cardinality(On(t)') = slots'[t]
               /\ Cardinality(On(t)') <= slots'[t]
    <3>1. IsFiniteSet(On(t)) /\ Cardinality(On(t)) \in Nat
      <4>1. placed \in Seq(TMs)
        BY <2>1
      <4> QED
        BY <4>1, OnIsFinite
    <3>2. available[t] + 2 * Cardinality(On(t)) = slots[t] /\ available[t] \in Int
      BY <2>1
    <3>3. slots'[t] = slots[t] /\ slots[t] \in Int
      BY <2>1, JobSchedulingAssumption
    <3>4. CASE t = tm
      <4>1. Cardinality(On(t)') = Cardinality(On(t)) + 1
        BY <2>4, <2>5, <3>1, <3>4, FS_AddElement
      <4>2. available'[t] = available[t] - 2
        BY <2>1, <2>3, <3>2, <3>4
      <4> QED
        BY <2>2, <3>1, <3>2, <3>3, <3>4, <4>1, <4>2
    <3>5. CASE t # tm
      <4>1. On(t)' = On(t) /\ available'[t] = available[t]
        BY <2>1, <2>3, <2>4, <3>5
      <4>2. Cardinality(On(t)) <= slots[t]
        BY <2>1 DEF NeverOvercommits
      <4> QED
        BY <3>2, <3>3, <4>1, <4>2
    <3> QED
      BY <3>4, <3>5
  <2>7. available' \in [TMs -> Int] /\ placed' \in Seq(TMs)
    BY <2>1, <2>2, <2>3
  <2> QED
    BY <2>1, <2>6, <2>7 DEF CountedTwice, NeverOvercommits
<1> QED
  BY <1>1, <1>2, <1>3 DEF Next

(* The plan asks no TaskManager for more than the slots it offered, for    *)
(* any registry, although allocate_slot and its caller both count a slot.  *)
THEOREM PlanFitsTheSlots == Spec => []NeverOvercommits
<1>1. Init => CountedTwice /\ NeverOvercommits
  BY DEF Init, CountedTwice, NeverOvercommits
<1> QED
  BY <1>1, NextCountedTwice, PTL DEF Spec
-----------------------------------------------------------------------------
(***************************************************************************)
(* The graph, and what the fluent API makes of it.                         *)
(***************************************************************************)

Phases == {"build", "sort", "chain", "extend", "raised", "chained"}

GraphTypeOK ==
    /\ fluent \in BOOLEAN
    /\ vertices \subseteq Vertices
    /\ sources \subseteq vertices /\ sinks \subseteq vertices
    /\ edges \in Seq(JobEdge)
    /\ \A i \in DOMAIN edges : edges[i].source \in vertices /\ edges[i].target \in vertices
    /\ phase \in Phases
    /\ result \in Seq(Vertices)
    /\ queue \in Seq(Vertices)
    /\ chains \in Seq(Seq(Vertices))
    /\ phase = "build" => result = << >>
    /\ phase \in {"build", "sort"} => chains = << >>

\* A program gives each vertex but the sources one edge, from one before it.
FluentHolds ==
    fluent =>
        /\ vertices = 1 .. Cardinality(vertices)
        /\ \A i \in DOMAIN edges :
              edges[i].source < edges[i].target /\ edges[i].source \notin sinks
        /\ \A v \in vertices :
              IF v \in sources THEN Incoming(v) = {} ELSE \E i : Incoming(v) = {i}

LEMMA InOrderHas ==
    ASSUME NEW n \in Nat, NEW S, S \subseteq 1 .. n
    PROVE  /\ InOrder(S, n) \in Seq(S)
           /\ ToSet(InOrder(S, n)) = S
           /\ IsInjective(InOrder(S, n))
<1> DEFINE ss == [i \in 1 .. n |-> IF i \in S THEN <<i>> ELSE << >>]
<1>1. ASSUME NEW i \in 1 .. n
      PROVE  /\ ss[i] \in Seq(S) /\ IsInjective(ss[i])
             /\ ToSet(ss[i]) = IF i \in S THEN {i} ELSE {}
  <2>1. CASE i \in S
    <3>1. ss[i] = <<i>> /\ DOMAIN <<i>> = {1} /\ <<i>>[1] = i
      BY <2>1
    <3>2. <<i>> \in Seq(S)
      BY <2>1
    <3> HIDE DEF ss
    <3> QED
      BY <2>1, <3>1, <3>2 DEF IsInjective, ToSet
  <2>2. CASE i \notin S
    <3>1. ss[i] = << >> /\ DOMAIN << >> = {} /\ << >> \in Seq(S)
      BY <2>2
    <3> HIDE DEF ss
    <3> QED
      BY <2>2, <3>1 DEF IsInjective, ToSet
  <2> QED
    BY <2>1, <2>2
<1>2. DOMAIN ss = 1 .. n /\ InOrder(S, n) = FlattenSeq(ss) /\ ss = [i \in 1 .. n |-> ss[i]]
  BY DEF InOrder
<1> HIDE DEF ss
<1>3. ss \in Seq(Seq(S))
  BY <1>1, <1>2, IsASeq
<1>4. /\ FlattenSeq(ss) \in Seq(S)
      /\ ToSet(FlattenSeq(ss)) = UNION {ToSet(ss[i]) : i \in DOMAIN ss}
      /\ (\A i \in DOMAIN ss : IsInjective(ss[i])
            /\ \A j \in DOMAIN ss : i # j => ToSet(ss[i]) \cap ToSet(ss[j]) = {})
         => IsInjective(FlattenSeq(ss))
  BY <1>3, FlattenSeqProperties
<1>5. UNION {ToSet(ss[i]) : i \in DOMAIN ss} = S
  BY <1>1, <1>2
<1>6. \A i \in DOMAIN ss : IsInjective(ss[i])
         /\ \A j \in DOMAIN ss : i # j => ToSet(ss[i]) \cap ToSet(ss[j]) = {}
  <2>1. ASSUME NEW i \in DOMAIN ss, NEW j \in DOMAIN ss, i # j
        PROVE  ToSet(ss[i]) \cap ToSet(ss[j]) = {}
    <3>1. ToSet(ss[i]) \subseteq {i} /\ ToSet(ss[j]) \subseteq {j}
      BY <1>1, <1>2
    <3> QED
      BY <2>1, <3>1
  <2>2. \A i \in DOMAIN ss : IsInjective(ss[i])
    BY <1>1, <1>2
  <2> QED
    BY <2>1, <2>2
<1> QED
  BY <1>2, <1>4, <1>5, <1>6

LEMMA NextIsNew ==
    ASSUME GraphTypeOK, FluentHolds, Building
    PROVE  /\ fluent /\ phase = "build"
           /\ NextId \in Vertices /\ NextId \notin vertices
           /\ \A v \in vertices : v \in Nat /\ v < NextId
           /\ vertices \cup {NextId} = 1 .. Cardinality(vertices \cup {NextId})
<1> DEFINE c == Cardinality(vertices)
<1>1. NumVertices \in Nat /\ vertices \in SUBSET (1 .. NumVertices)
  BY JobGraphAssumption DEF JobGraphAssumption, GraphTypeOK, Vertices
<1>2. IsFiniteSet(1 .. NumVertices)
  BY <1>1, FS_Interval
<1>3. IsFiniteSet(vertices)
  BY <1>1, <1>2, FS_Subset
<1>4. c \in Nat
  BY <1>3, FS_CardinalityType
<1>5. fluent /\ phase = "build" /\ NextId <= NumVertices /\ NextId = c + 1 /\ vertices = 1 .. c
  BY DEF Building, NextId, FluentHolds
<1> HIDE DEF c
<1>6. NextId \in Vertices /\ NextId \notin vertices /\ \A v \in vertices : v \in Nat /\ v < NextId
  BY <1>1, <1>4, <1>5 DEF Vertices
<1>7. Cardinality(vertices \cup {NextId}) = c + 1
  BY <1>3, <1>6, FS_AddElement DEF c
<1>8. vertices \cup {NextId} = 1 .. c + 1
  BY <1>4, <1>5
<1> QED
  BY <1>5, <1>6, <1>7, <1>8

LEMMA SourceAdded ==
    ASSUME GraphTypeOK, FluentHolds, AddSource
    PROVE  GraphTypeOK' /\ FluentHolds'
<1>1. /\ fluent /\ phase = "build"
      /\ NextId \in Vertices /\ NextId \notin vertices
      /\ \A v \in vertices : v \in Nat /\ v < NextId
      /\ vertices \cup {NextId} = 1 .. Cardinality(vertices \cup {NextId})
  BY NextIsNew DEF AddSource
<1>2. /\ vertices' = vertices \cup {NextId} /\ sources' = sources \cup {NextId}
      /\ UNCHANGED <<fluent, sinks, edges, phase, queue, result, chains>>
  BY DEF AddSource
<1>3. GraphTypeOK'
  <2>1. /\ fluent' \in BOOLEAN /\ phase' \in Phases
        /\ edges' \in Seq(JobEdge) /\ result' \in Seq(Vertices) /\ queue' \in Seq(Vertices)
        /\ chains' \in Seq(Seq(Vertices))
    BY <1>2 DEF GraphTypeOK
  <2> QED
    BY <1>1, <1>2, <2>1 DEF GraphTypeOK
<1>4. \A v : Incoming(v)' = Incoming(v)
  BY <1>2 DEF Incoming
<1>5. Incoming(NextId) = {}
  BY <1>1 DEF Incoming, GraphTypeOK
<1>6. \A v \in vertices' : IF v \in sources' THEN Incoming(v) = {} ELSE \E i : Incoming(v) = {i}
  BY <1>1, <1>2, <1>5 DEF FluentHolds
<1>7. vertices' = 1 .. Cardinality(vertices')
  BY <1>1, <1>2
<1>8. \A i \in DOMAIN edges' :
         edges'[i].source < edges'[i].target /\ edges'[i].source \notin sinks'
  BY <1>1, <1>2 DEF FluentHolds
<1> QED
  BY <1>3, <1>4, <1>6, <1>7, <1>8 DEF FluentHolds

LEMMA EdgeAdded ==
    ASSUME GraphTypeOK, FluentHolds, Building,
           NEW stream \in vertices \ sinks, NEW type \in EdgeType,
           vertices' = vertices \cup {NextId}, sinks' \subseteq sinks \cup {NextId},
           edges' = Append(edges, [source |-> stream, target |-> NextId, type |-> type]),
           UNCHANGED <<fluent, sources, phase, queue, result, chains>>
    PROVE  GraphTypeOK' /\ FluentHolds'
<1> DEFINE new == [source |-> stream, target |-> NextId, type |-> type]
           n == Len(edges) + 1
<1>1. /\ fluent /\ phase = "build"
      /\ NextId \in Vertices /\ NextId \notin vertices
      /\ \A v \in vertices : v \in Nat /\ v < NextId
      /\ vertices \cup {NextId} = 1 .. Cardinality(vertices \cup {NextId})
  BY NextIsNew
<1>2. new \in JobEdge /\ new.source = stream /\ new.target = NextId
  BY <1>1 DEF JobEdge, GraphTypeOK
<1>3. edges \in Seq(JobEdge) /\ edges' = Append(edges, new)
  BY DEF GraphTypeOK
<1> HIDE DEF new
<1>4. /\ edges' \in Seq(JobEdge)
      /\ DOMAIN edges' = DOMAIN edges \cup {n} /\ n \notin DOMAIN edges
      /\ edges'[n] = new /\ \A i \in DOMAIN edges : edges'[i] = edges[i]
  BY <1>2, <1>3
<1> HIDE DEF n
<1>5. \A i \in DOMAIN edges :
         edges[i].source \in vertices /\ edges[i].target \in vertices
  BY DEF GraphTypeOK
<1>6. GraphTypeOK'
  <2>1. \A i \in DOMAIN edges' :
           edges'[i].source \in vertices' /\ edges'[i].target \in vertices'
    BY <1>1, <1>2, <1>4, <1>5
  <2>2. /\ fluent' \in BOOLEAN /\ phase' \in Phases
        /\ result' \in Seq(Vertices) /\ queue' \in Seq(Vertices)
        /\ chains' \in Seq(Seq(Vertices))
        /\ vertices' \subseteq Vertices /\ sources' \subseteq vertices' /\ sinks' \subseteq vertices'
        /\ phase' = "build" => result' = << >>
        /\ phase' \in {"build", "sort"} => chains' = << >>
    BY <1>1 DEF GraphTypeOK
  <2> QED
    BY <1>4, <2>1, <2>2 DEF GraphTypeOK
<1>7. \A v \in vertices : Incoming(v)' = Incoming(v)
  BY <1>1, <1>2, <1>4 DEF Incoming
<1>8. ASSUME NEW v, v = NextId PROVE Incoming(v)' = {n} /\ v \notin sources
  <2>1. \A i \in DOMAIN edges' : edges'[i].target = v <=> i = n
    BY <1>1, <1>2, <1>4, <1>5, <1>8
  <2> QED
    BY <1>1, <1>4, <1>8, <2>1 DEF Incoming, GraphTypeOK
<1>9. ASSUME NEW v \in vertices'
      PROVE  IF v \in sources' THEN Incoming(v)' = {} ELSE \E i : Incoming(v)' = {i}
  <2>1. v \in vertices =>
           IF v \in sources THEN Incoming(v) = {} ELSE \E i : Incoming(v) = {i}
    BY <1>1 DEF FluentHolds
  <2>2. v \in vertices \/ v = NextId
    OBVIOUS
  <2>3. sources' = sources
    OBVIOUS
  <2> QED
    BY <1>7, <1>8, <2>1, <2>2, <2>3
<1>10. \A i \in DOMAIN edges' :
          edges'[i].source < edges'[i].target /\ edges'[i].source \notin sinks'
  <2>1. \A i \in DOMAIN edges : edges[i].source < edges[i].target /\ edges[i].source \notin sinks
    BY <1>1 DEF FluentHolds
  <2> QED
    BY <1>1, <1>2, <1>4, <1>5, <2>1
<1>11. fluent' /\ vertices' = 1 .. Cardinality(vertices')
  BY <1>1
<1> QED
  BY <1>6, <1>9, <1>10, <1>11 DEF FluentHolds

LEMMA BuildStep ==
    ASSUME GraphTypeOK, FluentHolds, BuildGraph, ~ BeginSort
    PROVE  GraphTypeOK' /\ FluentHolds' /\ phase' = "build" /\ chains' = chains
<1>1. ASSUME NEW stream \in vertices \ sinks, AddSink(stream)
      PROVE  GraphTypeOK' /\ FluentHolds'
  BY <1>1, EdgeAdded DEF AddSink, EdgeType
<1>2. ASSUME NEW stream \in vertices \ sinks, NEW type \in EdgeType, AddOperator(stream, type)
      PROVE  GraphTypeOK' /\ FluentHolds'
  BY <1>2, EdgeAdded DEF AddOperator
<1>3. phase' = "build" /\ chains' = chains
  BY DEF BuildGraph, AddSource, AddSink, AddOperator, Building
<1> QED
  BY <1>1, <1>2, <1>3, SourceAdded DEF BuildGraph
-----------------------------------------------------------------------------
(***************************************************************************)
(* The sort.                                                               *)
(***************************************************************************)

\* The edges of v that the sort has not taken off.
Remaining(v) == {i \in Incoming(v) : edges[i].source \notin ToSet(result)}

SortHolds ==
    phase = "sort" =>
        /\ in_degree = [v \in vertices |-> Cardinality(Remaining(v))]
        /\ ToSet(result) \cup ToSet(queue) = {v \in vertices : Remaining(v) = {}}
        /\ ToSet(result) \cap ToSet(queue) = {}
        /\ IsInjective(result) /\ IsInjective(queue)
        /\ \A i \in DOMAIN edges : edges[i].target \in ToSet(result) =>
              Before(result, edges[i].source, edges[i].target)

LEMMA EdgesAreFinite ==
    ASSUME GraphTypeOK, NEW S, S \subseteq DOMAIN edges
    PROVE  /\ IsFiniteSet(S) /\ Cardinality(S) \in Nat
           /\ Cardinality(S) = 0 <=> S = {}
<1>1. Len(edges) \in Nat /\ DOMAIN edges = 1 .. Len(edges) /\ S \in SUBSET (1 .. Len(edges))
  BY DEF GraphTypeOK
<1>2. IsFiniteSet(1 .. Len(edges))
  BY <1>1, FS_Interval
<1>3. IsFiniteSet(S)
  BY <1>1, <1>2, FS_Subset
<1> QED
  BY <1>3, FS_CardinalityType, FS_EmptySet

LEMMA VerticesAreFinite ==
    ASSUME GraphTypeOK
    PROVE  IsFiniteSet(vertices) /\ Cardinality(vertices) \in Nat
<1>1. NumVertices \in Nat /\ vertices \in SUBSET (1 .. NumVertices)
  BY JobGraphAssumption DEF JobGraphAssumption, GraphTypeOK, Vertices
<1>2. IsFiniteSet(1 .. NumVertices)
  BY <1>1, FS_Interval
<1>3. IsFiniteSet(vertices)
  BY <1>1, <1>2, FS_Subset
<1> QED
  BY <1>3, FS_CardinalityType

LEMMA SortBegins ==
    ASSUME GraphTypeOK, BeginSort
    PROVE  GraphTypeOK' /\ SortHolds'
<1> DEFINE free == {v \in vertices : in_degree'[v] = 0}
<1>1. /\ UNCHANGED <<fluent, vertices, sources, sinks, edges, result, chains>>
      /\ phase' = "sort" /\ result = << >> /\ chains = << >>
      /\ in_degree' = [v \in vertices |-> Cardinality(Incoming(v))]
      /\ queue' = InOrder(free, NumVertices)
  BY DEF BeginSort, GraphTypeOK, graph
<1>2. NumVertices \in Nat /\ free \subseteq 1 .. NumVertices /\ free \subseteq vertices
  BY JobGraphAssumption DEF JobGraphAssumption, GraphTypeOK, Vertices
<1>3. \A v \in vertices : v \in free <=> Incoming(v) = {}
  <2> SUFFICES ASSUME NEW v \in vertices PROVE Cardinality(Incoming(v)) = 0 <=> Incoming(v) = {}
    BY <1>1
  <2>1. Incoming(v) \subseteq DOMAIN edges
    BY DEF Incoming
  <2> QED
    BY <2>1, EdgesAreFinite
<1> HIDE DEF free
<1>4. queue' \in Seq(free) /\ ToSet(queue') = free /\ IsInjective(queue')
  BY <1>1, <1>2, InOrderHas
<1>5. queue' \in Seq(Vertices)
  <2>1. free \subseteq Vertices
    BY <1>2 DEF GraphTypeOK
  <2> QED
    BY <1>4, <2>1
<1>6. GraphTypeOK'
  <2>1. /\ fluent' \in BOOLEAN /\ phase' \in Phases
        /\ edges' \in Seq(JobEdge) /\ result' \in Seq(Vertices)
        /\ chains' \in Seq(Seq(Vertices))
        /\ vertices' \subseteq Vertices /\ sources' \subseteq vertices' /\ sinks' \subseteq vertices'
        /\ phase' # "build" /\ chains' = << >>
    BY <1>1 DEF GraphTypeOK, Phases
  <2>2. \A i \in DOMAIN edges' :
           edges'[i].source \in vertices' /\ edges'[i].target \in vertices'
    BY <1>1 DEF GraphTypeOK
  <2> QED
    BY <1>5, <2>1, <2>2 DEF GraphTypeOK
<1>7. ToSet(result') = {} /\ IsInjective(result')
  <2>1. DOMAIN result' = {}
    BY <1>1
  <2> QED
    BY <2>1 DEF ToSet, IsInjective
<1>8. \A v : Remaining(v)' = Incoming(v)
  BY <1>1, <1>7 DEF Remaining, Incoming
<1>9. ToSet(result') \cup ToSet(queue') = {v \in vertices' : Remaining(v)' = {}}
  BY <1>1, <1>2, <1>3, <1>4, <1>7, <1>8
<1>10. in_degree' = [v \in vertices' |-> Cardinality(Remaining(v)')]
  BY <1>1, <1>8
<1> QED
  BY <1>4, <1>6, <1>7, <1>9, <1>10 DEF SortHolds

\* The edges by which the queue grows when v is taken from it lead to the
\* vertices that lose their last open edge, one to each.
LEMMA FreeingIs ==
    ASSUME GraphTypeOK, phase = "sort", SortHolds, NEW v \in vertices, v \notin ToSet(result)
    PROVE  /\ Decremented(v) = [w \in vertices |-> Cardinality(Remaining(w) \ Outgoing(v))]
           /\ Freeing(v) \subseteq DOMAIN edges
           /\ \A i, j \in Freeing(v) : edges[i].target = edges[j].target => i = j
           /\ {edges[i].target : i \in Freeing(v)}
              = {w \in vertices : Remaining(w) # {} /\ Remaining(w) \ Outgoing(v) = {}}
<1> DEFINE Both(w) == Outgoing(v) \cap Incoming(w)
<1>1. /\ Len(edges) \in Nat /\ DOMAIN edges = 1 .. Len(edges)
      /\ \A i \in DOMAIN edges : edges[i].source \in vertices /\ edges[i].target \in vertices
  BY DEF GraphTypeOK
<1>2. \A w : Both(w) \subseteq Remaining(w) /\ Remaining(w) \subseteq DOMAIN edges
  BY DEF Remaining, Incoming, Outgoing
<1>3. \A w : Remaining(w) \cap Outgoing(v) = Both(w)
  BY DEF Remaining, Incoming, Outgoing
<1>4. ASSUME NEW w \in vertices
      PROVE  Decremented(v)[w] = Cardinality(Remaining(w) \ Outgoing(v))
  <2>1. Decremented(v)[w] = Cardinality(Remaining(w)) - Cardinality(Both(w))
    BY DEF Decremented, SortHolds
  <2>2. IsFiniteSet(Remaining(w))
    BY <1>2, EdgesAreFinite
  <2>3. Cardinality(Remaining(w) \ Outgoing(v))
        = Cardinality(Remaining(w)) - Cardinality(Remaining(w) \cap Outgoing(v))
    BY <2>2, FS_Difference
  <2> QED
    BY <1>3, <2>1, <2>3
<1>5. Decremented(v) = [w \in vertices |-> Cardinality(Remaining(w) \ Outgoing(v))]
  <2>1. Decremented(v) = [w \in vertices |-> Decremented(v)[w]]
    BY DEF Decremented
  <2> QED
    BY <1>4, <2>1
<1>6. \A w \in vertices : Decremented(v)[w] = 0 <=> Remaining(w) \ Outgoing(v) = {}
  <2> SUFFICES ASSUME NEW w \in vertices
               PROVE  Cardinality(Remaining(w) \ Outgoing(v)) = 0
                      <=> Remaining(w) \ Outgoing(v) = {}
    BY <1>4
  <2>1. Remaining(w) \ Outgoing(v) \subseteq DOMAIN edges
    BY <1>2
  <2> QED
    BY <2>1, EdgesAreFinite
<1>7. Freeing(v) \subseteq DOMAIN edges
  BY DEF Freeing, Outgoing
<1>8. ASSUME NEW i \in Freeing(v), NEW j \in Freeing(v), edges[i].target = edges[j].target
      PROVE  i = j
  <2>1. i \in Outgoing(v) /\ j \in Outgoing(v) /\ i <= j /\ j <= i
    BY <1>8 DEF Freeing
  <2>2. i \in Int /\ j \in Int
    BY <1>1, <1>7
  <2> QED
    BY <2>1, <2>2
<1>9. ASSUME NEW i \in Freeing(v)
      PROVE  /\ edges[i].target \in vertices
             /\ Remaining(edges[i].target) # {}
             /\ Remaining(edges[i].target) \ Outgoing(v) = {}
  <2>1. /\ i \in DOMAIN edges /\ i \in Outgoing(v) /\ edges[i].target \in vertices
        /\ Decremented(v)[edges[i].target] = 0
    BY <1>1, <1>7 DEF Freeing
  <2>2. i \in Both(edges[i].target)
    BY <2>1 DEF Incoming
  <2> QED
    BY <1>2, <1>6, <2>1, <2>2
<1>10. ASSUME NEW w \in vertices, Remaining(w) # {}, Remaining(w) \ Outgoing(v) = {}
       PROVE  \E i \in Freeing(v) : edges[i].target = w
  <2> DEFINE behind == {Len(edges) - i : i \in Both(w)}
  <2>1. Both(w) # {} /\ Both(w) \subseteq 1 .. Len(edges)
    BY <1>1, <1>2, <1>3, <1>10
  <2>2. behind # {} /\ behind \subseteq Nat
    BY <1>1, <2>1
  <2>3. PICK least \in behind : \A other \in behind : least <= other
    BY <2>2, SmallestExists
  <2>4. PICK i \in Both(w) : least = Len(edges) - i
    OBVIOUS
  <2>5. ASSUME NEW j \in Both(w) PROVE j <= i
    <3>1. Len(edges) - i <= Len(edges) - j
      BY <2>3, <2>4
    <3>2. i \in Int /\ j \in Int
      BY <2>1
    <3> QED
      BY <1>1, <3>1, <3>2
  <2> HIDE DEF behind
  <2>6. i \in Outgoing(v) /\ edges[i].target = w
    BY DEF Incoming
  <2>7. \A j \in Outgoing(v) : edges[j].target = w => j \in Both(w)
    BY DEF Incoming, Outgoing
  <2>8. Decremented(v)[w] = 0
    BY <1>6, <1>10
  <2> QED
    BY <2>5, <2>6, <2>7, <2>8 DEF Freeing
<1>11. {edges[i].target : i \in Freeing(v)}
       = {w \in vertices : Remaining(w) # {} /\ Remaining(w) \ Outgoing(v) = {}}
  BY <1>9, <1>10
<1> QED
  BY <1>5, <1>7, <1>8, <1>11

\* What is put in order and then mapped one to one has no repetitions.
ImagesInOrder(f, S, n) == [k \in DOMAIN InOrder(S, n) |-> f[InOrder(S, n)[k]]]

LEMMA MappedInOrder ==
    ASSUME NEW n \in Nat, NEW S, S \subseteq 1 .. n, NEW f, NEW T,
           \A i \in S : f[i] \in T,
           \A i, j \in S : f[i] = f[j] => i = j
    PROVE  /\ ImagesInOrder(f, S, n) \in Seq(T)
           /\ ToSet(ImagesInOrder(f, S, n)) = {f[i] : i \in S}
           /\ IsInjective(ImagesInOrder(f, S, n))
<1> DEFINE s == InOrder(S, n)
           seq == ImagesInOrder(f, S, n)
<1>1. s \in Seq(S) /\ ToSet(s) = S /\ IsInjective(s)
  BY InOrderHas
<1>2. seq = [k \in DOMAIN s |-> f[s[k]]]
  BY DEF ImagesInOrder
<1> HIDE DEF s, seq
<1>3. Len(s) \in Nat /\ DOMAIN s = 1 .. Len(s) /\ \A k \in DOMAIN s : s[k] \in S
  BY <1>1
<1>4. DOMAIN seq = DOMAIN s /\ \A k \in DOMAIN s : seq[k] = f[s[k]]
  BY <1>2
<1>5. seq \in Seq(T)
  <2>1. \A k \in 1 .. Len(s) : seq[k] \in T
    BY <1>3, <1>4
  <2>2. seq = [k \in 1 .. Len(s) |-> seq[k]]
    BY <1>2, <1>3
  <2> QED
    BY <1>3, <2>1, <2>2, IsASeq
<1>6. ASSUME NEW a \in DOMAIN seq, NEW b \in DOMAIN seq, seq[a] = seq[b] PROVE a = b
  <2>1. a \in DOMAIN s /\ b \in DOMAIN s
    BY <1>4
  <2>2. s[a] \in S /\ s[b] \in S /\ seq[a] = f[s[a]] /\ seq[b] = f[s[b]]
    BY <1>3, <1>4, <2>1
  <2>3. s[a] = s[b]
    BY <1>6, <2>2
  <2> QED
    BY <1>1, <2>1, <2>3 DEF IsInjective
<1>7. ToSet(seq) = {f[i] : i \in S}
  <2>1. ASSUME NEW k \in DOMAIN seq PROVE seq[k] \in {f[i] : i \in S}
    <3>1. k \in DOMAIN s
      BY <1>4
    <3>2. s[k] \in S /\ seq[k] = f[s[k]]
      BY <1>3, <1>4, <3>1
    <3> QED
      BY <3>2
  <2>2. ASSUME NEW i \in S PROVE f[i] \in ToSet(seq)
    <3>1. PICK k \in DOMAIN s : s[k] = i
      BY <1>1 DEF ToSet
    <3> QED
      BY <1>4, <3>1 DEF ToSet
  <2>3. ToSet(seq) \subseteq {f[i] : i \in S}
    BY <2>1 DEF ToSet
  <2> QED
    BY <2>2, <2>3
<1>8. IsInjective(seq)
  BY <1>6 DEF IsInjective
<1> QED
  BY <1>5, <1>7, <1>8 DEF seq

LEMMA SortStep ==
    ASSUME GraphTypeOK, SortHolds, SortVertex
    PROVE  GraphTypeOK' /\ SortHolds'
<1> DEFINE v == Head(queue)
           rest == Tail(queue)
           freeing == InOrder(Freeing(v), Len(edges))
           freed == [k \in DOMAIN freeing |-> edges[freeing[k]].target]
           lost == {w \in vertices : Remaining(w) # {} /\ Remaining(w) \ Outgoing(v) = {}}
<1>1. /\ phase = "sort" /\ phase' = "sort" /\ queue # << >> /\ chains = << >>
      /\ UNCHANGED <<fluent, vertices, sources, sinks, edges, chains>>
      /\ result' = Append(result, v) /\ in_degree' = Decremented(v)
      /\ queue' = rest \o freed
  BY DEF SortVertex, graph, GraphTypeOK
<1>2. /\ ToSet(result) \cup ToSet(queue) = {w \in vertices : Remaining(w) = {}}
      /\ ToSet(result) \cap ToSet(queue) = {}
      /\ IsInjective(result) /\ IsInjective(queue)
      /\ \A i \in DOMAIN edges : edges[i].target \in ToSet(result) =>
            Before(result, edges[i].source, edges[i].target)
  BY <1>1 DEF SortHolds
<1>3. /\ v \in Vertices /\ rest \in Seq(Vertices)
      /\ ToSet(queue) = {v} \cup ToSet(rest)
      /\ v \notin ToSet(rest) /\ IsInjective(rest)
  BY <1>1, <1>2, HeadTailElements DEF GraphTypeOK
<1>4. v \in vertices /\ v \notin ToSet(result) /\ Remaining(v) = {}
  BY <1>2, <1>3
<1> HIDE DEF v, rest
<1>5. /\ Decremented(v) = [w \in vertices |-> Cardinality(Remaining(w) \ Outgoing(v))]
      /\ Freeing(v) \subseteq DOMAIN edges
      /\ \A i, j \in Freeing(v) : edges[i].target = edges[j].target => i = j
      /\ {edges[i].target : i \in Freeing(v)} = lost
  BY <1>1, <1>4, FreeingIs
<1>6. freed \in Seq(Vertices) /\ ToSet(freed) = lost /\ IsInjective(freed)
  <2> DEFINE f == [i \in DOMAIN edges |-> edges[i].target]
  <2>1. Len(edges) \in Nat /\ DOMAIN edges = 1 .. Len(edges)
    BY DEF GraphTypeOK
  <2>2. \A i \in Freeing(v) : f[i] = edges[i].target /\ f[i] \in Vertices
    BY <1>5 DEF GraphTypeOK
  <2>3. \A i, j \in Freeing(v) : f[i] = f[j] => i = j
    BY <1>5, <2>2
  <2>4. freeing \in Seq(Freeing(v))
    BY <1>5, <2>1, InOrderHas
  <2>5. freed = ImagesInOrder(f, Freeing(v), Len(edges))
    <3>1. \A k \in DOMAIN freeing : edges[freeing[k]].target = f[freeing[k]]
      BY <2>2, <2>4
    <3> QED
      BY <3>1 DEF ImagesInOrder
  <2>6. {f[i] : i \in Freeing(v)} = lost
    BY <1>5, <2>2
  <2> HIDE DEF f, freed, lost
  <2>7. Freeing(v) \subseteq 1 .. Len(edges) /\ \A i \in Freeing(v) : f[i] \in Vertices
    BY <1>5, <2>1, <2>2
  <2>8. /\ ImagesInOrder(f, Freeing(v), Len(edges)) \in Seq(Vertices)
        /\ ToSet(ImagesInOrder(f, Freeing(v), Len(edges))) = {f[i] : i \in Freeing(v)}
        /\ IsInjective(ImagesInOrder(f, Freeing(v), Len(edges)))
    BY <2>1, <2>3, <2>7, MappedInOrder
  <2> QED
    BY <2>5, <2>6, <2>8
<1> HIDE DEF freed
<1>7. /\ result' \in Seq(Vertices) /\ ToSet(result') = ToSet(result) \cup {v}
      /\ IsInjective(result') /\ Len(result) \in Nat
      /\ DOMAIN result = 1 .. Len(result)
      /\ DOMAIN result' = DOMAIN result \cup {Len(result) + 1}
      /\ (\A i \in DOMAIN result : result'[i] = result[i])
      /\ result'[Len(result) + 1] = v
  <2>1. result \in Seq(Vertices)
    BY DEF GraphTypeOK
  <2>2. /\ result' \in Seq(Vertices) /\ Len(result) \in Nat
        /\ DOMAIN result = 1 .. Len(result)
        /\ DOMAIN result' = DOMAIN result \cup {Len(result) + 1}
        /\ (\A i \in DOMAIN result : result'[i] = result[i])
        /\ result'[Len(result) + 1] = v
    BY <1>1, <1>3, <2>1
  <2>3. /\ ToSet(Append(result, v)) = ToSet(result) \cup {v}
        /\ IsInjective(result) /\ v \notin ToSet(result) => IsInjective(Append(result, v))
    BY <1>3, <2>1, AppendElements
  <2> QED
    BY <1>1, <1>2, <1>4, <2>2, <2>3
<1>8. \A w : Remaining(w)' = Remaining(w) \ Outgoing(v)
  BY <1>1, <1>7 DEF Remaining, Incoming, Outgoing
<1>9. ToSet(queue') = ToSet(rest) \cup lost /\ queue' \in Seq(Vertices)
  <2>1. rest \in Seq(Vertices) /\ freed \in Seq(Vertices)
    BY <1>3, <1>6
  <2>2. rest \o freed \in Seq(Vertices) /\ ToSet(rest \o freed) = ToSet(rest) \cup ToSet(freed)
    BY <2>1, ConcatElements
  <2> QED
    BY <1>1, <1>6, <2>2
<1>10. lost \cap (ToSet(result) \cup ToSet(queue)) = {}
  BY <1>2
<1>11. IsInjective(queue')
  <2>1. ToSet(rest) \cap ToSet(freed) = {}
    BY <1>3, <1>6, <1>10
  <2> QED
    BY <1>1, <1>3, <1>6, <2>1, ConcatInjective
<1>12. ToSet(result') \cup ToSet(queue') = {w \in vertices' : Remaining(w)' = {}}
  <2>1. ToSet(result') \cup ToSet(queue') = {w \in vertices : Remaining(w) = {}} \cup lost
    BY <1>2, <1>3, <1>7, <1>9
  <2>2. {w \in vertices : Remaining(w) = {}} \cup lost
        = {w \in vertices : Remaining(w) \ Outgoing(v) = {}}
    OBVIOUS
  <2> QED
    BY <1>1, <1>8, <2>1, <2>2
<1>13. ToSet(result') \cap ToSet(queue') = {}
  BY <1>2, <1>3, <1>4, <1>7, <1>9
<1>14. in_degree' = [w \in vertices' |-> Cardinality(Remaining(w)')]
  <2>1. \A w \in vertices : Cardinality(Remaining(w) \ Outgoing(v)) = Cardinality(Remaining(w)')
    BY <1>8
  <2> QED
    BY <1>1, <1>5, <2>1
<1>15. ASSUME NEW i \in DOMAIN edges', edges'[i].target \in ToSet(result')
       PROVE  Before(result', edges'[i].source, edges'[i].target)
  <2>1. CASE edges[i].target \in ToSet(result)
    <3>1. PICK a, b \in DOMAIN result :
             a < b /\ result[a] = edges[i].source /\ result[b] = edges[i].target
      BY <1>1, <1>2, <2>1 DEF Before
    <3>2. a \in DOMAIN result' /\ b \in DOMAIN result'
          /\ result'[a] = edges[i].source /\ result'[b] = edges[i].target
      BY <1>7, <3>1
    <3> QED
      BY <1>1, <3>1, <3>2 DEF Before
  <2>2. CASE edges[i].target = v
    <3>1. edges[i].source \in ToSet(result)
      BY <1>1, <1>4, <2>2 DEF Remaining, Incoming
    <3>2. PICK a \in DOMAIN result : result[a] = edges[i].source
      BY <3>1 DEF ToSet
    <3>3. a < Len(result) + 1
      BY <1>7
    <3>4. a \in DOMAIN result' /\ Len(result) + 1 \in DOMAIN result'
          /\ result'[a] = edges[i].source /\ result'[Len(result) + 1] = edges[i].target
      BY <1>7, <2>2, <3>2
    <3> QED
      BY <1>1, <3>3, <3>4 DEF Before
  <2> QED
    BY <1>1, <1>7, <1>15, <2>1, <2>2
<1>16. GraphTypeOK'
  <2>1. /\ fluent' \in BOOLEAN /\ phase' \in Phases
        /\ edges' \in Seq(JobEdge)
        /\ chains' \in Seq(Seq(Vertices))
        /\ vertices' \subseteq Vertices /\ sources' \subseteq vertices' /\ sinks' \subseteq vertices'
        /\ phase' # "build" /\ chains' = << >>
    BY <1>1 DEF GraphTypeOK, Phases
  <2>2. \A i \in DOMAIN edges' :
           edges'[i].source \in vertices' /\ edges'[i].target \in vertices'
    BY <1>1 DEF GraphTypeOK
  <2> QED
    BY <1>7, <1>9, <2>1, <2>2 DEF GraphTypeOK
<1> QED
  BY <1>7, <1>11, <1>12, <1>13, <1>14, <1>15, <1>16 DEF SortHolds

LEMMA SortEnds ==
    ASSUME GraphTypeOK, SortHolds, Sorted
    PROVE  SortIsTopological'
<1>1. /\ phase = "sort" /\ queue = << >>
      /\ UNCHANGED <<vertices, edges, result>>
      /\ phase' = IF Incomplete THEN "raised" ELSE "chain"
  BY DEF Sorted, graph
<1>2. ToSet(queue) = {}
  <2>1. DOMAIN queue = {}
    BY <1>1
  <2> QED
    BY <2>1 DEF ToSet
<1>3. /\ ToSet(result) = {v \in vertices : Remaining(v) = {}}
      /\ IsInjective(result) /\ result \in Seq(Vertices)
      /\ \A i \in DOMAIN edges : edges[i].target \in ToSet(result) =>
            Before(result, edges[i].source, edges[i].target)
  BY <1>1, <1>2 DEF SortHolds, GraphTypeOK
<1>4. Cardinality(ToSet(result)) = Len(result)
  BY <1>3, InjectiveLength
<1>5. CASE Incomplete
  <2> DEFINE S == vertices \ ToSet(result)
  <2>1. ToSet(result) # vertices
    BY <1>4, <1>5 DEF Incomplete
  <2>2. S # {} /\ S \subseteq vertices
    BY <1>3, <2>1
  <2>3. ASSUME NEW v \in S PROVE \E i \in DOMAIN edges : edges[i].source \in S /\ edges[i].target = v
    <3>1. PICK i \in Incoming(v) : edges[i].source \notin ToSet(result)
      BY <1>3 DEF Remaining
    <3>2. i \in DOMAIN edges /\ edges[i].target = v
      BY DEF Incoming
    <3> QED
      BY <3>1, <3>2 DEF GraphTypeOK
  <2>4. \E T \in SUBSET vertices : T # {} /\
           \A v \in T : \E i \in DOMAIN edges : edges[i].source \in T /\ edges[i].target = v
    BY <2>2, <2>3
  <2>5. Cyclic'
    BY <1>1, <2>4 DEF Cyclic
  <2> QED
    BY <1>1, <1>5, <2>5 DEF SortIsTopological
<1>6. CASE ~Incomplete
  <2>1. IsFiniteSet(vertices) /\ ToSet(result) \in SUBSET vertices
    BY <1>3, VerticesAreFinite
  <2>2. Cardinality(vertices) = Cardinality(ToSet(result))
    BY <1>4, <1>6 DEF Incomplete
  <2>3. ToSet(result) = vertices
    BY <2>1, <2>2, FS_Subset
  <2>4. \A i \in DOMAIN edges : Before(result, edges[i].source, edges[i].target)
    BY <1>3, <2>3 DEF GraphTypeOK
  <2>5. phase' = "chain" /\ \A v, w : Before(result, v, w)' = Before(result, v, w)
    BY <1>1, <1>6 DEF Before
  <2> QED
    BY <1>1, <1>3, <2>3, <2>4, <2>5 DEF SortIsTopological
<1> QED
  BY <1>5, <1>6
-----------------------------------------------------------------------------
(***************************************************************************)
(* The chains.                                                             *)
(***************************************************************************)

ChainsApart ==
    \A c \in DOMAIN chains :
        /\ chains[c] # << >>
        /\ ToSet(chains[c]) \subseteq vertices
        /\ IsInjective(chains[c])
        /\ \A d \in DOMAIN chains : c # d => ToSet(chains[c]) \cap ToSet(chains[d]) = {}

LinksAreChainable ==
    \A c \in DOMAIN chains : \A k \in 1 .. Len(chains[c]) - 1 : \E i \in DOMAIN edges :
        Chainable(i) /\ edges[i].source = chains[c][k] /\ edges[i].target = chains[c][k + 1]

\* A chain starts where none could go on, and reads from those before it.
HeadsAreNot ==
    \A c \in DOMAIN chains : \A i \in Incoming(chains[c][1]) :
        ~Chainable(i) /\ \E b \in 1 .. c - 1 : edges[i].source \in ToSet(chains[b])

Consecutive(v, w) ==
    \E c \in DOMAIN chains : \E k \in 1 .. Len(chains[c]) - 1 :
        chains[c][k] = v /\ chains[c][k + 1] = w

\* But for the vertex at which a chain is growing.
ChainableAreLinked ==
    \A i \in DOMAIN edges :
        Chainable(i) /\ edges[i].source \in visited /\ (phase = "extend" => edges[i].source # current)
        => Consecutive(edges[i].source, edges[i].target)

ChainsHold ==
    /\ ChainsApart
    /\ LinksAreChainable
    /\ HeadsAreNot
    /\ ChainableAreLinked
    /\ phase = "extend" => chains # << >>
    /\ phase = "chained" => Unvisited = {}

LEMMA NoChains ==
    ASSUME chains' = << >>, phase' \notin {"extend", "chained"}
    PROVE  ChainsHold'
<1>1. DOMAIN chains' = {}
  OBVIOUS
<1>2. visited' = {}
  BY <1>1 DEF visited
<1> QED
  BY <1>1, <1>2 DEF ChainsHold, ChainsApart, LinksAreChainable, HeadsAreNot, ChainableAreLinked

LEMMA ChainingKeepsTheSort ==
    ASSUME GraphTypeOK, SortIsTopological, phase \in {"chain", "extend"},
           phase' \in {"chain", "extend", "chained"},
           UNCHANGED <<graph, in_degree, queue, result>>, chains' \in Seq(Seq(Vertices))
    PROVE  GraphTypeOK' /\ SortHolds' /\ SortIsTopological'
<1>1. UNCHANGED <<fluent, vertices, sources, sinks, edges, queue, result>>
  BY DEF graph
<1>2. GraphTypeOK'
  BY <1>1 DEF GraphTypeOK, Phases
<1>3. SortHolds'
  BY DEF SortHolds
<1>4. \A v, w : Before(result, v, w)' = Before(result, v, w)
  BY <1>1 DEF Before
<1>5. SortIsTopological'
  BY <1>1, <1>4 DEF SortIsTopological
<1> QED
  BY <1>2, <1>3, <1>5

\* The sort is accepted: what the chains are grown on.
LEMMA SortedFacts ==
    ASSUME SortIsTopological, phase \in {"chain", "extend", "chained"}
    PROVE  /\ IsInjective(result) /\ ToSet(result) = vertices
           /\ \A i \in DOMAIN edges : Before(result, edges[i].source, edges[i].target)
  BY DEF SortIsTopological

LEMMA StartStep ==
    ASSUME GraphTypeOK, SortIsTopological, ChainsHold, StartChain
    PROVE  chains' \in Seq(Seq(Vertices)) /\ ChainsHold'
<1> DEFINE m == Min(Unvisited)
           v == result[m]
           n == Len(chains) + 1
<1>1. /\ phase = "chain" /\ phase' = "extend" /\ Unvisited # {}
      /\ chains' = Append(chains, <<v>>)
      /\ UNCHANGED <<vertices, edges, result>>
  BY DEF StartChain, graph
<1>2. /\ result \in Seq(Vertices) /\ chains \in Seq(Seq(Vertices))
      /\ Len(result) \in Nat /\ DOMAIN result = 1 .. Len(result)
  BY DEF GraphTypeOK
<1>3. /\ IsInjective(result) /\ ToSet(result) = vertices
      /\ \A i \in DOMAIN edges : Before(result, edges[i].source, edges[i].target)
  BY <1>1, SortedFacts
<1>4. m \in Unvisited /\ \A a \in Unvisited : m <= a
  <2>1. Unvisited \subseteq Nat
    BY <1>2 DEF Unvisited
  <2>2. \E a \in Unvisited : \A b \in Unvisited : a <= b
    BY <1>1, <2>1, SmallestExists
  <2> QED
    BY <2>2 DEF Min
<1> HIDE DEF m
<1>5. m \in DOMAIN result /\ v \in Vertices /\ v \in vertices /\ v \notin visited
  BY <1>2, <1>3, <1>4 DEF Unvisited, ToSet
<1> HIDE DEF v
<1>6. /\ chains' \in Seq(Seq(Vertices)) /\ n \in Nat
      /\ DOMAIN chains = 1 .. n - 1 /\ DOMAIN chains' = DOMAIN chains \cup {n}
      /\ n \notin DOMAIN chains /\ Len(chains') = n
      /\ (\A c \in DOMAIN chains : chains'[c] = chains[c])
      /\ chains'[n] = <<v>>
  <2>1. <<v>> \in Seq(Vertices)
    BY <1>5
  <2> QED
    BY <1>1, <1>2, <2>1
<1> HIDE DEF n
<1>7. /\ Len(<<v>>) = 1 /\ <<v>>[1] = v /\ <<v>> # << >>
      /\ ToSet(<<v>>) = {v} /\ IsInjective(<<v>>)
  <2>1. DOMAIN <<v>> = {1} /\ <<v>>[1] = v /\ Len(<<v>>) = 1 /\ <<v>> # << >>
    OBVIOUS
  <2> QED
    BY <2>1 DEF ToSet, IsInjective
<1>8. /\ visited' = visited \cup {v} /\ current' = v
      /\ \A c \in DOMAIN chains : v \notin ToSet(chains[c])
  <2>1. \A w : w \in visited <=> \E c \in DOMAIN chains : w \in ToSet(chains[c])
    BY DEF visited
  <2>2. \A w : w \in visited' <=> \E c \in DOMAIN chains' : w \in ToSet(chains'[c])
    BY DEF visited
  <2>3. visited' = visited \cup {v}
    BY <1>6, <1>7, <2>1, <2>2
  <2>4. current' = v
    BY <1>6, <1>7 DEF current, Last
  <2> QED
    BY <1>5, <2>1, <2>3, <2>4
<1>9. \A i : Chainable(i)' = Chainable(i)
  BY <1>1 DEF Chainable, Outgoing, Incoming
<1>10. ChainsApart'
  <2>1. ASSUME NEW c \in DOMAIN chains'
        PROVE  /\ chains'[c] # << >> /\ ToSet(chains'[c]) \subseteq vertices'
               /\ IsInjective(chains'[c])
    BY <1>1, <1>5, <1>6, <1>7 DEF ChainsHold, ChainsApart
  <2>2. ASSUME NEW c \in DOMAIN chains', NEW d \in DOMAIN chains', c # d
        PROVE  ToSet(chains'[c]) \cap ToSet(chains'[d]) = {}
    <3>1. CASE c \in DOMAIN chains /\ d \in DOMAIN chains
      BY <1>6, <2>2, <3>1 DEF ChainsHold, ChainsApart
    <3>2. CASE c = n /\ d \in DOMAIN chains
      BY <1>6, <1>7, <1>8, <3>2
    <3>3. CASE c \in DOMAIN chains /\ d = n
      BY <1>6, <1>7, <1>8, <3>3
    <3> QED
      BY <1>6, <2>2, <3>1, <3>2, <3>3
  <2> QED
    BY <2>1, <2>2 DEF ChainsApart
<1>11. LinksAreChainable'
  <2> SUFFICES ASSUME NEW c \in DOMAIN chains', NEW k \in 1 .. Len(chains'[c]) - 1
               PROVE  \E i \in DOMAIN edges' : /\ Chainable(i)'
                                               /\ edges'[i].source = chains'[c][k]
                                               /\ edges'[i].target = chains'[c][k + 1]
    BY DEF LinksAreChainable
  <2>1. c \in DOMAIN chains /\ chains'[c] = chains[c]
    BY <1>6, <1>7
  <2> QED
    BY <1>1, <1>9, <2>1 DEF ChainsHold, LinksAreChainable
<1>12. HeadsAreNot'
  <2> SUFFICES ASSUME NEW c \in DOMAIN chains', NEW i \in Incoming(chains'[c][1])
               PROVE  /\ ~Chainable(i)
                      /\ \E b \in 1 .. c - 1 : edges[i].source \in ToSet(chains'[b])
    BY <1>1, <1>9 DEF HeadsAreNot, Incoming
  <2>1. CASE c \in DOMAIN chains
    <3>1. ~Chainable(i) /\ \E b \in 1 .. c - 1 : edges[i].source \in ToSet(chains[b])
      BY <1>6, <2>1 DEF ChainsHold, HeadsAreNot
    <3>2. 1 .. c - 1 \subseteq DOMAIN chains
      BY <1>6, <2>1
    <3> QED
      BY <1>6, <3>1, <3>2
  <2>2. CASE c = n
    <3>1. i \in DOMAIN edges /\ edges[i].target = v
      BY <1>6, <1>7, <2>2 DEF Incoming
    <3>2. PICK a, b \in DOMAIN result :
             a < b /\ result[a] = edges[i].source /\ result[b] = v
      BY <1>3, <3>1 DEF Before
    <3>3. b = m
      BY <1>3, <1>5, <3>2 DEF IsInjective, v
    <3>4. ~(m <= a)
      BY <1>2, <1>5, <3>2, <3>3
    <3>5. edges[i].source \in visited
      BY <1>4, <3>2, <3>4 DEF Unvisited
    <3>6. \E b_1 \in 1 .. c - 1 : edges[i].source \in ToSet(chains'[b_1])
      <4>1. PICK d \in DOMAIN chains : edges[i].source \in ToSet(chains[d])
        BY <3>5 DEF visited
      <4> QED
        BY <1>6, <2>2, <4>1
    <3>7. ASSUME Chainable(i) PROVE FALSE
      <4>1. Consecutive(edges[i].source, v)
        BY <1>1, <3>1, <3>5, <3>7 DEF ChainsHold, ChainableAreLinked
      <4>2. PICK d \in DOMAIN chains : \E k \in 1 .. Len(chains[d]) - 1 :
               chains[d][k] = edges[i].source /\ chains[d][k + 1] = v
        BY <4>1 DEF Consecutive
      <4>3. PICK k \in 1 .. Len(chains[d]) - 1 : chains[d][k + 1] = v
        BY <4>2
      <4>4. chains[d] \in Seq(Vertices)
        BY <1>2
      <4>5. k + 1 \in DOMAIN chains[d]
        BY <4>3, <4>4
      <4> QED
        BY <1>8, <4>3, <4>5 DEF ToSet
    <3> QED
      BY <3>6, <3>7
  <2> QED
    BY <1>6, <2>1, <2>2
<1>13. ChainableAreLinked'
  <2> SUFFICES ASSUME NEW i \in DOMAIN edges, Chainable(i), edges[i].source \in visited',
                      edges[i].source # v
               PROVE  Consecutive(edges[i].source, edges[i].target)'
    BY <1>1, <1>8, <1>9 DEF ChainableAreLinked
  <2>1. edges[i].source \in visited
    BY <1>8
  <2>2. Consecutive(edges[i].source, edges[i].target)
    BY <1>1, <2>1 DEF ChainsHold, ChainableAreLinked
  <2>3. PICK c \in DOMAIN chains : \E k \in 1 .. Len(chains[c]) - 1 :
           chains[c][k] = edges[i].source /\ chains[c][k + 1] = edges[i].target
    BY <2>2 DEF Consecutive
  <2>4. c \in DOMAIN chains' /\ chains'[c] = chains[c]
    BY <1>6
  <2> QED
    BY <1>1, <2>3, <2>4 DEF Consecutive
<1>14. chains' # << >>
  BY <1>6
<1> QED
  BY <1>1, <1>6, <1>10, <1>11, <1>12, <1>13, <1>14 DEF ChainsHold

LEMMA ExtendStep ==
    ASSUME GraphTypeOK, SortIsTopological, ChainsHold, ExtendChain
    PROVE  chains' \in Seq(Seq(Vertices)) /\ ChainsHold'
<1> DEFINE n == Len(chains)
           u == current
           last == chains[n]
           m == Len(last)
<1>1. PICK e \in Outgoing(u) :
         /\ Chainable(e)
         /\ chains' = [chains EXCEPT ![n] = Append(@, edges[e].target)]
  BY DEF ExtendChain
<1>2. /\ phase = "extend" /\ phase' = "extend" /\ chains # << >>
      /\ UNCHANGED <<vertices, edges, result>>
  BY DEF ExtendChain, graph, ChainsHold
<1> DEFINE w == edges[e].target
<1>3. /\ e \in DOMAIN edges /\ edges[e].source = u
      /\ w \in Vertices /\ w \in vertices
      /\ Outgoing(u) = {e} /\ Incoming(w) = {e}
  BY <1>1 DEF GraphTypeOK, Outgoing, Chainable
<1>4. /\ chains \in Seq(Seq(Vertices)) /\ n \in Nat \ {0} /\ DOMAIN chains = 1 .. n
      /\ n \in DOMAIN chains
      /\ \A c \in DOMAIN chains : chains[c] \in Seq(Vertices)
  BY <1>2 DEF GraphTypeOK
<1>5. /\ last \in Seq(Vertices) /\ last # << >> /\ m \in Nat \ {0} /\ DOMAIN last = 1 .. m
      /\ m \in DOMAIN last /\ 1 \in DOMAIN last
      /\ u = last[m]
  <2>1. last \in Seq(Vertices) /\ last # << >>
    BY <1>4 DEF ChainsHold, ChainsApart
  <2>2. u = last[m]
    BY DEF current, Last
  <2> QED
    BY <2>1, <2>2
<1> HIDE DEF u, w
<1>6. /\ Append(last, w) \in Seq(Vertices) /\ Len(Append(last, w)) = m + 1
      /\ m + 1 \notin DOMAIN last
      /\ (\A k \in 1 .. m : Append(last, w)[k] = last[k]) /\ Append(last, w)[m + 1] = w
      /\ Append(last, w) # << >>
  BY <1>3, <1>5
<1>7. /\ chains' \in Seq(Seq(Vertices)) /\ DOMAIN chains' = DOMAIN chains /\ Len(chains') = n
      /\ (\A c \in DOMAIN chains : c # n => chains'[c] = chains[c])
      /\ chains'[n] = Append(last, w)
  BY <1>1, <1>4, <1>6 DEF w
<1>8. /\ IsInjective(last) /\ ToSet(last) \subseteq vertices
      /\ \A c \in DOMAIN chains : c # n => ToSet(chains[c]) \cap ToSet(last) = {}
  BY <1>4 DEF ChainsHold, ChainsApart
<1>9. \A c \in DOMAIN chains : w \notin ToSet(chains[c])
  <2> SUFFICES ASSUME NEW c \in DOMAIN chains, NEW k \in DOMAIN chains[c], chains[c][k] = w
               PROVE  FALSE
    BY DEF ToSet
  <2>1. chains[c] \in Seq(Vertices) /\ DOMAIN chains[c] = 1 .. Len(chains[c]) /\ Len(chains[c]) \in Nat
    BY <1>4
  <2>2. CASE k = 1
    <3>1. e \in Incoming(chains[c][1])
      BY <1>3, <2>2
    <3> QED
      BY <1>1, <3>1 DEF ChainsHold, HeadsAreNot
  <2>3. CASE k # 1
    <3>1. k - 1 \in 1 .. Len(chains[c]) - 1 /\ k - 1 \in DOMAIN chains[c] /\ (k - 1) + 1 = k
      BY <2>1, <2>3
    <3>2. PICK j \in DOMAIN edges : edges[j].source = chains[c][k - 1] /\ edges[j].target = w
      BY <3>1 DEF ChainsHold, LinksAreChainable
    <3>3. j = e
      BY <1>3, <3>2 DEF Incoming
    <3>4. chains[c][k - 1] = u
      BY <1>3, <3>2, <3>3
    <3>5. u \in ToSet(chains[c]) /\ u \in ToSet(last)
      BY <1>5, <3>1, <3>4 DEF ToSet
    <3>6. c = n
      BY <1>8, <3>5
    <3>7. k - 1 = m
      BY <1>5, <1>8, <3>1, <3>4, <3>6 DEF IsInjective
    <3> QED
      BY <1>5, <2>1, <3>6, <3>7
  <2> QED
    BY <2>2, <2>3
<1>10. /\ ToSet(chains'[n]) = ToSet(last) \cup {w} /\ IsInjective(chains'[n])
  <2>1. w \notin ToSet(last)
    BY <1>4, <1>9
  <2>2. /\ ToSet(Append(last, w)) = ToSet(last) \cup {w}
        /\ IsInjective(last) /\ w \notin ToSet(last) => IsInjective(Append(last, w))
    BY <1>3, <1>5, AppendElements
  <2> QED
    BY <1>7, <1>8, <2>1, <2>2
<1>11. /\ visited' = visited \cup {w} /\ current' = w
  <2>1. \A x : x \in visited <=> \E c \in DOMAIN chains : x \in ToSet(chains[c])
    BY DEF visited
  <2>2. \A x : x \in visited' <=> \E c \in DOMAIN chains' : x \in ToSet(chains'[c])
    BY DEF visited
  <2>3. \A c \in DOMAIN chains : c = n \/ chains'[c] = chains[c]
    BY <1>7
  <2> HIDE DEF last
  <2>4. visited' = visited \cup {w}
    BY <1>4, <1>7, <1>10, <2>1, <2>2, <2>3 DEF last
  <2>5. current' = w
    BY <1>6, <1>7 DEF current, Last
  <2> QED
    BY <2>4, <2>5
<1>12. \A i : Chainable(i)' = Chainable(i)
  BY <1>2 DEF Chainable, Outgoing, Incoming
<1>13. ChainsApart'
  <2>1. ASSUME NEW c \in DOMAIN chains'
        PROVE  /\ chains'[c] # << >> /\ ToSet(chains'[c]) \subseteq vertices'
               /\ IsInjective(chains'[c])
    <3>1. CASE c = n
      BY <1>2, <1>3, <1>6, <1>7, <1>8, <1>10, <3>1
    <3>2. CASE c # n
      BY <1>2, <1>7, <3>2 DEF ChainsHold, ChainsApart
    <3> QED
      BY <3>1, <3>2
  <2>2. ASSUME NEW c \in DOMAIN chains', NEW d \in DOMAIN chains', c # d
        PROVE  ToSet(chains'[c]) \cap ToSet(chains'[d]) = {}
    <3>1. CASE c # n /\ d # n
      BY <1>7, <2>2, <3>1 DEF ChainsHold, ChainsApart
    <3>2. CASE c = n
      BY <1>7, <1>8, <1>9, <1>10, <2>2, <3>2
    <3>3. CASE d = n
      BY <1>7, <1>8, <1>9, <1>10, <2>2, <3>3
    <3> QED
      BY <3>1, <3>2, <3>3
  <2> QED
    BY <2>1, <2>2 DEF ChainsApart
<1>14. LinksAreChainable'
  <2> SUFFICES ASSUME NEW c \in DOMAIN chains', NEW k \in 1 .. Len(chains'[c]) - 1
               PROVE  \E i \in DOMAIN edges : /\ Chainable(i)
                                              /\ edges[i].source = chains'[c][k]
                                              /\ edges[i].target = chains'[c][k + 1]
    BY <1>2, <1>12 DEF LinksAreChainable
  <2>1. CASE c # n
    <3>1. c \in DOMAIN chains /\ chains'[c] = chains[c]
      BY <1>7, <2>1
    <3>2. k \in 1 .. Len(chains[c]) - 1
      BY <3>1
    <3>3. \E i \in DOMAIN edges : /\ Chainable(i)
                                  /\ edges[i].source = chains[c][k]
                                  /\ edges[i].target = chains[c][k + 1]
      BY <3>1, <3>2 DEF ChainsHold, LinksAreChainable
    <3> QED
      BY <3>1, <3>3
  <2>2. CASE c = n /\ k = m
    BY <1>1, <1>3, <1>5, <1>6, <1>7, <2>2
  <2>3. CASE c = n /\ k # m
    <3>1. k \in 1 .. m - 1 /\ k \in 1 .. m /\ k + 1 \in 1 .. m
      <4>1. k \in 1 .. (m + 1) - 1 /\ k # m /\ m \in Nat
        BY <1>5, <1>6, <1>7, <2>3
      <4> HIDE DEF m
      <4> QED
        BY <4>1
    <3>2. chains'[c][k] = chains[c][k] /\ chains'[c][k + 1] = chains[c][k + 1]
      BY <1>6, <1>7, <2>3, <3>1
    <3>3. c \in DOMAIN chains /\ k \in 1 .. Len(chains[c]) - 1
      BY <1>7, <2>3, <3>1
    <3>4. \E i \in DOMAIN edges : /\ Chainable(i)
                                  /\ edges[i].source = chains[c][k]
                                  /\ edges[i].target = chains[c][k + 1]
      BY <3>3 DEF ChainsHold, LinksAreChainable
    <3> QED
      BY <3>2, <3>4
  <2> QED
    BY <2>1, <2>2, <2>3
<1>15. HeadsAreNot'
  <2> SUFFICES ASSUME NEW c \in DOMAIN chains', NEW i \in Incoming(chains'[c][1])
               PROVE  /\ ~Chainable(i)
                      /\ \E b \in 1 .. c - 1 : edges[i].source \in ToSet(chains'[b])
    BY <1>2, <1>12 DEF HeadsAreNot, Incoming
  <2>1. chains'[c][1] = chains[c][1]
    BY <1>5, <1>6, <1>7
  <2>2. ~Chainable(i) /\ \E b \in 1 .. c - 1 : edges[i].source \in ToSet(chains[b])
    BY <1>7, <2>1 DEF ChainsHold, HeadsAreNot
  <2>3. \A b \in 1 .. c - 1 : b \in DOMAIN chains /\ b # n
    BY <1>4, <1>7
  <2> QED
    BY <1>7, <2>2, <2>3
<1>16. ChainableAreLinked'
  <2> SUFFICES ASSUME NEW i \in DOMAIN edges, Chainable(i), edges[i].source \in visited',
                      edges[i].source # w
               PROVE  \E c \in DOMAIN chains' : \E k \in 1 .. Len(chains'[c]) - 1 :
                         chains'[c][k] = edges[i].source /\ chains'[c][k + 1] = edges[i].target
    BY <1>2, <1>11, <1>12 DEF ChainableAreLinked, Consecutive
  <2>1. edges[i].source \in visited
    BY <1>11
  <2>2. CASE edges[i].source = u
    <3>1. i = e
      BY <1>3, <2>2 DEF Outgoing
    <3>2. n \in DOMAIN chains' /\ m \in 1 .. Len(chains'[n]) - 1
      BY <1>4, <1>5, <1>6, <1>7
    <3>3. chains'[n][m] = edges[i].source /\ chains'[n][m + 1] = edges[i].target
      BY <1>5, <1>6, <1>7, <2>2, <3>1 DEF w
    <3> QED
      BY <3>2, <3>3
  <2>3. CASE edges[i].source # u
    <3>1. Consecutive(edges[i].source, edges[i].target)
      BY <1>2, <2>1, <2>3 DEF ChainsHold, ChainableAreLinked, u
    <3>2. PICK c \in DOMAIN chains : \E k \in 1 .. Len(chains[c]) - 1 :
             chains[c][k] = edges[i].source /\ chains[c][k + 1] = edges[i].target
      BY <3>1 DEF Consecutive
    <3>3. PICK k \in 1 .. Len(chains[c]) - 1 :
             chains[c][k] = edges[i].source /\ chains[c][k + 1] = edges[i].target
      BY <3>2
    <3>4. /\ k \in 1 .. Len(chains'[c]) - 1
          /\ chains'[c][k] = chains[c][k] /\ chains'[c][k + 1] = chains[c][k + 1]
      <4>1. CASE c = n
        <5>1. k \in 1 .. m /\ k + 1 \in 1 .. m /\ k \in 1 .. (m + 1) - 1
          BY <1>5, <3>3, <4>1
        <5> QED
          BY <1>6, <1>7, <4>1, <5>1
      <4>2. CASE c # n
        BY <1>7, <3>3, <4>2
      <4> QED
        BY <4>1, <4>2
    <3>5. c \in DOMAIN chains'
      BY <1>7
    <3> QED
      BY <3>3, <3>4, <3>5
  <2> QED
    BY <2>2, <2>3
<1>17. chains' # << >>
  BY <1>4, <1>7
<1> QED
  BY <1>2, <1>7, <1>13, <1>14, <1>15, <1>16, <1>17 DEF ChainsHold

LEMMA EndStep ==
    ASSUME ChainsHold, EndChain \/ Chained
    PROVE  ChainsHold'
<1>1. /\ UNCHANGED <<vertices, edges, result, chains>>
      /\ phase' = "chained" => Unvisited = {}
      /\ phase' \in {"chain", "chained"}
  BY DEF EndChain, Chained, graph
<1>2. /\ \A i : Chainable(i)' = Chainable(i)
      /\ visited' = visited /\ Unvisited' = Unvisited
      /\ \A v, w : Consecutive(v, w)' = Consecutive(v, w)
      /\ \A v : Incoming(v)' = Incoming(v)
  BY <1>1 DEF Chainable, Outgoing, Incoming, visited, Unvisited, Consecutive
<1>3. ChainsApart'
  BY <1>1 DEF ChainsHold, ChainsApart
<1>4. LinksAreChainable'
  BY <1>1, <1>2 DEF ChainsHold, LinksAreChainable
<1>5. HeadsAreNot'
  BY <1>1, <1>2 DEF ChainsHold, HeadsAreNot
<1>6. ASSUME NEW i \in DOMAIN edges, Chainable(i), edges[i].source \in visited
      PROVE  Consecutive(edges[i].source, edges[i].target)
  <2>1. CASE phase = "extend" /\ edges[i].source = current
    <3>1. EndChain
      BY <2>1 DEF Chained
    <3>2. i \in Outgoing(current)
      BY <2>1 DEF Outgoing
    <3> QED
      BY <1>6, <3>1, <3>2 DEF EndChain
  <2> QED
    BY <1>6, <2>1 DEF ChainsHold, ChainableAreLinked
<1>7. ChainableAreLinked'
  BY <1>1, <1>2, <1>6 DEF ChainableAreLinked
<1> QED
  BY <1>1, <1>2, <1>3, <1>4, <1>5, <1>7 DEF ChainsHold
-----------------------------------------------------------------------------
(***************************************************************************)
(* The invariant of the graph, its sort and its chains.                    *)
(***************************************************************************)

GraphInvariant ==
    /\ GraphTypeOK
    /\ FluentHolds
    /\ SortHolds
    /\ SortIsTopological
    /\ ChainsHold

LEMMA GraphStarts ==
    ASSUME GraphInit
    PROVE  GraphInvariant
<1>1. /\ fluent \in BOOLEAN /\ vertices = IF fluent THEN {} ELSE Vertices
      /\ sources = {} /\ sinks = {} /\ edges \in IF fluent THEN {<< >>} ELSE Graphs
      /\ phase = "build" /\ queue = << >> /\ result = << >> /\ chains = << >>
  BY DEF GraphInit
<1>2. ASSUME ~fluent PROVE edges \in Seq(JobEdge)
  <2>1. PICK n \in 0 .. MaxEdges : edges \in [1 .. n -> JobEdge]
    BY <1>1, <1>2 DEF Graphs
  <2>2. n \in Nat
    BY <2>1, JobGraphAssumption DEF JobGraphAssumption
  <2> QED
    BY <2>1, <2>2
<1>3. edges \in Seq(JobEdge)
  <2>1. CASE fluent
    BY <1>1, <2>1
  <2> QED
    BY <1>2, <2>1
<1>4. \A i \in DOMAIN edges : edges[i].source \in vertices /\ edges[i].target \in vertices
  <2>1. CASE fluent
    BY <1>1, <2>1
  <2>2. CASE ~fluent
    <3>1. \A i \in DOMAIN edges : edges[i] \in JobEdge
      BY <1>3
    <3>2. vertices = Vertices
      BY <1>1, <2>2
    <3> QED
      BY <3>1, <3>2 DEF JobEdge
  <2> QED
    BY <2>1, <2>2
<1>5. GraphTypeOK
  <2>1. queue \in Seq(Vertices) /\ result \in Seq(Vertices) /\ chains \in Seq(Seq(Vertices))
    BY <1>1
  <2>2. phase \in Phases /\ vertices \subseteq Vertices
    BY <1>1 DEF Phases
  <2> QED
    BY <1>1, <1>3, <1>4, <2>1, <2>2 DEF GraphTypeOK
<1>6. FluentHolds
  <2> SUFFICES ASSUME fluent
               PROVE  vertices = 1 .. Cardinality(vertices) /\ DOMAIN edges = {} /\ vertices = {}
    BY DEF FluentHolds
  <2>1. vertices = {} /\ edges = << >>
    BY <1>1
  <2>2. Cardinality({}) = 0
    BY FS_EmptySet
  <2> QED
    BY <2>1, <2>2
<1>7. SortHolds /\ SortIsTopological
  BY <1>1 DEF SortHolds, SortIsTopological
<1>8. ChainsHold
  <2>1. DOMAIN chains = {}
    BY <1>1
  <2>2. visited = {}
    BY <2>1 DEF visited
  <2> QED
    BY <1>1, <2>1, <2>2
    DEF ChainsHold, ChainsApart, LinksAreChainable, HeadsAreNot, ChainableAreLinked
<1> QED
  BY <1>5, <1>6, <1>7, <1>8 DEF GraphInvariant

LEMMA GraphSteps ==
    ASSUME GraphInvariant, GraphNext
    PROVE  GraphInvariant'
<1>1. GraphTypeOK /\ FluentHolds /\ SortHolds /\ SortIsTopological /\ ChainsHold
  BY DEF GraphInvariant
<1>2. ASSUME UNCHANGED graph PROVE FluentHolds'
  <2>1. \A v : Incoming(v)' = Incoming(v)
    BY <1>2 DEF Incoming, graph
  <2> QED
    BY <1>1, <1>2, <2>1 DEF FluentHolds, graph
<1>3. CASE BuildGraph /\ ~BeginSort
  <2>1. GraphTypeOK' /\ FluentHolds' /\ phase' = "build" /\ chains' = chains
    BY <1>1, <1>3, BuildStep
  <2>2. chains' = << >>
    BY <2>1 DEF GraphTypeOK
  <2>3. ChainsHold'
    BY <2>1, <2>2, NoChains
  <2> QED
    BY <2>1, <2>3 DEF GraphInvariant, SortHolds, SortIsTopological
<1>4. CASE BeginSort
  <2>1. UNCHANGED graph /\ phase' = "sort"
    BY <1>4 DEF BeginSort
  <2>2. GraphTypeOK' /\ SortHolds'
    BY <1>1, <1>4, SortBegins
  <2>3. chains' = << >>
    BY <2>1, <2>2 DEF GraphTypeOK
  <2>4. ChainsHold'
    BY <2>1, <2>3, NoChains
  <2> QED
    BY <1>2, <2>1, <2>2, <2>4 DEF GraphInvariant, SortIsTopological
<1>5. CASE SortVertex
  <2>1. UNCHANGED graph /\ phase' = "sort"
    BY <1>5 DEF SortVertex
  <2>2. GraphTypeOK' /\ SortHolds'
    BY <1>1, <1>5, SortStep
  <2>3. chains' = << >>
    BY <2>1, <2>2 DEF GraphTypeOK
  <2>4. ChainsHold'
    BY <2>1, <2>3, NoChains
  <2> QED
    BY <1>2, <2>1, <2>2, <2>4 DEF GraphInvariant, SortIsTopological
<1>6. CASE Sorted
  <2>1. /\ UNCHANGED <<graph, in_degree, queue, result, chains>>
        /\ phase = "sort" /\ phase' \in {"raised", "chain"}
    BY <1>6 DEF Sorted
  <2>2. SortIsTopological'
    BY <1>1, <1>6, SortEnds
  <2>3. chains' = << >>
    BY <1>1, <2>1 DEF GraphTypeOK
  <2>4. ChainsHold'
    BY <2>1, <2>3, NoChains
  <2>5. GraphTypeOK' /\ SortHolds'
    <3>1. UNCHANGED <<fluent, vertices, sources, sinks, edges, queue, result, chains>>
      BY <2>1 DEF graph
    <3> QED
      BY <1>1, <2>1, <2>3, <3>1 DEF GraphTypeOK, SortHolds, Phases
  <2> QED
    BY <1>2, <2>1, <2>2, <2>4, <2>5 DEF GraphInvariant
<1>7. CASE StartChain \/ ExtendChain \/ EndChain \/ Chained
  <2>1. /\ UNCHANGED <<graph, in_degree, queue, result>>
        /\ phase \in {"chain", "extend"} /\ phase' \in {"chain", "extend", "chained"}
    BY <1>7 DEF StartChain, ExtendChain, EndChain, Chained
  <2>2. chains' \in Seq(Seq(Vertices)) /\ ChainsHold'
    <3>1. CASE EndChain \/ Chained
      <4>1. chains' = chains
        BY <3>1 DEF EndChain, Chained
      <4> QED
        BY <1>1, <3>1, <4>1, EndStep DEF GraphTypeOK
    <3> QED
      BY <1>1, <1>7, <3>1, StartStep, ExtendStep
  <2>3. GraphTypeOK' /\ SortHolds' /\ SortIsTopological'
    BY <1>1, <2>1, <2>2, ChainingKeepsTheSort
  <2> QED
    BY <1>2, <2>1, <2>2, <2>3 DEF GraphInvariant
<1> QED
  BY <1>3, <1>4, <1>5, <1>6, <1>7 DEF GraphNext

LEMMA GraphStutters ==
    ASSUME GraphInvariant, UNCHANGED graphVars
    PROVE  GraphInvariant'
<1>1. UNCHANGED <<fluent, vertices, sources, sinks, edges, phase, in_degree, queue, result, chains>>
  BY DEF graphVars, graph
<1>2. /\ \A v : Incoming(v)' = Incoming(v)
      /\ \A v : Remaining(v)' = Remaining(v)
      /\ \A i : Chainable(i)' = Chainable(i)
      /\ visited' = visited /\ current' = current /\ Unvisited' = Unvisited /\ Cyclic' = Cyclic
      /\ \A v, w : Consecutive(v, w)' = Consecutive(v, w)
      /\ \A v, w : Before(result, v, w)' = Before(result, v, w)
  BY <1>1 DEF Chainable, Outgoing, Incoming, Remaining, visited, current, Unvisited, Consecutive,
              Before, Cyclic
<1>3. GraphTypeOK'
  BY <1>1 DEF GraphInvariant, GraphTypeOK
<1>4. FluentHolds'
  BY <1>1, <1>2 DEF GraphInvariant, FluentHolds
<1>5. SortHolds'
  BY <1>1, <1>2 DEF GraphInvariant, SortHolds
<1>6. SortIsTopological'
  BY <1>1, <1>2 DEF GraphInvariant, SortIsTopological
<1>7. ChainsHold'
  BY <1>1, <1>2 DEF GraphInvariant, ChainsHold, ChainsApart, LinksAreChainable, HeadsAreNot,
                    ChainableAreLinked
<1> QED
  BY <1>3, <1>4, <1>5, <1>6, <1>7 DEF GraphInvariant

\* The graph is sorted and chained as the definitions above say, whatever it is.
THEOREM GraphHolds == Spec => []GraphInvariant
<1>1. Init => GraphInvariant
  BY GraphStarts DEF Init
<1>2. GraphInvariant /\ [Next]_vars => GraphInvariant'
  <2> SUFFICES ASSUME GraphInvariant, [Next]_vars PROVE GraphInvariant'
    OBVIOUS
  <2>1. GraphNext \/ UNCHANGED graphVars
    BY DEF Next, GraphStep, CreatePhysicalTasks, PlaceTask, vars
  <2> QED
    BY <2>1, GraphSteps, GraphStutters
<1> QED
  BY <1>1, <1>2, PTL DEF Spec

(* A sort that is accepted lists every vertex once and behind all that it  *)
(* reads from, and one is refused only for a cycle (topological_sort).     *)
THEOREM SortIsRight == Spec => []SortIsTopological
<1>1. GraphInvariant => SortIsTopological
  BY DEF GraphInvariant
<1> QED
  BY <1>1, GraphHolds, PTL

LEMMA ChainedFacts ==
    ASSUME GraphInvariant
    PROVE  ChainsAreExact /\ UpstreamFirst
<1>1. GraphTypeOK /\ SortIsTopological /\ ChainsHold
  BY DEF GraphInvariant
<1>2. ChainsApart /\ LinksAreChainable /\ HeadsAreNot /\ ChainableAreLinked
  BY <1>1 DEF ChainsHold
<1>3. /\ chains \in Seq(Seq(Vertices)) /\ DOMAIN chains = 1 .. Len(chains) /\ Len(chains) \in Nat
      /\ \A c \in DOMAIN chains : chains[c] \in Seq(Vertices)
  BY <1>1 DEF GraphTypeOK
<1>4. IsInjective(FlattenSeq(chains))
  <2>1. \A c \in DOMAIN chains : IsInjective(chains[c])
           /\ \A d \in DOMAIN chains : c # d => ToSet(chains[c]) \cap ToSet(chains[d]) = {}
    BY <1>2 DEF ChainsApart
  <2> QED
    BY <1>3, <2>1, FlattenSeqProperties
<1>5. ASSUME phase = "chained" PROVE visited = vertices
  <2>1. visited \subseteq vertices
    BY <1>2 DEF visited, ChainsApart
  <2>2. Unvisited = {} /\ ToSet(result) = vertices
    BY <1>1, <1>5, SortedFacts DEF ChainsHold
  <2>3. vertices \subseteq visited
    BY <2>2 DEF Unvisited, ToSet
  <2> QED
    BY <2>1, <2>3
<1> DEFINE Fused(v, w) == \E c \in DOMAIN chains : \E i \in 1 .. Len(chains[c]) - 1 :
                              chains[c][i] = v /\ chains[c][i + 1] = w
           Alone(v, w) == \E i \in DOMAIN edges :
                              /\ edges[i] = [source |-> v, target |-> w, type |-> "FORWARD"]
                              /\ \A j \in DOMAIN edges \ {i} :
                                    edges[j].source # v /\ edges[j].target # w
<1>6. ASSUME NEW v \in vertices, NEW w \in vertices, Fused(v, w) PROVE Alone(v, w)
  <2>1. PICK i \in DOMAIN edges : Chainable(i) /\ edges[i].source = v /\ edges[i].target = w
    BY <1>2, <1>6 DEF LinksAreChainable
  <2>2. Outgoing(v) = {i} /\ Incoming(w) = {i} /\ edges[i].type = "FORWARD"
    BY <2>1 DEF Chainable
  <2>3. edges[i] \in JobEdge
    BY <1>1, <2>1 DEF GraphTypeOK
  <2>4. edges[i] = [source |-> v, target |-> w, type |-> "FORWARD"]
    BY <2>1, <2>2, <2>3 DEF JobEdge
  <2>5. \A j \in DOMAIN edges \ {i} : edges[j].source # v /\ edges[j].target # w
    BY <2>2 DEF Outgoing, Incoming
  <2> QED
    BY <2>4, <2>5
<1>7. ASSUME phase = "chained", NEW v \in vertices, NEW w \in vertices, Alone(v, w)
      PROVE  Fused(v, w)
  <2>1. PICK i \in DOMAIN edges :
           /\ edges[i] = [source |-> v, target |-> w, type |-> "FORWARD"]
           /\ \A j \in DOMAIN edges \ {i} : edges[j].source # v /\ edges[j].target # w
    BY <1>7
  <2>2. edges[i].source = v /\ edges[i].target = w /\ edges[i].type = "FORWARD"
    BY <2>1
  <2>3. Outgoing(v) = {i} /\ Incoming(w) = {i}
    BY <2>1, <2>2 DEF Outgoing, Incoming
  <2>4. Chainable(i) /\ edges[i].source \in visited
    BY <1>5, <1>7, <2>2, <2>3 DEF Chainable
  <2>5. Consecutive(v, w)
    BY <1>2, <1>7, <2>2, <2>4 DEF ChainableAreLinked
  <2> QED
    BY <2>5 DEF Consecutive
<1>8. phase = "chained" => \A v, w \in vertices : Fused(v, w) <=> Alone(v, w)
  <2> HIDE DEF Fused, Alone
  <2> QED
    BY <1>6, <1>7
<1>9. ChainsAreExact
  BY <1>4, <1>5, <1>8 DEF ChainsAreExact
<1>10. ASSUME phase = "chained", NEW i \in DOMAIN edges
       PROVE  ChainOf(edges[i].source) <= ChainOf(edges[i].target)
  <2> DEFINE s == edges[i].source
             t == edges[i].target
  <2>1. s \in vertices /\ t \in vertices
    BY <1>1 DEF GraphTypeOK
  <2>2. ASSUME NEW v \in vertices
        PROVE  /\ ChainOf(v) \in DOMAIN chains /\ v \in ToSet(chains[ChainOf(v)])
               /\ \A c \in DOMAIN chains : v \in ToSet(chains[c]) => c = ChainOf(v)
    <3>1. \E c \in DOMAIN chains : v \in ToSet(chains[c])
      BY <1>5, <1>10 DEF visited
    <3>2. ChainOf(v) \in DOMAIN chains /\ v \in ToSet(chains[ChainOf(v)])
      BY <3>1 DEF ChainOf
    <3> QED
      BY <1>2, <3>2 DEF ChainsApart
  <2> HIDE DEF s, t
  <2>3. PICK d \in DOMAIN chains : d = ChainOf(t) /\ t \in ToSet(chains[d])
    BY <2>1, <2>2
  <2>4. PICK k \in DOMAIN chains[d] : chains[d][k] = t
    BY <2>3 DEF ToSet
  <2>5. chains[d] \in Seq(Vertices) /\ DOMAIN chains[d] = 1 .. Len(chains[d]) /\ Len(chains[d]) \in Nat
    BY <1>3
  <2>6. i \in Incoming(t)
    BY DEF Incoming, t
  <2>7. CASE k = 1
    <3>1. PICK b \in 1 .. d - 1 : s \in ToSet(chains[b])
      BY <1>2, <2>4, <2>6, <2>7 DEF HeadsAreNot, s
    <3>2. b \in DOMAIN chains /\ b <= d
      BY <1>3
    <3>3. b = ChainOf(s)
      BY <2>1, <2>2, <3>1, <3>2
    <3> QED
      BY <2>3, <3>2, <3>3 DEF s, t
  <2>8. CASE k # 1
    <3>1. k - 1 \in 1 .. Len(chains[d]) - 1 /\ k - 1 \in DOMAIN chains[d] /\ (k - 1) + 1 = k
      BY <2>5, <2>8
    <3>2. PICK j \in DOMAIN edges :
             Chainable(j) /\ edges[j].source = chains[d][k - 1] /\ edges[j].target = t
      BY <1>2, <2>4, <3>1 DEF LinksAreChainable
    <3>3. i = j
      BY <2>6, <3>2 DEF Chainable
    <3>4. s \in ToSet(chains[d])
      BY <3>1, <3>2, <3>3 DEF ToSet, s
    <3>5. ChainOf(s) = d
      BY <2>1, <2>2, <3>4
    <3>6. d \in Int
      BY <1>3
    <3> QED
      BY <2>3, <3>5, <3>6 DEF s, t
  <2> QED
    BY <2>7, <2>8
<1>11. UpstreamFirst
  BY <1>10 DEF UpstreamFirst
<1> QED
  BY <1>9, <1>11

(* Two operators share a chain one behind the other exactly when the one   *)
(* edge between them is the only one of both and FORWARD, and every vertex *)
(* is in one chain, once (identify_chainable_operators).                   *)
THEOREM ChainsAreRight == Spec => []ChainsAreExact
<1>1. GraphInvariant => ChainsAreExact
  BY ChainedFacts
<1> QED
  BY <1>1, GraphHolds, PTL

(* Each chain comes behind those it reads from (identify_chainable_operators). *)
THEOREM ChainsFollowTheirInputs == Spec => []UpstreamFirst
<1>1. GraphInvariant => UpstreamFirst
  BY ChainedFacts
<1> QED
  BY <1>1, GraphHolds, PTL

LEMMA FluentIsAcyclic ==
    ASSUME GraphTypeOK, FluentHolds, fluent
    PROVE  ~Cyclic
<1> SUFFICES ASSUME NEW S \in SUBSET vertices, S # {},
                    \A v \in S : \E i \in DOMAIN edges : edges[i].source \in S /\ edges[i].target = v
             PROVE  FALSE
  BY DEF Cyclic
<1>1. S \subseteq Nat
  BY JobGraphAssumption DEF GraphTypeOK, Vertices
<1>2. PICK least \in S : \A v \in S : least <= v
  BY <1>1, SmallestExists
<1>3. PICK i \in DOMAIN edges : edges[i].source \in S /\ edges[i].target = least
  OBVIOUS
<1>4. edges[i].source < least
  BY <1>3 DEF FluentHolds
<1> DEFINE source == edges[i].source
<1>5. source \in Nat /\ least \in Nat /\ least <= source /\ source < least
  BY <1>1, <1>2, <1>3, <1>4
<1> HIDE DEF source
<1> QED
  BY <1>5

LEMMA FluentFacts ==
    ASSUME GraphInvariant
    PROVE  FluentGraphsRun
<1> SUFFICES ASSUME fluent, phase # "build"
             PROVE  /\ phase # "raised"
                    /\ \A v \in vertices : Cardinality(Incoming(v)) = (IF v \in sources THEN 0 ELSE 1)
                    /\ \A v \in sinks : Outgoing(v) = {}
                    /\ phase = "chained" =>
                          \A c \in DOMAIN chains :
                              \/ chains[c][1] \in sources
                              \/ \E b \in 1 .. c - 1 : \A i \in Incoming(chains[c][1]) :
                                    edges[i].source \in ToSet(chains[b])
  BY DEF FluentGraphsRun
<1>1. GraphTypeOK /\ FluentHolds /\ SortIsTopological /\ ChainsHold
  BY DEF GraphInvariant
<1>2. phase # "raised"
  BY <1>1, FluentIsAcyclic DEF SortIsTopological
<1>3. \A v \in vertices : IF v \in sources THEN Incoming(v) = {} ELSE \E i : Incoming(v) = {i}
  BY <1>1 DEF FluentHolds
<1>4. ASSUME NEW v \in vertices
      PROVE  Cardinality(Incoming(v)) = (IF v \in sources THEN 0 ELSE 1)
  <2>1. Cardinality({}) = 0 /\ \A i : Cardinality({i}) = 1
    BY FS_EmptySet, FS_Singleton
  <2> QED
    BY <1>3, <2>1
<1>5. \A v \in sinks : Outgoing(v) = {}
  BY <1>1 DEF FluentHolds, Outgoing
<1>6. ASSUME NEW c \in DOMAIN chains, chains[c][1] \notin sources
      PROVE  \E b \in 1 .. c - 1 : \A i \in Incoming(chains[c][1]) :
                edges[i].source \in ToSet(chains[b])
  <2> DEFINE v == chains[c][1]
  <2>1. chains[c] \in Seq(Vertices) /\ chains[c] # << >> /\ ToSet(chains[c]) \subseteq vertices
    BY <1>1 DEF ChainsHold, ChainsApart, GraphTypeOK
  <2>2. 1 \in DOMAIN chains[c]
    BY <2>1
  <2>3. v \in vertices
    BY <2>1, <2>2 DEF ToSet
  <2>4. PICK i : Incoming(v) = {i}
    BY <1>3, <1>6, <2>3
  <2>5. \E b \in 1 .. c - 1 : edges[i].source \in ToSet(chains[b])
    BY <1>1, <2>4 DEF ChainsHold, HeadsAreNot
  <2> QED
    BY <2>4, <2>5
<1> QED
  BY <1>2, <1>4, <1>5, <1>6

(* A graph that the fluent API builds is never refused; its operators but  *)
(* the sources have one input each, and each chain hangs on one before it  *)
(* (DataStream, topological_sort and identify_chainable_operators).        *)
THEOREM FluentGraphsAreAccepted == Spec => []FluentGraphsRun
<1>1. GraphInvariant => FluentGraphsRun
  BY FluentFacts
<1> QED
  BY <1>1, GraphHolds, PTL
==============================================================================
