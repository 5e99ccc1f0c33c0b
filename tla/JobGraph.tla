------------------------------- MODULE JobGraph ------------------------------
(***************************************************************************)
(* jobmanager/job_graph.py: a JobGraph is built, call by call of the       *)
(* fluent API or by hand with add_vertex and add_edge; then                *)
(* topological_sort takes a vertex without open inputs from a queue, and   *)
(* identify_chainable_operators grows one chain at a time.  Vertices are   *)
(* numbered as they were added.                                            *)
(***************************************************************************)
EXTENDS Integers, Sequences, SequencesExt, FiniteSetsExt

CONSTANTS
    NumVertices,
    MaxEdges        \* bound: edges of a graph

ASSUME JobGraphAssumption == {NumVertices, MaxEdges} \subseteq Nat

Vertices == 1 .. NumVertices
EdgeType == {"FORWARD", "SHUFFLE"}   \* SHUFFLE stands for every other type
JobEdge == [source : Vertices, target : Vertices, type : EdgeType]

VARIABLES
    fluent,         \* the graph is built with the fluent API
    vertices, sources, sinks, edges,
    phase,          \* "build", "sort", "chain", "extend", "raised" or "chained"
    in_degree, queue,
    result,         \* the vertices sorted
    chains          \* the last one is growing while phase is "extend"

graph == <<fluent, vertices, sources, sinks, edges>>
graphVars == <<graph, phase, in_degree, queue, result, chains>>

\* What get_upstream_vertices and get_downstream_vertices list: a vertex once
\* for each edge, in the order of the edges.
Incoming(v) == {i \in DOMAIN edges : edges[i].target = v}
Outgoing(v) == {i \in DOMAIN edges : edges[i].source = v}

\* The numbers of S up to n, in their order.
InOrder(S, n) == FlattenSeq([i \in 1 .. n |-> IF i \in S THEN <<i>> ELSE << >>])

\* What add_edge lets a client build: any list of edges between vertices that
\* were added before: cycles, loops and repetitions included.
Graphs == UNION {[1 .. n -> JobEdge] : n \in 0 .. MaxEdges}

GraphInit ==
    /\ fluent \in BOOLEAN
    /\ vertices = IF fluent THEN {} ELSE Vertices
    /\ sources = {} /\ sinks = {}
    /\ edges \in IF fluent THEN {<< >>} ELSE Graphs
    /\ phase = "build"
    /\ in_degree = << >>
    /\ queue = << >>
    /\ result = << >>
    /\ chains = << >>
-----------------------------------------------------------------------------
(* The fluent API.  A DataStream stands for the vertex that produces it;   *)
(* a program may go on from any that it has, and from one more than once.  *)

\* Mutant of NextId: the counter of the environment is not moved.
LastId == Max(vertices \cup {1})
NextId == Cardinality(vertices) + 1

Building == phase = "build" /\ fluent /\ NextId <= NumVertices

AddSource ==
    /\ Building
    /\ vertices' = vertices \cup {NextId}
    /\ sources' = sources \cup {NextId}
    /\ UNCHANGED <<fluent, sinks, edges, phase, in_degree, queue, result, chains>>

\* map, filter, flat_map, reduce and the windows' reduce go on FORWARD, key_by
\* with a SHUFFLE.
AddOperator(stream, type) ==
    /\ Building
    /\ vertices' = vertices \cup {NextId}
    /\ edges' = Append(edges, [source |-> stream, target |-> NextId, type |-> type])
    /\ UNCHANGED <<fluent, sources, sinks, phase, in_degree, queue, result, chains>>

\* Returns no stream.
AddSink(stream) ==
    /\ Building
    /\ vertices' = vertices \cup {NextId}
    /\ sinks' = sinks \cup {NextId}
    /\ edges' = Append(edges, [source |-> stream, target |-> NextId, type |-> "FORWARD"])
    /\ UNCHANGED <<fluent, sources, phase, in_degree, queue, result, chains>>

\* The graph is submitted as it is, and sorted.
BeginSort ==
    /\ phase = "build" /\ phase' = "sort"
    /\ in_degree' = [v \in vertices |-> Cardinality(Incoming(v))]
    /\ queue' = InOrder({v \in vertices : in_degree'[v] = 0}, NumVertices)
    /\ UNCHANGED <<graph, result, chains>>

BuildGraph ==
    \/ AddSource
    \/ \E stream \in vertices \ sinks : AddSink(stream) \/ \E type \in EdgeType : AddOperator(stream, type)
    \/ BeginSort
-----------------------------------------------------------------------------
\* The in-degrees once every edge of v has been taken off, and the edges that
\* have taken the last off their targets.
Decremented(v) ==
    [w \in vertices |-> in_degree[w] - Cardinality(Outgoing(v) \cap Incoming(w))]

Freeing(v) ==
    {i \in Outgoing(v) :
        /\ Decremented(v)[edges[i].target] = 0
        /\ \A j \in Outgoing(v) : edges[j].target = edges[i].target => j <= i}

SortVertex ==
    /\ phase = "sort"
    /\ queue # << >>
    /\ LET v == Head(queue)
           freeing == InOrder(Freeing(v), Len(edges))
       IN  /\ result' = Append(result, v)
           /\ in_degree' = Decremented(v)
           /\ queue' = Tail(queue) \o [k \in DOMAIN freeing |-> edges[freeing[k]].target]
    /\ UNCHANGED <<graph, phase, chains>>

\* Mutant of Incomplete: a sort that stops early is taken for complete.
NeverIncomplete == FALSE
Incomplete == Len(result) # Cardinality(vertices)

\* "Graph contains a cycle", or on to the chains.
Sorted ==
    /\ phase = "sort"
    /\ queue = << >>
    /\ phase' = IF Incomplete THEN "raised" ELSE "chain"
    /\ UNCHANGED <<graph, in_degree, queue, result, chains>>
-----------------------------------------------------------------------------
visited == UNION {ToSet(chains[c]) : c \in DOMAIN chains}

Unvisited == {i \in DOMAIN result : result[i] \notin visited}

StartChain ==
    /\ phase = "chain"
    /\ Unvisited # {}
    /\ chains' = Append(chains, <<result[Min(Unvisited)]>>)
    /\ phase' = "extend"
    /\ UNCHANGED <<graph, in_degree, queue, result>>

current == Last(Last(chains))

\* Mutants of Chainable: a vertex with several inputs, or outputs, is chained.
ChainableJoin(i) ==
    /\ Outgoing(edges[i].source) = {i}
    /\ edges[i].type = "FORWARD"
ChainableSplit(i) ==
    /\ edges[i].type = "FORWARD"
    /\ Incoming(edges[i].target) = {i}

\* The edge i is the only one of its source and the only one of its target.
Chainable(i) ==
    /\ Outgoing(edges[i].source) = {i}
    /\ edges[i].type = "FORWARD"
    /\ Incoming(edges[i].target) = {i}

ExtendChain ==
    /\ phase = "extend"
    /\ \E i \in Outgoing(current) :
          /\ Chainable(i)
          /\ chains' = [chains EXCEPT ![Len(chains)] = Append(@, edges[i].target)]
    /\ UNCHANGED <<graph, phase, in_degree, queue, result>>

EndChain ==
    /\ phase = "extend"
    /\ ~\E i \in Outgoing(current) : Chainable(i)
    /\ phase' = "chain"
    /\ UNCHANGED <<graph, in_degree, queue, result, chains>>

Chained ==
    /\ phase = "chain"
    /\ Unvisited = {}
    /\ phase' = "chained"
    /\ UNCHANGED <<graph, in_degree, queue, result, chains>>

GraphNext == BuildGraph \/ SortVertex \/ Sorted \/ StartChain \/ ExtendChain \/ EndChain \/ Chained
-----------------------------------------------------------------------------
Before(seq, v, w) ==
    \E i, j \in DOMAIN seq : i < j /\ seq[i] = v /\ seq[j] = w

Cyclic ==
    \E S \in SUBSET vertices : S # {} /\
        \A v \in S : \E i \in DOMAIN edges : edges[i].source \in S /\ edges[i].target = v

(* A sort that is accepted lists every vertex once, behind everything it   *)
(* reads from, whatever edges there are twice; one is refused only for a   *)
(* cycle.                                                                  *)
SortIsTopological ==
    CASE phase \in {"build", "sort"} -> TRUE
      [] phase = "raised" -> Cyclic
      [] OTHER ->
            /\ IsInjective(result) /\ ToSet(result) = vertices
            /\ \A i \in DOMAIN edges : Before(result, edges[i].source, edges[i].target)

(* The chains are a partition of the vertices: no operator is deployed     *)
(* twice, none is left out.  Two are fused exactly when the one is all     *)
(* that the other sends to and the other all that it reads from, over a    *)
(* FORWARD edge: fusing never changes what an operator is fed with, and    *)
(* nothing that could be fused is left apart.                              *)
ChainsAreExact ==
    phase \in {"chain", "extend", "chained"} =>
        /\ IsInjective(FlattenSeq(chains))
        /\ phase = "chained" =>
              /\ visited = vertices
              /\ \A v, w \in vertices :
                    (\E c \in DOMAIN chains : \E i \in 1 .. Len(chains[c]) - 1 :
                        chains[c][i] = v /\ chains[c][i + 1] = w)
                    <=> \E i \in DOMAIN edges :
                            /\ edges[i] = [source |-> v, target |-> w, type |-> "FORWARD"]
                            /\ \A j \in DOMAIN edges \ {i} :
                                  edges[j].source # v /\ edges[j].target # w

(* Whatever streams of the fluent API a program goes on from, its graph is *)
(* never refused: every operator but the sources has one input, nothing    *)
(* reads from a sink, and each chain hangs on one that was started before. *)
FluentGraphsRun ==
    fluent /\ phase # "build" =>
        /\ phase # "raised"
        /\ \A v \in vertices : Cardinality(Incoming(v)) = (IF v \in sources THEN 0 ELSE 1)
        /\ \A v \in sinks : Outgoing(v) = {}
        /\ phase = "chained" =>
              \A c \in DOMAIN chains :
                  \/ chains[c][1] \in sources
                  \/ \E b \in 1 .. c - 1 : \A i \in Incoming(chains[c][1]) :
                        edges[i].source \in ToSet(chains[b])

ChainOf(v) == CHOOSE c \in DOMAIN chains : v \in ToSet(chains[c])

(* The chains come in an order in which each follows those it reads from:  *)
(* their tasks are placed and deployed in this order.                      *)
UpstreamFirst ==
    phase = "chained" =>
        \A i \in DOMAIN edges : ChainOf(edges[i].source) <= ChainOf(edges[i].target)
=============================================================================
