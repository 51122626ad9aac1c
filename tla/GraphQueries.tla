---------------------------- MODULE GraphQueries ----------------------------
(* What the engine answers about an indexed graph, as the context builder    *)
(* and the query service ask it; the walks whose steps matter are in         *)
(* Traversal, PathSearch, CallWalk, ImpactWalk and CycleWalk.  The graph is  *)
(* the edges table in the order of its rows, which is the order the indexer  *)
(* inserts them in; results are sequences in the order of the code.          *)
EXTENDS Integers, Sequences, SequencesExt, FiniteSets, FiniteSetsExt

CONSTANTS Nodes,     \* ids of the nodes table
          KindOf,    \* the kind of each node
          FileOf,    \* the file of each node
          Exported,  \* nodes that are exported
          EdgePool,  \* edges an indexer may insert: [source, target, kind, line]
          MaxEdges

VARIABLE graph       \* the edges table

Files == {FileOf[n] : n \in Nodes}

\* insertEdges: an edge with an end that is no node is dropped, one that is
\* there already is ignored (idx_edges_identity).
InsertEdge(e) ==
    graph' = IF {e.source, e.target} \subseteq Nodes /\ e \notin ToSet(graph)
             THEN Append(graph, e) ELSE graph

\* getOutgoingEdges, getIncomingEdges; no kinds means all of them.
OfKinds(e, kinds) == kinds = {} \/ e.kind \in kinds
Out(n, kinds) == SelectSeq(graph, LAMBDA e : e.source = n /\ OfKinds(e, kinds))
In(n, kinds) == SelectSeq(graph, LAMBDA e : e.target = n /\ OfKinds(e, kinds))

Adjacent(n, direction, kinds) ==
    CASE direction = "outgoing" -> Out(n, kinds)
      [] direction = "incoming" -> In(n, kinds)
      [] OTHER -> Out(n, kinds) \o In(n, kinds)

Other(e, n) == IF e.source = n THEN e.target ELSE e.source

-----------------------------------------------------------------------------
(* traverseBFS: containment first, then calls, until the limit.              *)

Prioritised(es) == SelectSeq(es, LAMBDA e : e.kind = "contains")
                   \o SelectSeq(es, LAMBDA e : e.kind = "calls")
                   \o SelectSeq(es, LAMBDA e : e.kind \notin {"contains", "calls"})

\* an edge met from both sides is kept twice
BadKept(e, es) == Append(es, e)
Kept(e, es) == IF e \in ToSet(es) THEN es ELSE Append(es, e)

\* One node is expanded: a neighbour is enqueued once, while there is room; an
\* edge is kept once, and only when its other end is or has become part of the
\* result.
Visit(n, depth, o, st) ==
    FoldLeft(LAMBDA s, e :
        LET m == Other(e, n)
            kept == Kept(e, s.edges) IN
        IF o.nodeKinds # {} /\ KindOf[m] \notin o.nodeKinds THEN s
        ELSE IF m \in s.enqueued THEN [s EXCEPT !.edges = kept]
        ELSE IF Len(s.nodes) >= o.limit THEN s
        ELSE [nodes |-> Append(s.nodes, m), enqueued |-> s.enqueued \cup {m},
              queue |-> Append(s.queue, <<m, depth + 1>>), edges |-> kept],
        st, Prioritised(Adjacent(n, o.direction, o.kinds)))

RECURSIVE Bfs(_, _)
Bfs(o, st) ==
    IF st.queue = <<>> \/ Len(st.nodes) >= o.limit THEN st
    ELSE LET n == Head(st.queue)[1]
             depth == Head(st.queue)[2]
             rest == [st EXCEPT !.queue = Tail(@)] IN
         Bfs(o, IF depth >= o.maxDepth THEN rest ELSE Visit(n, depth, o, rest))

TraverseBFS(start, o) ==
    Bfs(o, [nodes |-> <<start>>, edges |-> <<>>, enqueued |-> {start}, queue |-> <<<<start, 0>>>>])

-----------------------------------------------------------------------------
(* The other queries.                                                        *)

\* getTypeHierarchy: the walk up and the walk down share one set of visited
\* nodes; the nodes are in the order they were met.
TypeKinds == {"extends", "implements"}

RECURSIVE Related(_, _, _)
Related(direction, n, acc) ==
    IF n \in acc.visited THEN acc
    ELSE FoldLeft(LAMBDA a, e :
            LET m == Other(e, n) IN
            IF m \in ToSet(a.nodes) THEN a
            ELSE Related(direction, m, [a EXCEPT !.nodes = Append(@, m), !.edges = Append(@, e)]),
            [acc EXCEPT !.visited = @ \cup {n}], Adjacent(n, direction, TypeKinds))

TypeHierarchy(n) ==
    LET up == Related("outgoing", n, [nodes |-> <<n>>, edges |-> <<>>, visited |-> {}])
    IN  Related("incoming", n, up)

\* What refers to a node, membership apart.
Dependents(n) == SelectSeq(In(n, {}), LAMBDA e : e.kind # "contains")

\* getAncestors, getChildren
RECURSIVE AncestorsOf(_, _)
AncestorsOf(n, visited) ==
    LET up == In(n, {"contains"}) IN
    IF n \in visited \/ up = <<>> THEN <<>>
    ELSE <<up[1].source>> \o AncestorsOf(up[1].source, visited \cup {n})

Ancestors(n) == AncestorsOf(n, {})
Children(n) == [i \in 1..Len(Out(n, {"contains"})) |-> Out(n, {"contains"})[i].target]
Usages(n) == [i \in 1..Len(In(n, {})) |-> In(n, {})[i].source]

\* getContext: what refers to a node and what it refers to, membership apart.
ContextOf(n) == [ancestors |-> Ancestors(n), children |-> Children(n),
                 incoming |-> Dependents(n),
                 outgoing |-> SelectSeq(Out(n, {}), LAMBDA e : e.kind # "contains")]

\* findDeadCode: functions, methods and classes that nothing refers to.
DeadCode == {n \in Nodes \ Exported : /\ KindOf[n] \in {"function", "method", "class"}
                                      /\ Dependents(n) = <<>>}

\* getNodeMetrics
Metrics(n) == [calls |-> Len(Out(n, {"calls"})), callers |-> Len(In(n, {"calls"})),
               children |-> Len(Out(n, {"contains"})), depth |-> Len(Ancestors(n))]

\* getDependencyFilePaths, getDependentFilePaths: the files at the other ends of
\* the edges between files.
CrossFile == SelectSeq(graph, LAMBDA e : e.kind # "contains" /\ FileOf[e.source] # FileOf[e.target])
Dependencies(f) == {FileOf[e.target] : e \in {d \in ToSet(CrossFile) : FileOf[d.source] = f}}
DependentFiles(f) == {FileOf[e.source] : e \in {d \in ToSet(CrossFile) : FileOf[d.target] = f}}

\* The engine's own getCallers and getCallees: one answer for each call edge.
EngineCallers(n) == [i \in 1..Len(In(n, {"calls"})) |-> In(n, {"calls"})[i].source]
EngineCallees(n) == [i \in 1..Len(Out(n, {"calls"})) |-> Out(n, {"calls"})[i].target]
=============================================================================
