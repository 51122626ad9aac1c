--------------------------- MODULE ContextBuilder ---------------------------
(* ContextBuilder.findRelevantContext: from the ranked hits of a search to   *)
(* the subgraph an answer is written from.  How hits are scored is left      *)
(* open: any ranking is possible.  Nodes and edges are sequences in the      *)
(* order of the code's maps and arrays, which the cuts depend on.            *)
EXTENDS GraphQueries

CONSTANTS TestFiles,       \* files isTestFile accepts
          SearchLimit, MaxNodes, TraversalDepth,
          HierarchyNodes,  \* a quarter of MaxNodes in the code
          PerFile,         \* max(5, MaxNodes / 5)
          NonProduction    \* max(3, MaxNodes * 0.15)

ASSUME ContextAssumption ==
    /\ SearchLimit \in Nat \ {0} /\ MaxNodes \in Nat \ {0} /\ TraversalDepth \in Nat
    /\ HierarchyNodes \in Nat /\ PerFile \in Nat \ {0} /\ NonProduction \in Nat

VARIABLE hits  \* what the search found, best first; <<>> before a question

Added(s, x) == IF x \in ToSet(s) THEN s ELSE Append(s, x)
AddAll(s, t) == FoldLeft(Added, s, t)
Firsts(s, n) == SubSeq(s, 1, IF Len(s) < n THEN Len(s) ELSE n)
CeilDiv(a, b) == (a + b - 1) \div b

\* Edges of a context are told apart by their ends and kind alone.
SameEdge(d, e) == <<d.source, d.target, d.kind>> = <<e.source, e.target, e.kind>>
AddEdges(s, es) == FoldLeft(LAMBDA t, e : IF \E i \in 1..Len(t) : SameEdge(t[i], e) THEN t ELSE Append(t, e), s, es)

\* resolveImportsToDefinitions: an import or export stands for what its edges
\* lead to, and is dropped when that is unknown; the first mention of a node
\* counts.
Targets(es) == [i \in 1..Len(es) |-> es[i].target]
Meant(n) == CASE KindOf[n] = "import" -> Targets(Out(n, {"imports"}))
              [] KindOf[n] = "export" -> Targets(Out(n, {"exports"}))
              [] OTHER -> <<n>>
ResolveImports(ranked) == FoldLeft(LAMBDA s, n : AddAll(s, Meant(n)), <<>>, ranked)

\* The search returns some nodes, ranked and cut.
Ask == \E k \in 1..SearchLimit : \E ranked \in [1..k -> Nodes] :
          /\ \A i, j \in 1..k : ranked[i] = ranked[j] => i = j
          /\ hits' = Firsts(ResolveImports(ranked), SearchLimit)
          /\ UNCHANGED graph

Types == {"class", "interface", "struct", "trait", "protocol"}

\* The type hierarchy of every hit that is a type, while the budget lasts; a
\* hierarchy begun is taken whole.
OfHits(roots) ==
    FoldLeft(LAMBDA c, n :
        LET h == TypeHierarchy(n)
            new == SelectSeq(h.nodes, LAMBDA m : m \notin ToSet(c.nodes)) IN
        IF c.added >= HierarchyNodes \/ KindOf[n] \notin Types THEN c
        ELSE [nodes |-> c.nodes \o new, edges |-> AddEdges(c.edges, h.edges), added |-> c.added + Len(new)],
        [nodes |-> roots, edges |-> <<>>, added |-> 0], roots)

\* A second pass over the types the first one found, for their other subtypes,
\* this time node by node.
OfTheirs(c, roots) ==
    LET candidates == SelectSeq(c.nodes, LAMBDA n : KindOf[n] \in Types /\ n \notin ToSet(roots)) IN
    FoldLeft(LAMBDA d, n :
        LET h == TypeHierarchy(n)
            new == Firsts(SelectSeq(h.nodes, LAMBDA m : m \notin ToSet(d.nodes)), HierarchyNodes - d.added)
            nodes == d.nodes \o new IN
        IF d.added >= HierarchyNodes THEN d
        ELSE [nodes |-> nodes, added |-> d.added + Len(new),
              edges |-> AddEdges(d.edges, SelectSeq(h.edges, LAMBDA e : {e.source, e.target} \subseteq ToSet(nodes)))],
        c, candidates)

\* The kinds a walk from a hit may reach: imports, exports, fields and the like
\* say little.
HighValueKinds == {"function", "method", "class", "interface", "type_alias", "struct", "trait", "component",
                   "route", "variable", "constant", "enum", "module", "namespace"}

\* Each hit's neighbourhood, with an equal share of the nodes.
WithNeighbours(c, roots) ==
    FoldLeft(LAMBDA d, n :
        LET r == TraverseBFS(n, [direction |-> "both", kinds |-> {}, nodeKinds |-> HighValueKinds,
                                 maxDepth |-> TraversalDepth, limit |-> CeilDiv(MaxNodes, Len(roots))]) IN
        [nodes |-> AddAll(d.nodes, r.nodes), edges |-> AddEdges(d.edges, r.edges), added |-> d.added],
        c, roots)

Between(es, nodes) == SelectSeq(es, LAMBDA e : {e.source, e.target} \subseteq ToSet(nodes))

\* Too many nodes: the hits come first, then what an edge ties to them (or to
\* what an earlier edge did), then the rest.
Trimmed(c, roots) ==
    LET tied == FoldLeft(LAMBDA s, e :
                   LET t == IF e.source \in ToSet(s) THEN Added(s, e.target) ELSE s
                   IN  IF e.target \in ToSet(t) THEN Added(t, e.source) ELSE t,
                   roots, c.edges)
        nodes == Firsts(AddAll(SelectSeq(tied, LAMBDA n : n \in ToSet(c.nodes)), c.nodes), MaxNodes)
    IN  IF Len(c.nodes) <= MaxNodes THEN c
        ELSE [nodes |-> nodes, edges |-> Between(c.edges, nodes), added |-> c.added]

\* What of a crowded file is kept: hits before types before functions.
Rank(n, roots) == (IF n \in ToSet(roots) THEN 10 ELSE 0)
                  + (IF KindOf[n] \in Types \cup {"enum"} THEN 3 ELSE IF KindOf[n] \in {"function", "method"} THEN 1 ELSE 0)

\* The nodes of a file beyond the cap, by a stable sort on the rank.
Crowded(nodes, roots, f) ==
    LET own == SelectSeq(nodes, LAMBDA n : FileOf[n] = f)
        before(i, j) == \/ Rank(own[i], roots) > Rank(own[j], roots)
                        \/ Rank(own[i], roots) = Rank(own[j], roots) /\ i < j
    IN  {own[j] : j \in {k \in 1..Len(own) : Cardinality({i \in 1..Len(own) : before(i, k)}) >= PerFile}}

Diversified(nodes, roots) ==
    LET out == UNION {Crowded(nodes, roots, f) : f \in Files}
    IN  SelectSeq(nodes, LAMBDA n : n \notin out)

\* Test files are capped (the question is not about tests); a hit dropped here is
\* no root any more, one that its file was too crowded for stays one.
Production(nodes) ==
    LET tests == SelectSeq(nodes, LAMBDA n : FileOf[n] \in TestFiles)
    IN  SelectSeq(nodes, LAMBDA n : n \notin ToSet(tests) \ ToSet(Firsts(tests, NonProduction)))

RecoveryKinds == {"calls", "extends", "implements", "references", "overrides"}

BadRecovered(es, nodes) == es
\* findEdgesBetweenNodes: the edges the cuts and budgets have missed.
Recovered(es, nodes) ==
    AddEdges(es, SelectSeq(Between(graph, nodes), LAMBDA e : e.kind \in RecoveryKinds))

RelevantContext(roots) ==
    LET c == Trimmed(WithNeighbours(OfTheirs(OfHits(roots), roots), roots), roots)
        spread == Diversified(c.nodes, roots)
        nodes == Production(spread)
        dropped == ToSet(spread) \ ToSet(nodes)
    IN  [nodes |-> nodes, edges |-> Recovered(Between(c.edges, nodes), nodes),
         roots |-> SelectSeq(roots, LAMBDA n : n \notin dropped)]

\* getEntryPoints
EntryPoints(c) == SelectSeq(c.roots, LAMBDA n : n \in ToSet(c.nodes))

\* buildCallPathsSection: the call chains between hits, without cycles, at most
\* MaxHops long, of at least three nodes, two of them hits.
CalledIn(c, n) == {e.target : e \in {d \in ToSet(Between(c.edges, c.nodes)) : d.kind = "calls" /\ d.source = n}}
Onward(c, path) == CalledIn(c, Last(path)) \ ToSet(path)

RECURSIVE ChainsFrom(_, _, _)
ChainsFrom(c, path, maxHops) ==
    LET next == Onward(c, path) IN
    IF next = {} \/ Len(path) >= maxHops THEN (IF Len(path) >= 3 THEN {path} ELSE {})
    ELSE UNION {ChainsFrom(c, Append(path, n), maxHops) : n \in next}

CallPaths(c) ==
    {p \in UNION {ChainsFrom(c, <<n>>, 6) : n \in ToSet(c.roots) \cap ToSet(c.nodes)} :
        Cardinality(ToSet(p) \cap ToSet(c.roots)) >= 2}
=============================================================================
