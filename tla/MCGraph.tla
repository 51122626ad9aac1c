------------------------------- MODULE MCGraph -------------------------------
(* Every graph an indexer can build from a few edges, in every order of      *)
(* insertion, and the context built from it for any hits of a search.        *)
EXTENDS ContextBuilder

MCNodes == {"C", "m", "f", "g", "D", "I", "i", "e"}
MCKindOf == [C |-> "class", D |-> "class", I |-> "interface", m |-> "method",
             f |-> "function", g |-> "function", i |-> "import", e |-> "export"]
MCFileOf == [C |-> "a", m |-> "a", f |-> "b", g |-> "c", D |-> "c", I |-> "d", i |-> "b", e |-> "c"]

Edge(s, t, kind, line) == [source |-> s, target |-> t, kind |-> kind, line |-> line]

MCEdges == {Edge("C", "m", "contains", 0), Edge("f", "m", "calls", 1), Edge("f", "m", "calls", 2),
            Edge("m", "g", "calls", 5), Edge("g", "f", "calls", 1), Edge("g", "m", "references", 1),
            Edge("D", "C", "extends", 1), Edge("D", "I", "implements", 1), Edge("C", "I", "implements", 1),
            Edge("D", "g", "contains", 0), Edge("D", "x", "calls", 1),
            Edge("i", "C", "imports", 1), Edge("e", "g", "exports", 1)}

Init == graph = <<>> /\ hits = <<>>
Grow == \E e \in EdgePool : /\ Len(graph) < MaxEdges /\ hits = <<>>
                            /\ InsertEdge(e) /\ UNCHANGED hits
Next == Grow \/ (hits = <<>> /\ Ask)
Spec == Init /\ [][Next]_<<graph, hits>>

-----------------------------------------------------------------------------
Injective(s) == Cardinality(ToSet(s)) = Len(s)
Edges == ToSet(graph)

Neighbours(n) == {e.target : e \in {d \in Edges : d.source = n}} \cup {e.source : e \in {d \in Edges : d.target = n}}
Ball(n, depth) ==
    LET within[k \in 0..depth] == IF k = 0 THEN {n} ELSE within[k - 1] \cup UNION {Neighbours(m) : m \in within[k - 1]}
    IN  within[depth]
Options(depth, limit) == [direction |-> "both", kinds |-> {}, nodeKinds |-> {}, maxDepth |-> depth, limit |-> limit]

\* The traversal the context builder asks about every hit answers as the one that
\* is opened in Traversal: within its limit it keeps the nearest nodes, reports
\* an edge once, though it meets it from both ends, and with room enough finds
\* all within the depth and all edges of what it expanded (issues 1087, 1090).
BfsExact ==
    hits = <<>> => \A n \in Nodes, depth \in 1..2, limit \in {2, 3, 9} :
        LET r == TraverseBFS(n, Options(depth, limit))
            kept == ToSet(r.nodes) IN
        /\ Len(r.nodes) <= limit /\ Injective(r.nodes) /\ Injective(r.edges)
        /\ \A e \in ToSet(r.edges) : {e.source, e.target} \subseteq kept
        /\ \A k \in 0..depth : kept \subseteq Ball(n, k) \/ Ball(n, k) \subseteq kept
        /\ limit = 9 => /\ kept = Ball(n, depth)
                        /\ ToSet(r.edges) = {e \in Edges : {e.source, e.target} \cap Ball(n, depth - 1) # {}}

Closed(c) ==
    /\ \A i, j \in 1..Len(c.edges) : /\ {c.edges[i].source, c.edges[i].target} \subseteq ToSet(c.nodes)
                                     /\ SameEdge(c.edges[i], c.edges[j]) => i = j
    /\ \A e \in Edges : /\ e.kind \in RecoveryKinds
                        /\ {e.source, e.target} \subseteq ToSet(c.nodes)
                        => \E i \in 1..Len(c.edges) : SameEdge(c.edges[i], e)

\* The two caps that may cost a hit its node, each only where hits alone fill it:
\* the cap on a file leaves the hit among the roots, the one on test files does
\* not.
LostToItsFile(n) == Cardinality({m \in ToSet(hits) : FileOf[m] = FileOf[n]}) > PerFile
LostToTests(n, c) ==
    LET kept == {m \in ToSet(c.nodes) : FileOf[m] \in TestFiles} IN
    /\ FileOf[n] \in TestFiles
    /\ kept \subseteq ToSet(hits) /\ Cardinality(kept) = NonProduction

Anchored(c) ==
    /\ ToSet(c.roots) \subseteq ToSet(hits)
    /\ ToSet(hits) \cap ToSet(c.nodes) \subseteq ToSet(c.roots)
    /\ \A n \in ToSet(hits) \ ToSet(c.nodes) :
          IF n \in ToSet(c.roots) THEN LostToItsFile(n) ELSE LostToTests(n, c)

CallPath(p, c) ==
    /\ Injective(p) /\ p[1] \in ToSet(EntryPoints(c))
    /\ \A k \in 1..(Len(p) - 1) : \E e \in Edges : e.kind = "calls" /\ e.source = p[k] /\ e.target = p[k + 1]

Sound(c) == /\ Closed(c) /\ Len(c.nodes) <= MaxNodes
            /\ Anchored(c)
            /\ \A p \in CallPaths(c) : CallPath(p, c)

\* A context is closed, complete and anchored: its edges join its nodes, each
\* pair once for a kind, and no call, reference or inheritance between two of its
\* nodes is missing, whatever the budgets cut off on the way; every hit in it is
\* an entry point, and a hit is lost only to a cap that hits alone fill, so that a
\* root without its node is one its file had too many hits for; and its call
\* paths follow its calls from one hit on.  (MaxNodes is no less than
\* SearchLimit, as in the code's defaults.)
ContextClosed == hits # <<>> => Sound(RelevantContext(hits))
=============================================================================
