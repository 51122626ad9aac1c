------------------------------- MODULE MCWalks -------------------------------
(* Every table of a few edges from a pool with parallel edges, cycles, a loop *)
(* and containment, and every way to ask one of the five walks.               *)
EXTENDS Traversal, PathSearch, CallWalk, ImpactWalk, CycleWalk

CONSTANTS MaxRows,   \* of the tables traverseBFS is asked about
          FewRows    \* of those the other walks are

VARIABLE asked       \* the walk

MCNodes == {"C", "m", "f", "g", "h", "v"}
MCKindOf == [C |-> "class", m |-> "method", f |-> "function", g |-> "function", h |-> "import", v |-> "variable"]
MCFileOf == [C |-> "a", m |-> "a", f |-> "b", g |-> "c", h |-> "d", v |-> "d"]
Edge(s, t, kind, line) == [source |-> s, target |-> t, kind |-> kind, line |-> line]
Pool == {Edge("C", "m", "contains", 0), Edge("f", "m", "calls", 1), Edge("f", "m", "calls", 2), Edge("m", "g", "calls", 5),
         Edge("g", "f", "calls", 1), Edge("g", "h", "references", 1), Edge("h", "C", "imports", 1), Edge("C", "f", "references", 3),
         Edge("g", "g", "calls", 2), Edge("h", "v", "exports", 1)}
MCTables == {t \in SUBSET Pool : Cardinality(t) <= MaxRows}
Asks(direction, nodeKinds, maxDepth, limit, includeStart) ==
    [direction |-> direction, edgeKinds |-> {}, nodeKinds |-> nodeKinds, maxDepth |-> maxDepth, limit |-> limit,
     includeStart |-> includeStart]
Broad == {Asks("both", {}, 3, 5, TRUE), Asks("both", {}, 2, 3, TRUE), Asks("both", {}, 2, 9, TRUE), Asks("both", {}, 0, 2, TRUE),
          Asks("both", {}, 3, 2, FALSE), Asks("outgoing", {}, 3, 9, TRUE),
          Asks("incoming", {"class", "method"}, 2, 3, FALSE),
          [Asks("both", {}, 2, 9, TRUE) EXCEPT !.edgeKinds = {"calls", "contains"}]}
Plain == Asks("incoming", {}, 1, 9, TRUE)
AsksOf(walk) ==
    CASE walk = "bfs" -> Broad
      [] walk = "path" -> {Plain, [Plain EXCEPT !.edgeKinds = {"calls", "references"}]}
      [] walk = "calls" -> {Plain, Asks("incoming", {}, 3, 9, TRUE), Asks("outgoing", {}, 3, 9, TRUE)}
      [] walk = "impact" -> {Plain, Asks("incoming", {}, 2, 9, TRUE)}
      [] walk = "cycles" -> {Plain}
Walks == {"bfs", "path", "calls", "impact", "cycles"}
MCAsked == UNION {AsksOf(w) : w \in Walks}

MCInit ==
    /\ asked \in Walks
    /\ table \in IF asked = "bfs" THEN MCTables ELSE {t \in MCTables : Cardinality(t) <= FewRows}
    /\ start \in IF asked = "cycles" THEN {"C"} ELSE Nodes
    /\ opts \in AsksOf(asked)
    /\ goal \in IF asked = "path" THEN Nodes ELSE {start}
    /\ Init /\ PathInit /\ CallInit /\ ImpactInit /\ CycleInit

MCNext ==
    /\ UNCHANGED asked
    /\ \/ asked = "bfs" /\ Next /\ UNCHANGED <<pathVars, callVars, impactVars, cycleVars>>
       \/ asked = "path" /\ PathNext /\ UNCHANGED <<vars, callVars, impactVars, cycleVars>>
       \/ asked = "calls" /\ CallNext /\ UNCHANGED <<vars, pathVars, impactVars, cycleVars>>
       \/ asked = "impact" /\ ImpactNext /\ UNCHANGED <<vars, pathVars, callVars, cycleVars>>
       \/ asked = "cycles" /\ CycleNext /\ UNCHANGED <<vars, pathVars, callVars, impactVars>>

MCSpec == MCInit /\ [][MCNext]_<<vars, pathVars, callVars, impactVars, cycleVars, asked>>
=============================================================================
