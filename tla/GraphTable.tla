----------------------------- MODULE GraphTable -----------------------------
(* What the walks of graph/traversal.ts and graph/queries.ts go over: the     *)
(* nodes and edges tables, and the question asked.  The rows of a node come   *)
(* in any order, as SQL leaves them.                                          *)
EXTENDS Integers, FiniteSets, Sequences, SequencesExt

CONSTANTS Nodes,    \* ids of the nodes table
          KindOf,   \* the kind of each node
          Tables,   \* edges tables: sets of [source, target, kind, line]
          Asked     \* options a caller passes

\* The ends of an edge are nodes (the foreign keys).  A walk without limit or
\* maxDepth is one whose bounds are not reached.
ASSUME GraphAssumption ==
    /\ IsFiniteSet(Nodes)
    /\ \A e \in UNION Tables : e.source \in Nodes /\ e.target \in Nodes
    /\ \A o \in Asked : /\ o.maxDepth \in Nat /\ o.limit \in Nat \ {0} /\ o.includeStart \in BOOLEAN
                        /\ o.direction \in {"outgoing", "incoming", "both"}

VARIABLES
  table,     \* the edges table
  start,     \* the node asked about
  opts       \* the options: direction, edgeKinds, nodeKinds, maxDepth, limit,
             \* includeStart; a query reads those it has

question == <<table, start, opts>>

\* getOutgoingEdges, getIncomingEdges; no kinds means all of them.
OfKinds(e) == opts.edgeKinds = {} \/ e.kind \in opts.edgeKinds

\* m is k steps of the relation R away from n.
Joined(R, n, m, k) ==
    \E p \in [0..k -> Nodes] : p[0] = n /\ p[k] = m /\ \A i \in 0..(k - 1) : <<p[i], p[i + 1]>> \in R
=============================================================================
