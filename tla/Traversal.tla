----------------------------- MODULE Traversal -----------------------------
(***************************************************************************)
(* GraphTraverser.traverseBFS of graph/traversal.ts, one iteration of its  *)
(* two loops at a time, over any graph and for any options.  GraphQueries  *)
(* computes the same traversal from the rows in the order of insertion;    *)
(* here the rows of a node come in any order, as SQL leaves it, but for    *)
(* the sort by kind that the code does.                                    *)
(***************************************************************************)
EXTENDS GraphTable

VARIABLES
  nodes,     \* the nodes found
  edges,     \* the edges found, in order
  visited,   \* nodes taken out of the queue
  enqueued,  \* nodes ever put into it
  queue,     \* of [node, depth]
  step,      \* what was taken out last
  left       \* its rows the inner loop has not come to yet

vars == <<table, start, opts, nodes, edges, visited, enqueued, queue, step, left>>

-----------------------------------------------------------------------------
(* Rows                                                                      *)

\* getAdjacentEdges
Adjacent(n) ==
    {e \in table : /\ OfKinds(e)
                   /\ \/ e.source = n /\ opts.direction # "incoming"
                      \/ e.target = n /\ opts.direction # "outgoing"}

Other(e, n) == IF e.source = n THEN e.target ELSE e.source

\* Containment first, then calls.
Priority(e) == CASE e.kind = "contains" -> 0 [] e.kind = "calls" -> 1 [] OTHER -> 2
Foremost(rows) == {e \in rows : \A d \in rows : Priority(e) <= Priority(d)}

Admitted(m) == opts.nodeKinds = {} \/ KindOf[m] \in opts.nodeKinds

\* A neighbour is fetched unless it was queued before, else it is looked for
\* among the nodes found: a start that is not to be included is neither.
Known(m) == m \in nodes \/ m \notin enqueued

Full == Cardinality(nodes) >= opts.limit

-----------------------------------------------------------------------------
(* The loops                                                                 *)

Init ==
    /\ table \in Tables /\ start \in Nodes /\ opts \in Asked
    /\ nodes = IF opts.includeStart THEN {start} ELSE {}
    /\ edges = <<>> /\ visited = {} /\ enqueued = {start}
    /\ queue = <<[node |-> start, depth |-> 0]>>
    /\ step = [node |-> start, depth |-> 0] /\ left = {}

\* queue.shift()
Taken == Head(queue)
Rest == Tail(queue)

\* takes the newest first
BadDequeue ==
    /\ left = {} /\ queue # <<>> /\ ~Full
    /\ step' = Last(queue) /\ queue' = Front(queue)
    /\ visited' = visited \cup {Last(queue).node}
    /\ left' = IF Last(queue).node \in visited \/ Last(queue).depth >= opts.maxDepth THEN {}
               ELSE Adjacent(Last(queue).node)
    /\ UNCHANGED <<question, nodes, edges, enqueued>>

\* An iteration of the outer loop, up to the inner one.
Dequeue ==
    /\ left = {} /\ queue # <<>> /\ ~Full
    /\ step' = Taken /\ queue' = Rest
    /\ visited' = visited \cup {Taken.node}
    /\ left' = IF Taken.node \in visited \/ Taken.depth >= opts.maxDepth THEN {} ELSE Adjacent(Taken.node)
    /\ UNCHANGED <<question, nodes, edges, enqueued>>

\* An edge is kept once (seenEdges).
Kept(e) == IF e \in ToSet(edges) THEN edges ELSE Append(edges, e)

\* The inner loop looks at a row, and passes over it,
LookAt(e) == e \in Foremost(left) /\ left' = left \ {e}

PassOver(e) ==
    /\ LookAt(e)
    /\ LET m == Other(e, step.node)
       IN  ~Known(m) \/ ~Admitted(m) \/ (m \notin enqueued /\ Full)
    /\ UNCHANGED <<question, nodes, edges, visited, enqueued, queue, step>>

\* loses all but the first edge to a neighbour (issue 1090)
BadRecord(e) ==
    /\ LookAt(e)
    /\ LET m == Other(e, step.node) IN Known(m) /\ Admitted(m) /\ m \in enqueued
    /\ UNCHANGED <<question, nodes, edges, visited, enqueued, queue, step>>

\* keeps it, when the neighbour was queued before,
Record(e) ==
    /\ LookAt(e)
    /\ LET m == Other(e, step.node) IN Known(m) /\ Admitted(m) /\ m \in enqueued
    /\ edges' = Kept(e)
    /\ UNCHANGED <<question, nodes, visited, enqueued, queue, step>>

\* the limit is looked at between two nodes only (issue 1087)
BadRoom == TRUE
Room == ~Full

\* or keeps it and queues the neighbour.
Enqueue(e) ==
    /\ LookAt(e)
    /\ LET m == Other(e, step.node) IN
       /\ Admitted(m) /\ m \notin enqueued /\ Room
       /\ enqueued' = enqueued \cup {m} /\ nodes' = nodes \cup {m}
       /\ queue' = Append(queue, [node |-> m, depth |-> step.depth + 1])
    /\ edges' = Kept(e)
    /\ UNCHANGED <<question, visited, step>>

Next == Dequeue \/ \E e \in left : PassOver(e) \/ Record(e) \/ Enqueue(e)

Spec == Init /\ [][Next]_vars

\* The answer is returned.
Done == left = {} /\ (queue = <<>> \/ Full)

-----------------------------------------------------------------------------
(* What the answer is.                                                       *)

TypeOK ==
    /\ table \in Tables /\ start \in Nodes /\ opts \in Asked
    /\ nodes \subseteq Nodes /\ visited \subseteq Nodes /\ enqueued \subseteq Nodes
    /\ edges \in Seq(table) /\ left \subseteq table
    /\ queue \in Seq([node : Nodes, depth : Nat]) /\ step \in [node : Nodes, depth : Nat]

\* m is reached from the start over at most k edges to nodes that are admitted.
Linked(n, m) == n = m \/ (Admitted(m) /\ \E e \in Adjacent(n) : Other(e, n) = m)
Within(m, k) ==
    \E p \in [0..k -> Nodes] : p[0] = start /\ p[k] = m /\ \A i \in 0..(k - 1) : Linked(p[i], p[i + 1])

\* The limit is never passed, though one node may have more neighbours than
\* there is room for (issue 1087); an edge is reported once, though a scan in
\* both directions meets it twice, and, when the start is to be reported, only
\* between nodes that are reported.
Bounded ==
    /\ Cardinality(nodes) <= opts.limit
    /\ \A i, j \in DOMAIN edges : edges[i] = edges[j] => i = j
    /\ opts.includeStart => \A e \in ToSet(edges) : e.source \in nodes /\ e.target \in nodes

\* What is reported lies within the depth; and while the limit is not reached,
\* all that lies within it is reported, with every edge, parallel ones too
\* (issue 1090), of a node that lies a step further in to one that is reported.
Exact ==
    /\ \A m \in nodes : Within(m, opts.maxDepth)
    /\ Done /\ ~Full =>
        /\ \A m \in Nodes \ {start} : Within(m, opts.maxDepth) => m \in nodes
        /\ \A n \in Nodes : opts.maxDepth > 0 /\ Within(n, opts.maxDepth - 1) =>
              \A e \in Adjacent(n) : Admitted(Other(e, n)) /\ Other(e, n) \in nodes => e \in ToSet(edges)

\* What the limit cuts off is never nearer than what was kept, whatever kinds of
\* edges come first in the sort and whatever order the rows of a node are in.
Nearest ==
    Done => \A x \in Nodes \ (nodes \cup {start}), m \in nodes, k \in 0..opts.maxDepth :
                Within(x, k) => Within(m, k)
=============================================================================
