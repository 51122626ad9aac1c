----------------------------- MODULE PathSearch -----------------------------
(* GraphTraverser.findPath, one iteration of its two loops at a time.  A      *)
(* target may wait in the queue several times: only what is taken out is      *)
(* marked as visited.  Both ends asked about are nodes.                       *)
EXTENDS GraphTable

VARIABLES
  goal,    \* the node to find
  paths,   \* the queue: of [node, path], a path the rows from the start to the node
  passed,  \* nodes taken out and expanded (visited)
  taken,   \* what was taken out last
  ahead,   \* its rows the inner loop has not come to yet
  found    \* the path of what was taken out last has been returned

pathVars == <<goal, paths, passed, taken, ahead, found>>

Outgoing(n) == {e \in table : e.source = n /\ OfKinds(e)}

PathInit ==
    /\ goal \in Nodes
    /\ paths = <<[node |-> start, path |-> <<>>]>> /\ taken = [node |-> start, path |-> <<>>]
    /\ passed = {} /\ ahead = {} /\ found = FALSE

\* queue.shift()
TakeOut == ahead = {} /\ ~found /\ paths # <<>> /\ taken' = Head(paths) /\ paths' = Tail(paths)

\* An iteration of the outer loop that returns,
Arrive ==
    /\ TakeOut /\ Head(paths).node = goal /\ found' = TRUE
    /\ UNCHANGED <<question, goal, passed, ahead>>

\* or goes on to the inner one, unless the node was visited before.
Expand ==
    /\ TakeOut /\ Head(paths).node # goal
    /\ passed' = passed \cup {Head(paths).node}
    /\ ahead' = IF Head(paths).node \in passed THEN {} ELSE Outgoing(Head(paths).node)
    /\ UNCHANGED <<question, goal, found>>

\* The inner loop passes over a row to a node that was visited,
Leave(e) ==
    /\ e.target \in passed /\ ahead' = ahead \ {e}
    /\ UNCHANGED <<question, goal, paths, passed, taken, found>>

\* the newest path is looked at first
BadExtend(e) ==
    /\ e.target \notin passed /\ ahead' = ahead \ {e}
    /\ paths' = <<[node |-> e.target, path |-> Append(taken.path, e)]>> \o paths
    /\ UNCHANGED <<question, goal, passed, taken, found>>

\* and queues the path over any other.
Extend(e) ==
    /\ e.target \notin passed /\ ahead' = ahead \ {e}
    /\ paths' = Append(paths, [node |-> e.target, path |-> Append(taken.path, e)])
    /\ UNCHANGED <<question, goal, passed, taken, found>>

PathNext == Arrive \/ Expand \/ \E e \in ahead : Leave(e) \/ Extend(e)

PathSpec == (table \in Tables /\ start \in Nodes /\ opts \in Asked /\ PathInit) /\ [][PathNext]_<<question, pathVars>>

-----------------------------------------------------------------------------
(* What the answer is.                                                       *)

\* The rows of p lead from the start to m.
Trail(p, m) ==
    /\ \A i \in DOMAIN p : p[i] \in table /\ OfKinds(p[i])
    /\ \A i, j \in DOMAIN p : j = i + 1 => p[i].target = p[j].source
    /\ IF p = <<>> THEN m = start ELSE p[1].source = start /\ p[Len(p)].target = m

\* Who is how far: a step follows a row, or waits.
Steps == {w \in Nodes \X Nodes : w[1] = w[2] \/ \E e \in Outgoing(w[1]) : e.target = w[2]}
Afar(m, k) == Joined(Steps, start, m, k)

\* The goal is cut off: a set of nodes no row leads out of holds the start and not it.
CutOff == \E S \in SUBSET Nodes : /\ start \in S /\ goal \notin S
                                  /\ \A n \in S : \A e \in Outgoing(n) : e.target \in S

\* The path findPath returns follows rows of the kinds asked for from the one
\* end to the other, and there is none with fewer rows, though what waits in the
\* queue may repeat a node; and null is returned only where there is no path.
PathShortest ==
    /\ found => Trail(taken.path, goal) /\ \A k \in 0..(Len(taken.path) - 1) : ~Afar(goal, k)
    /\ ahead = {} /\ paths = <<>> /\ ~found => CutOff
=============================================================================
