-------------------------- MODULE TraversalProofs --------------------------
(* traverseBFS answers as it should on every finite graph, for every limit,   *)
(* depth, direction and choice of kinds.                                      *)
EXTENDS Traversal, FiniteSetTheorems, SequenceTheorems, WellFoundedInduction, TLAPS

-----------------------------------------------------------------------------
(* The inductive invariant.                                                   *)

\* Who is how far, and the rows of each node, as values.
Reach == {w \in Nodes \X Nat : Within(w[1], w[2])}
Rows == [n \in Nodes |-> Adjacent(n)]

\* The queue holds what was put into it and not taken out, nobody twice; and what
\* is found is what was ever queued.
InQueue == {queue[i].node : i \in DOMAIN queue}
Queued ==
    /\ enqueued = visited \cup InQueue /\ visited \cap InQueue = {}
    /\ \A i, j \in DOMAIN queue : queue[i].node = queue[j].node => i = j
    /\ start \in enqueued
    /\ nodes = IF opts.includeStart THEN enqueued ELSE enqueued \ {start}
    /\ left # {} => step.node \in visited /\ left \subseteq Rows[step.node] /\ step.depth < opts.maxDepth

\* The queue is in the order of depth, and at most one level ahead of the node
\* in hand.
Levelled ==
    /\ \A i \in DOMAIN queue : /\ step.depth <= queue[i].depth /\ queue[i].depth <= step.depth + 1
                               /\ queue[i].depth <= opts.maxDepth
    /\ \A i, j \in DOMAIN queue : i <= j => queue[i].depth <= queue[j].depth
    /\ step.depth <= opts.maxDepth

\* The depth of a node in the queue is its distance from the start.
Measured ==
    /\ \A i \in DOMAIN queue : /\ <<queue[i].node, queue[i].depth>> \in Reach
                               /\ \A k \in Nat : k < queue[i].depth => <<queue[i].node, k>> \notin Reach
    /\ \A m \in visited : <<m, step.depth>> \in Reach

\* While there is room, the levels before that of the node in hand are complete,
\* and its own has been queued; a node taken out has its neighbours queued and
\* their edges recorded, but for the rows still to be looked at.
Complete ==
    ~Full =>
        /\ \A m \in Nodes : <<m, step.depth>> \in Reach => m \in enqueued
        /\ \A n \in visited : opts.maxDepth > 0 /\ <<n, opts.maxDepth - 1>> \in Reach =>
              \A e \in Rows[n] : Admitted(Other(e, n)) =>
                  \/ n = step.node /\ e \in left
                  \/ Other(e, n) \in enqueued /\ (Other(e, n) \in nodes => e \in ToSet(edges))

\* What is not queued is no nearer than what is.
Apart == \A x \in Nodes \ enqueued, m \in enqueued, k \in 0..opts.maxDepth : <<x, k>> \in Reach => <<m, k>> \in Reach

Limited ==
    /\ Cardinality(nodes) <= opts.limit
    /\ \A i, j \in DOMAIN edges : edges[i] = edges[j] => i = j
    /\ \A e \in ToSet(edges) : e.source \in enqueued /\ e.target \in enqueued

IInv == TypeOK /\ Queued /\ Levelled /\ Measured /\ Complete /\ Apart /\ Limited

-----------------------------------------------------------------------------
(* Numbers and their order.                                                   *)

Less == {p \in Nat \X Nat : p[1] < p[2]}

LEMMA InLess ==
  ASSUME NEW m \in Nat, NEW n \in Nat, m < n
  PROVE  <<m, n>> \in Less
<1>1. <<m, n>> \in Nat \X Nat
  OBVIOUS
<1>2. <<m, n>>[1] = m /\ <<m, n>>[2] = n
  OBVIOUS
<1> QED BY <1>1, <1>2 DEF Less

\* A set of natural numbers has a least member.
LEMMA Least ==
  ASSUME NEW S \in SUBSET Nat, S # {}
  PROVE  \E n \in S : \A m \in S : n <= m
<1>1. IsWellFoundedOn(Less, Nat)
  BY NatLessThanWellFounded DEF OpToRel, Less
<1>2. PICK n \in S : \A m \in S : ~(<<m, n>> \in Less)
  BY <1>1, WFMin, Zenon
<1>3. n \in Nat
  OBVIOUS
<1>4. ASSUME NEW m \in S
      PROVE  n <= m
  <2>1. m \in Nat
    OBVIOUS
  <2>2. ~(m < n)
    BY <1>2, <1>3, <2>1, InLess
  <2> QED BY <1>3, <2>1, <2>2
<1> QED BY <1>4

-----------------------------------------------------------------------------
(* Distances.                                                                 *)

LEMMA WithinNodes == ASSUME NEW m, NEW k \in Nat, Within(m, k) PROVE m \in Nodes
BY DEF Within

LEMMA WithinStart ==
  ASSUME start \in Nodes
  PROVE  Within(start, 0)
<1> DEFINE p == [i \in 0..0 |-> start]
<1>1. p \in [0..0 -> Nodes] /\ p[0] = start
  OBVIOUS
<1>2. \A i \in 0..(0 - 1) : Linked(p[i], p[i + 1])
  OBVIOUS
<1> QED BY <1>1, <1>2 DEF Within

LEMMA WithinZero ==
  ASSUME NEW m, Within(m, 0)
  PROVE  m = start
BY DEF Within

\* A walk goes on over a link,
LEMMA WithinStep ==
  ASSUME NEW n, NEW m \in Nodes, NEW k \in Nat, Within(n, k), Linked(n, m)
  PROVE  Within(m, k + 1)
<1>1. PICK p \in [0..k -> Nodes] : p[0] = start /\ p[k] = n /\ \A i \in 0..(k - 1) : Linked(p[i], p[i + 1])
  BY DEF Within
<1> DEFINE q == [i \in 0..(k + 1) |-> IF i <= k THEN p[i] ELSE m]
<1>2. q \in [0..(k + 1) -> Nodes] /\ q[0] = start /\ q[k + 1] = m
  BY <1>1
<1>3. ASSUME NEW i \in 0..((k + 1) - 1)
      PROVE  Linked(q[i], q[i + 1])
  <2>1. CASE i < k
    <3>1. i \in 0..(k - 1) /\ q[i] = p[i] /\ q[i + 1] = p[i + 1]
      BY <2>1
    <3> QED BY <3>1, <1>1
  <2>2. CASE i = k
    <3>1. q[i] = n /\ q[i + 1] = m
      BY <2>2, <1>1
    <3> QED BY <3>1
  <2> QED BY <2>1, <2>2
<1> HIDE DEF q
<1> QED BY <1>2, <1>3 DEF Within

\* or waits where it is;
LEMMA WithinMore ==
  ASSUME NEW m, NEW j \in Nat, NEW k \in Nat, j <= k, Within(m, j)
  PROVE  Within(m, k)
<1>1. PICK p \in [0..j -> Nodes] : p[0] = start /\ p[j] = m /\ \A i \in 0..(j - 1) : Linked(p[i], p[i + 1])
  BY DEF Within
<1> DEFINE q == [i \in 0..k |-> IF i <= j THEN p[i] ELSE m]
<1>2. q \in [0..k -> Nodes] /\ q[0] = start /\ q[k] = m
  BY <1>1
<1>3. ASSUME NEW i \in 0..(k - 1)
      PROVE  Linked(q[i], q[i + 1])
  <2>1. CASE i < j
    <3>1. i \in 0..(j - 1) /\ q[i] = p[i] /\ q[i + 1] = p[i + 1]
      BY <2>1
    <3> QED BY <3>1, <1>1
  <2>2. CASE i >= j
    <3>1. q[i] = m /\ q[i + 1] = m
      BY <2>2, <1>1
    <3> QED BY <3>1 DEF Linked
  <2> QED BY <2>1, <2>2
<1> HIDE DEF q
<1> QED BY <1>2, <1>3 DEF Within

\* and its last step is a link.
LEMMA WithinBack ==
  ASSUME NEW m, NEW k \in Nat, Within(m, k + 1)
  PROVE  \E n \in Nodes : Within(n, k) /\ Linked(n, m)
<1>1. PICK p \in [0..(k + 1) -> Nodes] :
        p[0] = start /\ p[k + 1] = m /\ \A i \in 0..((k + 1) - 1) : Linked(p[i], p[i + 1])
  BY DEF Within
<1> DEFINE q == [i \in 0..k |-> p[i]]
<1>2. q \in [0..k -> Nodes] /\ q[0] = start /\ q[k] = p[k]
  BY <1>1
<1>3. \A i \in 0..(k - 1) : Linked(q[i], q[i + 1])
  <2> SUFFICES ASSUME NEW i \in 0..(k - 1) PROVE Linked(q[i], q[i + 1])
    OBVIOUS
  <2>1. q[i] = p[i] /\ q[i + 1] = p[i + 1] /\ i \in 0..((k + 1) - 1)
    OBVIOUS
  <2> QED BY <2>1, <1>1
<1> HIDE DEF q
<1>4. Within(p[k], k)
  BY <1>2, <1>3 DEF Within
<1>5. Linked(p[k], m) /\ p[k] \in Nodes
  BY <1>1
<1> QED BY <1>4, <1>5

\* The same of the set of who is how far.
LEMMA InReach ==
  ASSUME NEW m \in Nodes, NEW k \in Nat
  PROVE  <<m, k>> \in Reach <=> Within(m, k)
<1>1. <<m, k>> \in Nodes \X Nat /\ <<m, k>>[1] = m /\ <<m, k>>[2] = k
  OBVIOUS
<1> QED BY <1>1, Zenon DEF Reach

LEMMA Reaches ==
  ASSUME start \in Nodes
  PROVE  /\ \A k \in Nat : <<start, k>> \in Reach
         /\ \A m \in Nodes : <<m, 0>> \in Reach => m = start
         /\ \A m \in Nodes, j, k \in Nat : j <= k /\ <<m, j>> \in Reach => <<m, k>> \in Reach
         /\ \A n, m \in Nodes, k \in Nat : <<n, k>> \in Reach /\ Linked(n, m) => <<m, k + 1>> \in Reach
         /\ \A m \in Nodes, k \in Nat : <<m, k + 1>> \in Reach => \E n \in Nodes : <<n, k>> \in Reach /\ Linked(n, m)
<1>1. \A k \in Nat : Within(start, k)
  BY WithinStart, WithinMore
<1>2. \A k \in Nat : <<start, k>> \in Reach
  BY <1>1, InReach
<1>3. \A m \in Nodes : <<m, 0>> \in Reach => m = start
  BY InReach, WithinZero
<1>4. \A m \in Nodes, j, k \in Nat : j <= k /\ <<m, j>> \in Reach => <<m, k>> \in Reach
  BY InReach, WithinMore
<1>5. \A n, m \in Nodes, k \in Nat : <<n, k>> \in Reach /\ Linked(n, m) => <<m, k + 1>> \in Reach
  <2>1. \A k \in Nat : k + 1 \in Nat
    OBVIOUS
  <2> QED BY <2>1, InReach, WithinStep
<1>6. \A m \in Nodes, k \in Nat : <<m, k + 1>> \in Reach => \E n \in Nodes : <<n, k>> \in Reach /\ Linked(n, m)
  <2>1. \A k \in Nat : k + 1 \in Nat
    OBVIOUS
  <2> QED BY <2>1, InReach, WithinBack
<1> QED BY <1>2, <1>3, <1>4, <1>5, <1>6

LEMMA InRows == ASSUME NEW n \in Nodes PROVE Rows[n] = Adjacent(n)
BY DEF Rows

\* The question stays the same, and so do the distances.
LEMMA SameQuestion ==
  ASSUME UNCHANGED question
  PROVE  /\ Reach' = Reach /\ Rows' = Rows
         /\ \A m : Admitted(m)' <=> Admitted(m)
<1>1. \A n : Adjacent(n)' = Adjacent(n)
  BY DEF question, Adjacent, OfKinds
<1>2. \A m : Admitted(m)' <=> Admitted(m)
  BY DEF question, Admitted
<1>3. \A n, m : Linked(n, m)' <=> Linked(n, m)
  BY <1>1, <1>2, Zenon DEF Linked
<1>4. start' = start
  BY DEF question
<1>5. \A m, k : Within(m, k)' <=> Within(m, k)
  BY <1>3, <1>4, Zenon DEF Within
<1>6. Reach' = Reach
  BY <1>5, Zenon DEF Reach
<1>7. Rows' = Rows
  BY <1>1, Zenon DEF Rows
<1> QED BY <1>2, <1>6, <1>7

-----------------------------------------------------------------------------
(* The first state.                                                           *)

LEMMA Options ==
  ASSUME TypeOK
  PROVE  /\ opts.maxDepth \in Nat /\ opts.limit \in Nat /\ opts.limit >= 1
         /\ opts.direction \in {"outgoing", "incoming", "both"}
         /\ start \in Nodes
BY GraphAssumption DEF TypeOK

\* A row joins the node it is adjacent to and the other one.
LEMMA Ends ==
  ASSUME TypeOK, NEW n \in Nodes, NEW e \in Rows[n]
  PROVE  /\ e \in table /\ Other(e, n) \in Nodes
         /\ (e.source = n /\ e.target = Other(e, n)) \/ (e.target = n /\ e.source = Other(e, n))
<1>1. e \in table /\ (e.source = n \/ e.target = n)
  BY InRows DEF Adjacent
<1>2. e.source \in Nodes /\ e.target \in Nodes
  BY <1>1, GraphAssumption DEF TypeOK
<1> QED BY <1>1, <1>2 DEF Other

LEMMA Finite ==
  ASSUME NEW S, S \subseteq Nodes
  PROVE  IsFiniteSet(S) /\ Cardinality(S) \in Nat
BY GraphAssumption, FS_Subset, FS_CardinalityType

LEMMA HeadAndTail ==
  ASSUME NEW S, NEW q \in Seq(S), q # <<>>
  PROVE  /\ Head(q) \in S /\ Head(q) = q[1] /\ 1 \in DOMAIN q /\ DOMAIN q = 1..Len(q) /\ Len(q) \in Nat
         /\ Tail(q) \in Seq(S) /\ DOMAIN Tail(q) = 1..(Len(q) - 1)
         /\ \A i \in DOMAIN Tail(q) : i + 1 \in DOMAIN q /\ i + 1 > 1 /\ Tail(q)[i] = q[i + 1]
OBVIOUS

LEMMA InitIInv == Init => IInv
<1> SUFFICES ASSUME Init PROVE IInv
  OBVIOUS
<1>1. /\ table \in Tables /\ start \in Nodes /\ opts \in Asked /\ edges = <<>> /\ visited = {}
      /\ enqueued = {start} /\ left = {} /\ nodes = IF opts.includeStart THEN {start} ELSE {}
  BY DEF Init
<1>2. queue = <<[node |-> start, depth |-> 0]>> /\ step = [node |-> start, depth |-> 0]
  BY DEF Init
<1>3. [node |-> start, depth |-> 0] \in [node : Nodes, depth : Nat]
  BY <1>1
<1>4. queue \in Seq([node : Nodes, depth : Nat]) /\ step \in [node : Nodes, depth : Nat]
  BY <1>2, <1>3
<1>5. DOMAIN queue = {1} /\ queue[1].node = start /\ queue[1].depth = 0 /\ step.node = start /\ step.depth = 0
  BY <1>2
<1>6. TypeOK
  BY <1>1, <1>4 DEF TypeOK
<1>7. opts.maxDepth \in Nat /\ opts.limit \in Nat /\ opts.limit >= 1
  BY <1>6, Options
<1>8. InQueue = {start}
  BY <1>5, Zenon DEF InQueue
<1>9. Queued
  BY <1>1, <1>5, <1>8 DEF Queued
<1>10. Levelled
  BY <1>5, <1>7 DEF Levelled
<1>11. Measured
  <2>1. <<start, 0>> \in Reach
    BY <1>1, Reaches
  <2> QED BY <1>1, <1>5, <2>1 DEF Measured
<1>12. Complete
  <2>1. \A m \in Nodes : <<m, 0>> \in Reach => m = start
    BY <1>1, Reaches
  <2> QED BY <1>1, <1>5, <2>1 DEF Complete
<1>13. Apart
  <2>1. \A k \in Nat : <<start, k>> \in Reach
    BY <1>1, Reaches
  <2> QED BY <1>1, <1>7, <2>1 DEF Apart
<1>14. Limited
  <2>1. Cardinality({start}) = 1 /\ Cardinality({}) = 0
    BY FS_EmptySet, FS_Singleton, Zenon
  <2>2. Cardinality(nodes) <= opts.limit
    BY <1>1, <1>7, <2>1
  <2>3. DOMAIN edges = {} /\ ToSet(edges) = {}
    BY <1>1 DEF ToSet
  <2> QED BY <2>2, <2>3 DEF Limited
<1> QED BY <1>6, <1>9, <1>10, <1>11, <1>12, <1>13, <1>14 DEF IInv

-----------------------------------------------------------------------------
(* The outer loop.                                                            *)

LEMMA DequeueIInv == IInv /\ Dequeue => IInv'
<1> SUFFICES ASSUME IInv, Dequeue PROVE IInv'
  OBVIOUS
<1> DEFINE R == [node : Nodes, depth : Nat]
<1>1. TypeOK /\ Queued /\ Levelled /\ Measured /\ Complete /\ Apart /\ Limited
  BY DEF IInv
<1>2. /\ left = {} /\ queue # <<>> /\ ~Full
      /\ step' = Head(queue) /\ queue' = Tail(queue) /\ visited' = visited \cup {Head(queue).node}
      /\ UNCHANGED <<question, nodes, edges, enqueued>>
  BY DEF Dequeue, Taken, Rest
<1>3. queue \in Seq(R) /\ step \in R /\ opts.maxDepth \in Nat /\ start \in Nodes
  BY <1>1, Options DEF TypeOK
<1> DEFINE h == Head(queue)
<1>4. h \in R /\ h = queue[1] /\ 1 \in DOMAIN queue /\ DOMAIN queue = 1..Len(queue) /\ Len(queue) \in Nat
  <2> HIDE DEF R
  <2> QED BY <1>2, <1>3, HeadAndTail
<1>5. h.node \in Nodes /\ h.depth \in Nat
  BY <1>4
<1>6. /\ Tail(queue) \in Seq(R) /\ DOMAIN Tail(queue) = 1..(Len(queue) - 1)
      /\ \A i \in DOMAIN Tail(queue) : i + 1 \in DOMAIN queue /\ i + 1 > 1 /\ Tail(queue)[i] = queue[i + 1]
  <2> HIDE DEF R
  <2> QED BY <1>2, <1>3, HeadAndTail
<1>7. h.node \notin visited
  BY <1>1, <1>4 DEF Queued, InQueue
<1>8. left' = IF h.depth >= opts.maxDepth THEN {} ELSE Rows[h.node]
  BY <1>5, <1>7, InRows DEF Dequeue, Taken
<1> HIDE DEF h, R
<1>9. step' = h /\ visited' = visited \cup {h.node} /\ queue' = Tail(queue)
  BY <1>2 DEF h
<1>10. opts' = opts /\ start' = start /\ table' = table
  BY <1>2 DEF question
<1>11. TypeOK'
  <2>1. left' \subseteq table
    BY <1>5, <1>8, InRows DEF Adjacent
  <2>2. step' \in R /\ queue' \in Seq(R)
    BY <1>4, <1>6, <1>9
  <2>3. visited' \subseteq Nodes
    BY <1>1, <1>5, <1>9 DEF TypeOK
  <2> QED BY <1>1, <1>2, <1>10, <2>1, <2>2, <2>3 DEF TypeOK, R
<1>12. Queued'
  <2>1. InQueue = {h.node} \cup InQueue'
    <3>1. \A i \in DOMAIN queue : i = 1 \/ (i - 1 \in DOMAIN Tail(queue) /\ Tail(queue)[i - 1] = queue[i])
      BY <1>4, <1>6
    <3>2. \A i \in DOMAIN queue : queue[i].node = h.node \/ queue[i].node \in {Tail(queue)[j].node : j \in DOMAIN Tail(queue)}
      BY <3>1, <1>4
    <3>3. \A j \in DOMAIN Tail(queue) : Tail(queue)[j].node \in InQueue
      BY <1>6 DEF InQueue
    <3>4. InQueue' = {Tail(queue)[j].node : j \in DOMAIN Tail(queue)}
      BY <1>9 DEF InQueue
    <3>5. h.node \in InQueue
      BY <1>4 DEF InQueue
    <3> QED BY <3>2, <3>3, <3>4, <3>5 DEF InQueue
  <2>2. h.node \notin InQueue'
    <3>1. \A i \in DOMAIN Tail(queue) : Tail(queue)[i].node # h.node
      BY <1>1, <1>4, <1>6 DEF Queued
    <3> QED BY <3>1, <1>9 DEF InQueue
  <2>3. enqueued' = visited' \cup InQueue' /\ visited' \cap InQueue' = {}
    BY <1>1, <1>2, <1>9, <2>1, <2>2 DEF Queued
  <2>4. \A i, j \in DOMAIN queue' : queue'[i].node = queue'[j].node => i = j
    <3> SUFFICES ASSUME NEW i \in DOMAIN Tail(queue), NEW j \in DOMAIN Tail(queue),
                        Tail(queue)[i].node = Tail(queue)[j].node
                 PROVE  i = j
      BY <1>9
    <3>1. i + 1 = j + 1
      BY <1>1, <1>6 DEF Queued
    <3> QED BY <3>1, <1>6
  <2>5. left' # {} => step'.node \in visited' /\ left' \subseteq Rows'[step'.node] /\ step'.depth < opts'.maxDepth
    BY <1>2, <1>3, <1>5, <1>8, <1>9, <1>10, SameQuestion
  <2> QED BY <1>1, <1>2, <1>10, <2>3, <2>4, <2>5 DEF Queued
<1>13. Levelled'
  <2>1. step.depth \in Nat /\ step.depth <= h.depth /\ h.depth <= step.depth + 1 /\ h.depth <= opts.maxDepth
    BY <1>1, <1>3, <1>4 DEF Levelled, R
  <2>2. \A i \in DOMAIN Tail(queue) : /\ Tail(queue)[i].depth \in Nat /\ h.depth <= Tail(queue)[i].depth
                                      /\ Tail(queue)[i].depth <= step.depth + 1
                                      /\ Tail(queue)[i].depth <= opts.maxDepth
    <3> SUFFICES ASSUME NEW i \in DOMAIN Tail(queue)
                 PROVE  /\ queue[i + 1].depth \in Nat /\ queue[1].depth <= queue[i + 1].depth
                        /\ queue[i + 1].depth <= step.depth + 1 /\ queue[i + 1].depth <= opts.maxDepth
      BY <1>4, <1>6
    <3>1. i + 1 \in DOMAIN queue /\ 1 <= i + 1
      BY <1>6
    <3>2. queue[i + 1] \in R
      BY <3>1, <1>3
    <3> QED BY <3>1, <3>2, <1>1, <1>4 DEF Levelled, R
  <2>3. \A i, j \in DOMAIN Tail(queue) : i <= j => Tail(queue)[i].depth <= Tail(queue)[j].depth
    <3> SUFFICES ASSUME NEW i \in DOMAIN Tail(queue), NEW j \in DOMAIN Tail(queue), i <= j
                 PROVE  queue[i + 1].depth <= queue[j + 1].depth
      BY <1>6
    <3>1. i + 1 \in DOMAIN queue /\ j + 1 \in DOMAIN queue /\ i + 1 <= j + 1
      BY <1>6
    <3> QED BY <3>1, <1>1 DEF Levelled
  <2>4. \A i \in DOMAIN Tail(queue) : Tail(queue)[i].depth <= h.depth + 1
    BY <2>1, <2>2, <1>5
  <2> QED BY <1>9, <1>10, <2>1, <2>2, <2>3, <2>4 DEF Levelled
<1>14. <<h.node, h.depth>> \in Reach /\ \A k \in Nat : k < h.depth => <<h.node, k>> \notin Reach
  BY <1>1, <1>4 DEF Measured
<1>15. step.depth \in Nat /\ step.depth <= h.depth /\ h.depth <= step.depth + 1
  BY <1>1, <1>3, <1>4 DEF Levelled, R
<1>16. Measured'
  <2>1. \A i \in DOMAIN Tail(queue) : /\ <<Tail(queue)[i].node, Tail(queue)[i].depth>> \in Reach
                                      /\ \A k \in Nat : k < Tail(queue)[i].depth => <<Tail(queue)[i].node, k>> \notin Reach
    BY <1>1, <1>6 DEF Measured
  <2>2. \A m \in visited' : <<m, h.depth>> \in Reach
    BY <1>1, <1>3, <1>5, <1>9, <1>14, <1>15, Reaches DEF Measured, TypeOK
  <2>3. UNCHANGED question
    BY <1>2
  <2>4. \A i \in DOMAIN queue' : /\ <<queue'[i].node, queue'[i].depth>> \in Reach'
                                 /\ \A k \in Nat : k < queue'[i].depth => <<queue'[i].node, k>> \notin Reach'
    BY <1>9, <2>1, <2>3, SameQuestion
  <2>5. \A m \in visited' : <<m, step'.depth>> \in Reach'
    BY <1>9, <2>2, <2>3, SameQuestion
  <2> QED BY <2>4, <2>5 DEF Measured
<1>17. Complete'
  <2>1. ~Full' /\ UNCHANGED question
    BY <1>2, <1>10 DEF Full
  <2>2. h.depth <= opts.maxDepth
    BY <1>1, <1>4 DEF Levelled
  <2>3. ASSUME NEW m \in Nodes, <<m, h.depth>> \in Reach
        PROVE  m \in enqueued
    <3>1. CASE h.depth = step.depth
      BY <3>1, <2>3, <1>1, <1>2 DEF Complete
    <3>2. CASE h.depth = step.depth + 1
      <4>1. PICK n \in Nodes : <<n, step.depth>> \in Reach /\ Linked(n, m)
        BY <3>2, <2>3, <1>3, <1>15, Reaches
      <4>2. n \in enqueued
        BY <4>1, <1>1, <1>2 DEF Complete
      <4>3. n \notin InQueue
        <5>1. ASSUME NEW i \in DOMAIN queue, queue[i].node = n
              PROVE  FALSE
          <6>1. queue[i] \in R /\ queue[1].depth <= queue[i].depth
            BY <1>1, <1>3, <1>4 DEF Levelled
          <6>2. step.depth < queue[i].depth
            BY <6>1, <3>2, <1>4, <1>15 DEF R
          <6> QED BY <6>2, <5>1, <4>1, <1>1, <1>15 DEF Measured
        <5> QED BY <5>1 DEF InQueue
      <4>4. n \in visited
        BY <4>2, <4>3, <1>1 DEF Queued
      <4>5. CASE n = m
        BY <4>5, <4>2
      <4>6. CASE n # m
        <5>1. PICK e \in Rows[n] : Other(e, n) = m /\ Admitted(m)
          BY <4>1, <4>6, InRows DEF Linked
        <5>2. opts.maxDepth > 0 /\ opts.maxDepth - 1 \in Nat /\ step.depth <= opts.maxDepth - 1
          BY <1>3, <1>15, <2>2, <3>2
        <5>3. <<n, opts.maxDepth - 1>> \in Reach
          BY <4>1, <5>2, <1>3, <1>15, Reaches
        <5> QED BY <4>4, <5>1, <5>2, <5>3, <1>1, <1>2 DEF Complete
      <4> QED BY <4>5, <4>6
    <3> QED BY <3>1, <3>2, <1>5, <1>15
  <2>4. ASSUME NEW n \in visited', opts.maxDepth > 0, <<n, opts.maxDepth - 1>> \in Reach, NEW e \in Rows[n],
               Admitted(Other(e, n))
        PROVE  \/ n = h.node /\ e \in left'
               \/ Other(e, n) \in enqueued /\ (Other(e, n) \in nodes => e \in ToSet(edges))
    <3>1. CASE n \in visited
      BY <3>1, <2>4, <1>1, <1>2 DEF Complete
    <3>2. CASE n = h.node
      <4>1. opts.maxDepth - 1 \in Nat
        BY <2>4, <1>3
      <4>2. ~(h.depth >= opts.maxDepth)
        BY <3>2, <2>4, <4>1, <1>3, <1>5, <1>14
      <4> QED BY <3>2, <4>2, <2>4, <1>8
    <3> QED BY <3>1, <3>2, <1>9
  <2>5. \A m \in Nodes : <<m, step'.depth>> \in Reach' => m \in enqueued'
    BY <2>1, <2>3, <1>2, <1>9, SameQuestion
  <2>6. \A n \in visited' : opts'.maxDepth > 0 /\ <<n, opts'.maxDepth - 1>> \in Reach' =>
              \A e \in Rows'[n] : Admitted(Other(e, n))' =>
                  \/ n = step'.node /\ e \in left'
                  \/ Other(e, n) \in enqueued' /\ (Other(e, n) \in nodes' => e \in ToSet(edges'))
    BY <2>1, <2>4, <1>2, <1>9, <1>10, SameQuestion
  <2> QED BY <2>5, <2>6 DEF Complete, Other
<1>18. Apart'
  BY <1>1, <1>2, <1>10, SameQuestion DEF Apart
<1>19. Limited'
  BY <1>1, <1>2, <1>10 DEF Limited
<1> QED BY <1>11, <1>12, <1>13, <1>16, <1>17, <1>18, <1>19 DEF IInv

-----------------------------------------------------------------------------
(* The inner loop.                                                            *)

LEMMA KeptOnce ==
  ASSUME NEW S, edges \in Seq(S), NEW e \in S, \A i, j \in DOMAIN edges : edges[i] = edges[j] => i = j
  PROVE  /\ Kept(e) \in Seq(S) /\ ToSet(Kept(e)) = ToSet(edges) \cup {e}
         /\ \A i, j \in DOMAIN Kept(e) : Kept(e)[i] = Kept(e)[j] => i = j
<1>1. CASE e \in ToSet(edges)
  <2>1. Kept(e) = edges
    BY <1>1 DEF Kept
  <2> QED BY <2>1, <1>1
<1>2. CASE e \notin ToSet(edges)
  <2>1. Kept(e) = Append(edges, e)
    BY <1>2 DEF Kept
  <2> DEFINE q == Append(edges, e)  n == Len(edges)
  <2>2. /\ q \in Seq(S) /\ n \in Nat /\ DOMAIN edges = 1..n /\ DOMAIN q = 1..(n + 1)
        /\ q[n + 1] = e /\ \A i \in 1..n : q[i] = edges[i]
    OBVIOUS
  <2>3. \A i \in 1..n : edges[i] # e
    BY <1>2, <2>2 DEF ToSet
  <2> HIDE DEF q, n
  <2>4. \A i, j \in 1..(n + 1) : q[i] = q[j] => i = j
    <3> SUFFICES ASSUME NEW i \in 1..(n + 1), NEW j \in 1..(n + 1), q[i] = q[j] PROVE i = j
      OBVIOUS
    <3>1. CASE i = n + 1 /\ j = n + 1
      BY <3>1
    <3>2. CASE i = n + 1 /\ j # n + 1
      <4>1. j \in 1..n
        BY <3>2, <2>2
      <4> QED BY <4>1, <3>2, <2>2, <2>3
    <3>3. CASE i # n + 1 /\ j = n + 1
      <4>1. i \in 1..n
        BY <3>3, <2>2
      <4> QED BY <4>1, <3>3, <2>2, <2>3
    <3>4. CASE i # n + 1 /\ j # n + 1
      <4>1. i \in 1..n /\ j \in 1..n
        BY <3>4, <2>2
      <4>2. edges[i] = edges[j]
        BY <4>1, <2>2
      <4> QED BY <4>1, <4>2, <2>2
    <3> QED BY <3>1, <3>2, <3>3, <3>4
  <2>5. ToSet(q) = ToSet(edges) \cup {e}
    <3>1. \A x \in ToSet(q) : x \in ToSet(edges) \cup {e}
      <4> SUFFICES ASSUME NEW i \in 1..(n + 1) PROVE q[i] \in ToSet(edges) \cup {e}
        BY <2>2 DEF ToSet
      <4>1. CASE i = n + 1
        BY <4>1, <2>2
      <4>2. CASE i # n + 1
        <5>1. i \in 1..n
          BY <4>2, <2>2
        <5> QED BY <5>1, <2>2 DEF ToSet
      <4> QED BY <4>1, <4>2
    <3>2. \A i \in 1..n : edges[i] \in ToSet(q)
      <4> SUFFICES ASSUME NEW i \in 1..n PROVE edges[i] \in ToSet(q)
        OBVIOUS
      <4>1. i \in 1..(n + 1) /\ q[i] = edges[i]
        BY <2>2
      <4> QED BY <4>1, <2>2 DEF ToSet
    <3>3. e \in ToSet(q)
      <4>1. n + 1 \in 1..(n + 1)
        BY <2>2
      <4> QED BY <4>1, <2>2 DEF ToSet
    <3>4. \A x \in ToSet(edges) : x \in ToSet(q)
      BY <3>2, <2>2 DEF ToSet
    <3> QED BY <3>1, <3>3, <3>4
  <2> QED BY <2>1, <2>2, <2>4, <2>5 DEF q
<1> QED BY <1>1, <1>2

\* What the inner loop has in hand.
LEMMA InHand ==
  ASSUME IInv, NEW e \in left
  PROVE  /\ step.node \in Nodes /\ step.node \in visited /\ step.node \in enqueued /\ e \in Rows[step.node] /\ e \in table
         /\ Other(e, step.node) \in Nodes
         /\ (e.source = step.node /\ e.target = Other(e, step.node)) \/ (e.target = step.node /\ e.source = Other(e, step.node))
         /\ step.depth \in Nat /\ step.depth < opts.maxDepth /\ opts.maxDepth \in Nat /\ start \in Nodes
         /\ opts.limit \in Nat /\ edges \in Seq(table)
         /\ \A x \in Nodes \cup enqueued : x \in Nodes
<1>1. TypeOK /\ Queued
  BY DEF IInv
<1>2. step.node \in visited /\ e \in Rows[step.node] /\ step.depth < opts.maxDepth
  BY <1>1 DEF Queued
<1>3. step.node \in Nodes /\ step.node \in enqueued /\ step.depth \in Nat
  BY <1>1, <1>2 DEF TypeOK, Queued
<1>4. /\ e \in table /\ Other(e, step.node) \in Nodes
      /\ (e.source = step.node /\ e.target = Other(e, step.node)) \/ (e.target = step.node /\ e.source = Other(e, step.node))
  BY <1>1, <1>2, <1>3, Ends
<1>5. opts.maxDepth \in Nat /\ opts.limit \in Nat /\ start \in Nodes
  BY <1>1, Options
<1> QED BY <1>1, <1>2, <1>3, <1>4, <1>5 DEF TypeOK

\* A row that is passed over or recorded leaves nodes and queue alone.
LEMMA LookIInv ==
  ASSUME IInv, NEW e \in left, LookAt(e),
         UNCHANGED <<question, nodes, visited, enqueued, queue, step>>,
         edges' \in {edges, Kept(e)},
         ~Full /\ Admitted(Other(e, step.node)) =>
            /\ Other(e, step.node) \in enqueued
            /\ Other(e, step.node) \in nodes => edges' = Kept(e),
         edges' = Kept(e) => Other(e, step.node) \in enqueued
  PROVE  IInv'
<1> DEFINE m == Other(e, step.node)
<1>1. TypeOK /\ Queued /\ Levelled /\ Measured /\ Complete /\ Apart /\ Limited
  BY DEF IInv
<1>2. left' = left \ {e} /\ opts' = opts /\ start' = start /\ table' = table
  BY DEF LookAt, question
<1>3. Reach' = Reach /\ Rows' = Rows /\ \A x : Admitted(x)' <=> Admitted(x)
  BY SameQuestion
<1>4. /\ edges' \in Seq(table) /\ ToSet(edges) \subseteq ToSet(edges') /\ ToSet(edges') \subseteq ToSet(edges) \cup {e}
      /\ edges' = Kept(e) => e \in ToSet(edges')
      /\ \A i, j \in DOMAIN edges' : edges'[i] = edges'[j] => i = j
  <2>1. \A i, j \in DOMAIN edges : edges[i] = edges[j] => i = j
    BY <1>1 DEF Limited
  <2>2. edges \in Seq(table) /\ e \in table
    BY InHand
  <2>3. /\ Kept(e) \in Seq(table) /\ ToSet(Kept(e)) = ToSet(edges) \cup {e}
        /\ \A i, j \in DOMAIN Kept(e) : Kept(e)[i] = Kept(e)[j] => i = j
    BY <2>1, <2>2, KeptOnce
  <2>4. CASE edges' = Kept(e)
    BY <2>3, <2>4
  <2>5. CASE edges' = edges /\ edges' # Kept(e)
    BY <2>1, <2>2, <2>5
  <2> QED BY <2>4, <2>5
<1>5. TypeOK'
  BY <1>1, <1>2, <1>4 DEF TypeOK
<1>6. InQueue' = InQueue
  BY DEF InQueue
<1>7. Queued'
  BY <1>1, <1>2, <1>3, <1>6 DEF Queued
<1>8. Levelled' /\ Measured' /\ Apart'
  BY <1>1, <1>2, <1>3 DEF Levelled, Measured, Apart
<1>9. Complete'
  <2> SUFFICES ASSUME ~Full' PROVE Complete'
    BY DEF Complete
  <2>1. ~Full
    BY <1>2 DEF Full
  <2>2. ASSUME NEW n \in visited, opts.maxDepth > 0, <<n, opts.maxDepth - 1>> \in Reach, NEW d \in Rows[n],
               Admitted(Other(d, n))
        PROVE  \/ n = step.node /\ d \in left'
               \/ Other(d, n) \in enqueued /\ (Other(d, n) \in nodes => d \in ToSet(edges'))
    <3>1. \/ n = step.node /\ d \in left
          \/ Other(d, n) \in enqueued /\ (Other(d, n) \in nodes => d \in ToSet(edges))
      BY <2>1, <2>2, <1>1 DEF Complete
    <3>2. CASE n = step.node /\ d = e
      BY <3>2, <2>1, <2>2, <1>4
    <3>3. CASE ~(n = step.node /\ d = e)
      BY <3>1, <3>3, <1>2, <1>4
    <3> QED BY <3>2, <3>3
  <2>3. \A x \in Nodes : <<x, step.depth>> \in Reach => x \in enqueued
    BY <2>1, <1>1 DEF Complete
  <2> QED BY <1>2, <1>3, <2>2, <2>3 DEF Complete, Other
<1>10. Limited'
  <2>1. \A d \in ToSet(edges') : d.source \in enqueued /\ d.target \in enqueued
    <3> SUFFICES ASSUME NEW d \in ToSet(edges') PROVE d.source \in enqueued /\ d.target \in enqueued
      OBVIOUS
    <3>1. CASE d \in ToSet(edges)
      BY <3>1, <1>1 DEF Limited
    <3>2. CASE d \notin ToSet(edges)
      <4>1. d = e /\ edges' = Kept(e)
        BY <3>2, <1>4
      <4> QED BY <4>1, InHand
    <3> QED BY <3>1, <3>2
  <2> QED BY <1>1, <1>2, <1>4, <2>1 DEF Limited
<1> QED BY <1>5, <1>7, <1>8, <1>9, <1>10 DEF IInv

LEMMA PassOverIInv == ASSUME NEW e \in left PROVE IInv /\ PassOver(e) => IInv'
<1> SUFFICES ASSUME IInv, PassOver(e) PROVE IInv'
  OBVIOUS
<1>1. LookAt(e) /\ UNCHANGED <<question, nodes, visited, enqueued, queue, step>> /\ edges' = edges
  BY DEF PassOver
<1>2. ~Full /\ Admitted(Other(e, step.node)) => Other(e, step.node) \in enqueued /\ Other(e, step.node) \notin nodes
  BY DEF PassOver, Known
<1>3. edges' = Kept(e) => Other(e, step.node) \in enqueued
  <2>1. SUFFICES ASSUME edges = Kept(e) PROVE Other(e, step.node) \in enqueued
    BY <1>1
  <2>2. edges \in Seq(table) /\ Limited
    BY DEF IInv, TypeOK
  <2>3. e \in ToSet(edges)
    <3>1. e \in table
      BY InHand
    <3> QED BY <2>1, <2>2, <3>1, KeptOnce DEF Limited
  <2> QED BY <2>2, <2>3, InHand DEF Limited
<1> QED BY <1>1, <1>2, <1>3, LookIInv

LEMMA RecordIInv == ASSUME NEW e \in left PROVE IInv /\ Record(e) => IInv'
BY LookIInv DEF Record

LEMMA EnqueueIInv == ASSUME NEW e \in left PROVE IInv /\ Enqueue(e) => IInv'
<1> SUFFICES ASSUME IInv, Enqueue(e) PROVE IInv'
  OBVIOUS
<1> DEFINE m == Other(e, step.node)
           R == [node : Nodes, depth : Nat]
           r == [node |-> m, depth |-> step.depth + 1]
           n == Len(queue)
<1>1. TypeOK /\ Queued /\ Levelled /\ Measured /\ Complete /\ Apart /\ Limited
  BY DEF IInv
<1>2. /\ left' = left \ {e} /\ Admitted(m) /\ m \notin enqueued /\ ~Full
      /\ enqueued' = enqueued \cup {m} /\ nodes' = nodes \cup {m} /\ edges' = Kept(e) /\ queue' = Append(queue, r)
      /\ UNCHANGED question /\ visited' = visited /\ step' = step
  BY DEF Enqueue, LookAt, Room
<1>3. opts' = opts /\ start' = start /\ table' = table
  BY <1>2 DEF question
<1>4. Reach' = Reach /\ Rows' = Rows /\ \A x : Admitted(x)' <=> Admitted(x)
  BY <1>2, SameQuestion
<1>5. /\ step.node \in Nodes /\ step.node \in visited /\ step.node \in enqueued /\ e \in Rows[step.node] /\ e \in table
      /\ m \in Nodes
      /\ (e.source = step.node /\ e.target = m) \/ (e.target = step.node /\ e.source = m)
      /\ step.depth \in Nat /\ step.depth < opts.maxDepth /\ opts.maxDepth \in Nat /\ start \in Nodes
      /\ opts.limit \in Nat /\ edges \in Seq(table)
  BY InHand
<1>6. /\ Kept(e) \in Seq(table) /\ ToSet(Kept(e)) = ToSet(edges) \cup {e}
      /\ \A i, j \in DOMAIN Kept(e) : Kept(e)[i] = Kept(e)[j] => i = j
  BY <1>1, <1>5, KeptOnce DEF Limited
<1>7. r \in R /\ r.node = m /\ r.depth = step.depth + 1
  <2> HIDE DEF m
  <2> QED BY <1>5
<1>8. queue \in Seq(R)
  BY <1>1 DEF TypeOK
<1> HIDE DEF R, m, r
<1>9. /\ queue' \in Seq(R) /\ n \in Nat /\ DOMAIN queue = 1..n /\ DOMAIN queue' = 1..(n + 1)
      /\ queue'[n + 1] = r /\ \A i \in 1..n : queue'[i] = queue[i]
  BY <1>2, <1>7, <1>8
<1> HIDE DEF n
<1>10. \A i \in 1..(n + 1) : i = n + 1 \/ i \in 1..n
  BY <1>9
<1>11. TypeOK'
  <2>1. nodes' \subseteq Nodes /\ enqueued' \subseteq Nodes /\ left' \subseteq table
    BY <1>1, <1>2, <1>5 DEF TypeOK
  <2>2. step' \in R
    BY <1>1, <1>2 DEF TypeOK, R
  <2> QED BY <1>1, <1>2, <1>3, <1>6, <1>9, <2>1, <2>2 DEF TypeOK, R
<1>12. InQueue' = InQueue \cup {m}
  <2>1. \A i \in 1..n : queue'[i].node \in InQueue /\ queue[i].node = queue'[i].node /\ i \in 1..(n + 1)
    BY <1>9 DEF InQueue
  <2>2. n + 1 \in 1..(n + 1) /\ queue'[n + 1].node = m
    BY <1>7, <1>9
  <2> QED BY <1>9, <1>10, <2>1, <2>2 DEF InQueue
<1>13. Queued'
  <2>1. enqueued' = visited' \cup InQueue' /\ visited' \cap InQueue' = {}
    BY <1>1, <1>2, <1>12 DEF Queued
  <2>2. \A i, j \in DOMAIN queue' : queue'[i].node = queue'[j].node => i = j
    <3> SUFFICES ASSUME NEW i \in 1..(n + 1), NEW j \in 1..(n + 1), queue'[i].node = queue'[j].node
                 PROVE  i = j
      BY <1>9
    <3>1. \A k \in 1..n : queue'[k].node # m
      BY <1>1, <1>2, <1>9 DEF Queued, InQueue
    <3>2. CASE i = n + 1
      BY <3>1, <3>2, <1>7, <1>9, <1>10
    <3>3. CASE i \in 1..n
      <4>1. j \in 1..n
        BY <3>1, <3>3, <1>7, <1>9, <1>10
      <4> QED BY <4>1, <3>3, <1>1, <1>9 DEF Queued
    <3> QED BY <3>2, <3>3, <1>10
  <2>3. nodes' = IF opts'.includeStart THEN enqueued' ELSE enqueued' \ {start'}
    BY <1>1, <1>2, <1>3 DEF Queued
  <2> QED BY <1>1, <1>2, <1>3, <1>4, <2>1, <2>2, <2>3 DEF Queued
<1>14. Levelled'
  <2>1. \A i \in 1..n : queue[i].depth \in Nat /\ step.depth <= queue[i].depth /\ queue[i].depth <= step.depth + 1
                        /\ queue[i].depth <= opts.maxDepth
    <3>1. \A i \in 1..n : queue[i] \in R
      BY <1>8, <1>9
    <3> QED BY <3>1, <1>1, <1>9 DEF Levelled, R
  <2>2. \A i \in 1..(n + 1) : /\ step.depth <= queue'[i].depth /\ queue'[i].depth <= step.depth + 1
                              /\ queue'[i].depth <= opts.maxDepth
    BY <2>1, <1>5, <1>7, <1>9, <1>10
  <2>3. \A i, j \in 1..(n + 1) : i <= j => queue'[i].depth <= queue'[j].depth
    <3> SUFFICES ASSUME NEW i \in 1..(n + 1), NEW j \in 1..(n + 1), i <= j
                 PROVE  queue'[i].depth <= queue'[j].depth
      OBVIOUS
    <3>1. CASE j = n + 1
      BY <3>1, <2>2, <1>7, <1>9
    <3>2. CASE j \in 1..n
      <4>1. i \in 1..n
        BY <3>2, <1>9
      <4> QED BY <4>1, <3>2, <1>1, <1>9 DEF Levelled
    <3> QED BY <3>1, <3>2, <1>10
  <2> QED BY <1>1, <1>2, <1>3, <1>9, <2>2, <2>3 DEF Levelled
<1>15. <<m, step.depth + 1>> \in Reach
  <2>1. Linked(step.node, m)
    BY <1>2, <1>5, InRows DEF Linked, m
  <2>2. <<step.node, step.depth>> \in Reach
    BY <1>1, <1>5 DEF Measured
  <2>3. \A x, y \in Nodes, k \in Nat : <<x, k>> \in Reach /\ Linked(x, y) => <<y, k + 1>> \in Reach
    BY <1>5, Reaches
  <2> QED BY <2>1, <2>2, <2>3, <1>5
<1>16. \A x \in Nodes, k \in Nat : k < step.depth + 1 /\ x \notin enqueued => <<x, k>> \notin Reach
  <2> SUFFICES ASSUME NEW x \in Nodes, NEW k \in Nat, k < step.depth + 1, <<x, k>> \in Reach
               PROVE  x \in enqueued
    OBVIOUS
  <2>1. k <= step.depth
    BY <1>5
  <2>2. <<x, step.depth>> \in Reach
    BY <2>1, <1>5, Reaches
  <2> QED BY <2>2, <1>1, <1>2 DEF Complete
<1>17. Measured'
  <2>1. ASSUME NEW i \in 1..(n + 1)
        PROVE  /\ <<queue'[i].node, queue'[i].depth>> \in Reach
               /\ \A k \in Nat : k < queue'[i].depth => <<queue'[i].node, k>> \notin Reach
    <3>1. CASE i = n + 1
      <4>1. queue'[i].node = m /\ queue'[i].depth = step.depth + 1
        BY <3>1, <1>7, <1>9
      <4>2. \A k \in Nat : k < step.depth + 1 => <<m, k>> \notin Reach
        BY <1>2, <1>5, <1>16
      <4> QED BY <4>1, <4>2, <1>15
    <3>2. CASE i \in 1..n
      BY <3>2, <1>1, <1>9 DEF Measured
    <3> QED BY <3>1, <3>2, <1>10
  <2> QED BY <1>1, <1>2, <1>4, <1>9, <2>1 DEF Measured
<1>18. Complete'
  <2>1. ASSUME NEW x \in visited, opts.maxDepth > 0, <<x, opts.maxDepth - 1>> \in Reach, NEW d \in Rows[x],
               Admitted(Other(d, x))
        PROVE  \/ x = step.node /\ d \in left'
               \/ Other(d, x) \in enqueued' /\ (Other(d, x) \in nodes' => d \in ToSet(edges'))
    <3>1. \/ x = step.node /\ d \in left
          \/ Other(d, x) \in enqueued /\ (Other(d, x) \in nodes => d \in ToSet(edges))
      BY <2>1, <1>1, <1>2 DEF Complete
    <3>2. CASE x = step.node /\ d = e
      <4>1. Other(d, x) = m
        BY <3>2 DEF m
      <4> QED BY <4>1, <3>2, <1>2, <1>6
    <3>3. CASE ~(x = step.node /\ d = e)
      BY <3>1, <3>3, <1>2, <1>6
    <3> QED BY <3>2, <3>3
  <2>2. \A x \in Nodes : <<x, step.depth>> \in Reach => x \in enqueued'
    BY <1>1, <1>2 DEF Complete
  <2> QED BY <1>2, <1>3, <1>4, <2>1, <2>2 DEF Complete, Other
<1>19. Apart'
  <2> SUFFICES ASSUME NEW x \in Nodes \ enqueued', NEW y \in enqueued', NEW k \in 0..opts.maxDepth, <<x, k>> \in Reach
               PROVE  <<y, k>> \in Reach
    BY <1>3, <1>4 DEF Apart
  <2>1. x \in Nodes \ enqueued /\ k \in Nat
    BY <1>2, <1>5
  <2>2. CASE y \in enqueued
    BY <2>1, <2>2, <1>1 DEF Apart
  <2>3. CASE y = m
    <3>1. step.depth + 1 <= k
      BY <2>1, <1>5, <1>16
    <3>2. step.depth + 1 \in Nat
      BY <1>5
    <3>3. \A z \in Nodes, i, j \in Nat : i <= j /\ <<z, i>> \in Reach => <<z, j>> \in Reach
      BY <1>5, Reaches
    <3> QED BY <2>1, <2>3, <3>1, <3>2, <3>3, <1>5, <1>15
  <2> QED BY <2>2, <2>3, <1>2
<1>20. Limited'
  <2>1. Cardinality(nodes') <= opts.limit
    <3>1. IsFiniteSet(nodes) /\ Cardinality(nodes) \in Nat
      BY <1>1, Finite DEF TypeOK
    <3>2. m \notin nodes
      BY <1>1, <1>2 DEF Queued
    <3>3. Cardinality(nodes \cup {m}) = Cardinality(nodes) + 1
      BY <3>1, <3>2, FS_AddElement
    <3>4. Cardinality(nodes) < opts.limit
      BY <1>2, <1>5, <3>1 DEF Full
    <3> QED BY <1>2, <1>5, <3>1, <3>3, <3>4
  <2>2. \A d \in ToSet(edges') : d.source \in enqueued' /\ d.target \in enqueued'
    <3>1. \A d \in ToSet(edges) : d.source \in enqueued /\ d.target \in enqueued
      BY <1>1 DEF Limited
    <3>2. e.source \in enqueued' /\ e.target \in enqueued'
      BY <1>2, <1>5
    <3> QED BY <3>1, <3>2, <1>2, <1>6
  <2> QED BY <1>2, <1>3, <1>6, <2>1, <2>2 DEF Limited
<1> QED BY <1>11, <1>13, <1>14, <1>17, <1>18, <1>19, <1>20 DEF IInv

LEMMA NextIInv == IInv /\ [Next]_vars => IInv'
<1> SUFFICES ASSUME IInv, [Next]_vars PROVE IInv'
  OBVIOUS
<1>1. CASE Dequeue
  BY <1>1, DequeueIInv
<1>2. ASSUME NEW e \in left, PassOver(e)
      PROVE  IInv'
  BY <1>2, PassOverIInv
<1>3. ASSUME NEW e \in left, Record(e)
      PROVE  IInv'
  BY <1>3, RecordIInv
<1>4. ASSUME NEW e \in left, Enqueue(e)
      PROVE  IInv'
  BY <1>4, EnqueueIInv
<1>5. CASE UNCHANGED vars
  <2>1. UNCHANGED question
    BY <1>5 DEF vars, question
  <2>2. Reach' = Reach /\ Rows' = Rows /\ \A x : Admitted(x)' <=> Admitted(x)
    BY <2>1, SameQuestion
  <2>3. InQueue' = InQueue
    BY <1>5 DEF vars, InQueue
  <2>4. Full' <=> Full
    BY <1>5 DEF vars, Full
  <2>5. TypeOK' /\ Queued' /\ Levelled'
    BY <1>5, <2>2, <2>3 DEF vars, IInv, TypeOK, Queued, Levelled
  <2>6. Measured' /\ Apart' /\ Limited'
    BY <1>5, <2>2 DEF vars, IInv, Measured, Apart, Limited
  <2>7. Complete'
    BY <1>5, <2>2, <2>4 DEF vars, IInv, Complete, Other
  <2> QED BY <2>5, <2>6, <2>7 DEF IInv
<1> QED BY <1>1, <1>2, <1>3, <1>4, <1>5 DEF Next

-----------------------------------------------------------------------------
(* What the answer is.                                                        *)

\* The state of the traversal is well formed, and its queue and the edges it has
\* found are in the graph (Traversal!TypeOK).
THEOREM TypeCorrect == Spec => []TypeOK
<1>1. Spec => []IInv
  BY InitIInv, NextIInv, PTL DEF Spec
<1>2. IInv => TypeOK
  BY DEF IInv
<1> QED BY <1>1, <1>2, PTL

\* traverseBFS keeps to its limit though nodes have any number of neighbours, and
\* reports an edge once and between nodes it reports.
THEOREM BoundedCorrect == Spec => []Bounded
<1>1. Spec => []IInv
  BY InitIInv, NextIInv, PTL DEF Spec
<1>2. IInv => Bounded
  <2> SUFFICES ASSUME IInv PROVE Bounded
    OBVIOUS
  <2>1. opts.includeStart => nodes = enqueued
    BY DEF IInv, Queued
  <2> QED BY <2>1 DEF IInv, Limited, Bounded
<1> QED BY <1>1, <1>2, PTL

\* The queue has run empty: nobody within the depth was left out. The nearest one
\* that was would be linked to one that was not.
LEMMA NoneLeft ==
  ASSUME IInv, ~Full, left = {}, queue = <<>>,
         NEW m \in Nodes, NEW k \in 0..opts.maxDepth, <<m, k>> \in Reach
  PROVE  m \in enqueued
<1> DEFINE S == {j \in 0..opts.maxDepth : \E x \in Nodes \ enqueued : <<x, j>> \in Reach}
<1>1. TypeOK /\ Queued /\ Complete
  BY DEF IInv
<1>2. opts.maxDepth \in Nat /\ start \in Nodes
  BY <1>1, Options
<1>3. enqueued = visited
  <2>1. InQueue = {}
    BY DEF InQueue
  <2> QED BY <2>1, <1>1 DEF Queued
<1> SUFFICES ASSUME S # {} PROVE FALSE
  OBVIOUS
<1>4. S \in SUBSET Nat
  BY <1>2
<1>5. PICK j \in S : \A i \in S : j <= i
  <2> HIDE DEF S
  <2> QED BY <1>4, Least
<1>6. PICK x \in Nodes \ enqueued : <<x, j>> \in Reach
  OBVIOUS
<1>7. j \in Nat /\ j <= opts.maxDepth
  BY <1>2
<1>8. j # 0
  <2>1. start \in enqueued
    BY <1>1 DEF Queued
  <2>2. \A y \in Nodes : <<y, 0>> \in Reach => y = start
    BY <1>2, Reaches
  <2> QED BY <1>6, <2>1, <2>2
<1>9. j - 1 \in Nat /\ j = (j - 1) + 1 /\ j - 1 \in 0..opts.maxDepth /\ ~(j <= j - 1)
  BY <1>2, <1>7, <1>8
<1>10. PICK n \in Nodes : <<n, j - 1>> \in Reach /\ Linked(n, x)
  <2>1. \A y \in Nodes, i \in Nat : <<y, i + 1>> \in Reach => \E n \in Nodes : <<n, i>> \in Reach /\ Linked(n, y)
    BY <1>2, Reaches
  <2>2. <<x, (j - 1) + 1>> \in Reach
    BY <1>6, <1>9
  <2> QED BY <2>1, <2>2, <1>6, <1>9
<1>11. n \in enqueued
  <2>1. j - 1 \notin S
    BY <1>5, <1>9
  <2> QED BY <2>1, <1>9, <1>10
<1>12. PICK e \in Rows[n] : Other(e, n) = x /\ Admitted(x)
  <2>1. n # x
    BY <1>6, <1>11
  <2> QED BY <2>1, <1>10, InRows DEF Linked
<1>13. opts.maxDepth > 0 /\ <<n, opts.maxDepth - 1>> \in Reach
  <2>1. opts.maxDepth > 0 /\ j - 1 <= opts.maxDepth - 1 /\ opts.maxDepth - 1 \in Nat
    BY <1>2, <1>7, <1>8
  <2>2. \A y \in Nodes, a, b \in Nat : a <= b /\ <<y, a>> \in Reach => <<y, b>> \in Reach
    BY <1>2, Reaches
  <2> QED BY <2>1, <2>2, <1>9, <1>10
<1>14. Other(e, n) \in enqueued
  BY <1>1, <1>3, <1>11, <1>12, <1>13 DEF Complete
<1> QED BY <1>6, <1>12, <1>14

\* traverseBFS reports nothing beyond the depth, and unless it is cut short all
\* that lies within, with the edges of every node a step further in.
THEOREM ExactCorrect == Spec => []Exact
<1>1. Spec => []IInv
  BY InitIInv, NextIInv, PTL DEF Spec
<1>2. IInv => Exact
  <2> SUFFICES ASSUME IInv PROVE Exact
    OBVIOUS
  <2>1. TypeOK /\ Queued /\ Levelled /\ Measured /\ Complete
    BY DEF IInv
  <2>2. opts.maxDepth \in Nat /\ start \in Nodes /\ step.depth \in Nat /\ queue \in Seq([node : Nodes, depth : Nat])
    BY <2>1, Options DEF TypeOK
  <2>3. nodes \subseteq enqueued /\ nodes \subseteq Nodes
    BY <2>1 DEF Queued, TypeOK
  <2>4. \A y \in Nodes, a, b \in Nat : a <= b /\ <<y, a>> \in Reach => <<y, b>> \in Reach
    BY <2>2, Reaches
  <2>5. ASSUME NEW m \in nodes
        PROVE  Within(m, opts.maxDepth)
    <3>1. CASE m \in visited
      <4>1. <<m, step.depth>> \in Reach /\ step.depth <= opts.maxDepth
        BY <2>1, <3>1 DEF Measured, Levelled
      <4> QED BY <4>1, <2>2, <2>3, <2>4, InReach
    <3>2. CASE m \in InQueue
      <4>1. PICK i \in DOMAIN queue : queue[i].node = m
        BY <3>2 DEF InQueue
      <4>2. <<m, queue[i].depth>> \in Reach /\ queue[i].depth <= opts.maxDepth
        BY <2>1, <4>1 DEF Measured, Levelled
      <4>3. queue[i].depth \in Nat
        <5>1. \A R : queue \in Seq(R) => queue[i] \in R
          BY <4>1
        <5> QED BY <2>1, <5>1 DEF TypeOK
      <4> QED BY <4>2, <4>3, <2>2, <2>3, <2>4, InReach
    <3> QED BY <2>1, <2>3, <3>1, <3>2 DEF Queued
  <2>6. ASSUME Done, ~Full, NEW m \in Nodes \ {start}, Within(m, opts.maxDepth)
        PROVE  m \in nodes
    <3>1. left = {} /\ queue = <<>>
      BY <2>6 DEF Done
    <3>2. <<m, opts.maxDepth>> \in Reach /\ opts.maxDepth \in 0..opts.maxDepth
      BY <2>2, <2>6, InReach
    <3>3. m \in enqueued
      BY <2>6, <3>1, <3>2, NoneLeft
    <3> QED BY <2>1, <2>6, <3>3 DEF Queued
  <2>7. ASSUME Done, ~Full, NEW n \in Nodes, opts.maxDepth > 0, Within(n, opts.maxDepth - 1),
               NEW e \in Adjacent(n), Admitted(Other(e, n)), Other(e, n) \in nodes
        PROVE  e \in ToSet(edges)
    <3>1. left = {} /\ queue = <<>>
      BY <2>7 DEF Done
    <3>2. opts.maxDepth - 1 \in Nat /\ opts.maxDepth - 1 \in 0..opts.maxDepth
      BY <2>2, <2>7
    <3>3. <<n, opts.maxDepth - 1>> \in Reach
      BY <3>2, <2>7, InReach
    <3>4. n \in enqueued
      BY <2>7, <3>1, <3>2, <3>3, NoneLeft
    <3>5. n \in visited
      BY <2>1, <3>1, <3>4 DEF Queued, InQueue
    <3>6. e \in Rows[n]
      BY <2>7, InRows
    <3> QED BY <2>1, <2>7, <3>1, <3>3, <3>5, <3>6 DEF Complete
  <2> QED BY <2>5, <2>6, <2>7 DEF Exact
<1> QED BY <1>1, <1>2, PTL

\* What the limit of traverseBFS cuts off is no nearer than what is kept.
THEOREM NearestCorrect == Spec => []Nearest
<1>1. Spec => []IInv
  BY InitIInv, NextIInv, PTL DEF Spec
<1>2. IInv => Nearest
  <2> SUFFICES ASSUME IInv, NEW x \in Nodes \ (nodes \cup {start}), NEW m \in nodes, NEW k \in 0..opts.maxDepth,
                      Within(x, k)
               PROVE  Within(m, k)
    BY DEF Nearest
  <2>1. TypeOK /\ Queued /\ Apart
    BY DEF IInv
  <2>2. x \in Nodes \ enqueued /\ m \in enqueued /\ m \in Nodes
    BY <2>1 DEF Queued, TypeOK
  <2>3. k \in Nat
    BY <2>1, Options
  <2>4. <<m, k>> \in Reach
    BY <2>1, <2>2, <2>3, InReach DEF Apart
  <2> QED BY <2>2, <2>3, <2>4, InReach
<1> QED BY <1>1, <1>2, PTL

=============================================================================
