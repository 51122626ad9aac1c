----------------------------- MODULE WalkProofs -----------------------------
(* findPath, getCallers and getCallees, getImpactRadius and                   *)
(* findCircularDependencies answer as they should on every finite graph, for  *)
(* every depth and every choice of kinds.                                     *)
EXTENDS TraversalProofs, PathSearch, CallWalk, ImpactWalk, CycleWalk

Asking == table \in Tables /\ start \in Nodes /\ opts \in Asked

LEMMA AskedOptions ==
  ASSUME Asking
  PROVE  /\ start \in Nodes /\ opts.maxDepth \in Nat
         /\ \A e \in table : e.source \in Nodes /\ e.target \in Nodes
BY GraphAssumption DEF Asking

-----------------------------------------------------------------------------
(* Steps of a relation.                                                       *)

LEMMA JoinedZero ==
  ASSUME NEW R, NEW n \in Nodes
  PROVE  Joined(R, n, n, 0)
<1> DEFINE p == [i \in 0..0 |-> n]
<1>1. p \in [0..0 -> Nodes] /\ p[0] = n
  OBVIOUS
<1>2. \A i \in 0..(0 - 1) : <<p[i], p[i + 1]>> \in R
  OBVIOUS
<1> QED BY <1>1, <1>2 DEF Joined

LEMMA JoinedNone ==
  ASSUME NEW R, NEW n, NEW m, Joined(R, n, m, 0)
  PROVE  m = n
BY DEF Joined

LEMMA JoinedStep ==
  ASSUME NEW R, NEW n, NEW x, NEW m \in Nodes, NEW k \in Nat, Joined(R, n, x, k), <<x, m>> \in R
  PROVE  Joined(R, n, m, k + 1)
<1>1. PICK p \in [0..k -> Nodes] : p[0] = n /\ p[k] = x /\ \A i \in 0..(k - 1) : <<p[i], p[i + 1]>> \in R
  BY DEF Joined
<1> DEFINE q == [i \in 0..(k + 1) |-> IF i <= k THEN p[i] ELSE m]
<1>2. q \in [0..(k + 1) -> Nodes] /\ q[0] = n /\ q[k + 1] = m
  BY <1>1
<1>3. ASSUME NEW i \in 0..((k + 1) - 1)
      PROVE  <<q[i], q[i + 1]>> \in R
  <2>1. CASE i < k
    <3>1. i \in 0..(k - 1) /\ q[i] = p[i] /\ q[i + 1] = p[i + 1]
      BY <2>1
    <3> QED BY <3>1, <1>1
  <2>2. CASE i = k
    <3>1. q[i] = x /\ q[i + 1] = m
      BY <2>2, <1>1
    <3> QED BY <3>1
  <2> QED BY <2>1, <2>2
<1> HIDE DEF q
<1> QED BY <1>2, <1>3 DEF Joined

LEMMA JoinedBack ==
  ASSUME NEW R, NEW n, NEW m, NEW k \in Nat, Joined(R, n, m, k + 1)
  PROVE  \E x \in Nodes : Joined(R, n, x, k) /\ <<x, m>> \in R
<1>1. PICK p \in [0..(k + 1) -> Nodes] :
        p[0] = n /\ p[k + 1] = m /\ \A i \in 0..((k + 1) - 1) : <<p[i], p[i + 1]>> \in R
  BY DEF Joined
<1> DEFINE q == [i \in 0..k |-> p[i]]
<1>2. q \in [0..k -> Nodes] /\ q[0] = n /\ q[k] = p[k]
  BY <1>1
<1>3. \A i \in 0..(k - 1) : <<q[i], q[i + 1]>> \in R
  <2> SUFFICES ASSUME NEW i \in 0..(k - 1) PROVE <<q[i], q[i + 1]>> \in R
    OBVIOUS
  <2>1. q[i] = p[i] /\ q[i + 1] = p[i + 1] /\ i \in 0..((k + 1) - 1)
    OBVIOUS
  <2> QED BY <2>1, <1>1
<1> HIDE DEF q
<1>4. Joined(R, n, p[k], k)
  BY <1>2, <1>3 DEF Joined
<1>5. <<p[k], m>> \in R /\ p[k] \in Nodes
  BY <1>1
<1> QED BY <1>4, <1>5

\* Where a step may wait, more steps reach no less.
LEMMA JoinedMore ==
  ASSUME NEW R, \A x \in Nodes : <<x, x>> \in R, NEW n, NEW m, NEW j \in Nat, NEW k \in Nat, j <= k,
         Joined(R, n, m, j)
  PROVE  Joined(R, n, m, k)
<1>1. PICK p \in [0..j -> Nodes] : p[0] = n /\ p[j] = m /\ \A i \in 0..(j - 1) : <<p[i], p[i + 1]>> \in R
  BY DEF Joined
<1> DEFINE q == [i \in 0..k |-> IF i <= j THEN p[i] ELSE m]
<1>2. q \in [0..k -> Nodes] /\ q[0] = n /\ q[k] = m
  BY <1>1
<1>3. ASSUME NEW i \in 0..(k - 1)
      PROVE  <<q[i], q[i + 1]>> \in R
  <2>1. CASE i < j
    <3>1. i \in 0..(j - 1) /\ q[i] = p[i] /\ q[i + 1] = p[i + 1]
      BY <2>1
    <3> QED BY <3>1, <1>1
  <2>2. CASE i >= j
    <3>1. q[i] = m /\ q[i + 1] = m /\ m \in Nodes
      BY <2>2, <1>1
    <3> QED BY <3>1
  <2> QED BY <2>1, <2>2
<1> HIDE DEF q
<1> QED BY <1>2, <1>3 DEF Joined

-----------------------------------------------------------------------------
(* findPath: the inductive invariant.                                         *)

\* Who is how far, which paths lead where, and the rows of each node, as values.
Far == {w \in Nodes \X Nat : Afar(w[1], w[2])}
Trails == {w \in Seq(table) \X Nodes : Trail(w[1], w[2])}
RowsOf == [n \in Nodes |-> Outgoing(n)]

PathTypeOK ==
    /\ Asking /\ goal \in Nodes /\ passed \subseteq Nodes /\ ahead \subseteq table /\ found \in BOOLEAN
    /\ paths \in Seq([node : Nodes, path : Seq(table)]) /\ taken \in [node : Nodes, path : Seq(table)]

\* A path in the queue leads from the start to its node, and the queue is in the
\* order of their lengths, at most one level ahead of the one in hand.
Led ==
    /\ <<taken.path, taken.node>> \in Trails
    /\ \A i \in DOMAIN paths : /\ <<paths[i].path, paths[i].node>> \in Trails
                               /\ Len(taken.path) <= Len(paths[i].path)
                               /\ Len(paths[i].path) <= Len(taken.path) + 1
    /\ \A i, j \in DOMAIN paths : i <= j => Len(paths[i].path) <= Len(paths[j].path)

\* What is expanded was taken out over a shortest path, and so is the goal.
Nearby(n, p) == \A k \in Nat : <<n, k>> \in Far => Len(p) <= k
Shortest ==
    /\ goal \notin passed
    /\ ahead # {} => taken.node \in passed /\ ahead \subseteq RowsOf[taken.node] /\ Nearby(taken.node, taken.path)
    /\ found => taken.node = goal /\ ahead = {} /\ Nearby(goal, taken.path)

\* The rows of an expanded node lead to nodes expanded or in the queue, over a
\* path one row longer than the distance of the node, but for those to come.
Awaited(n, e) == \E i \in DOMAIN paths : /\ paths[i].node = e.target
                                         /\ \A k \in Nat : <<n, k>> \in Far => Len(paths[i].path) <= k + 1
Explored ==
    ~found =>
        /\ start \notin passed => ahead = {} /\ 1 \in DOMAIN paths /\ Len(paths[1].path) = 0
        /\ \A n \in passed : \A e \in RowsOf[n] :
              e.target \in passed \/ (n = taken.node /\ e \in ahead) \/ Awaited(n, e)

PathInv == PathTypeOK /\ Led /\ Shortest /\ Explored

-----------------------------------------------------------------------------
(* findPath: distances and paths.                                             *)

LEMMA InFar ==
  ASSUME NEW m \in Nodes, NEW k \in Nat
  PROVE  <<m, k>> \in Far <=> Joined(Steps, start, m, k)
<1>1. <<m, k>> \in Nodes \X Nat /\ <<m, k>>[1] = m /\ <<m, k>>[2] = k
  OBVIOUS
<1> QED BY <1>1, Zenon DEF Far, Afar

LEMMA InRowsOf == ASSUME NEW n \in Nodes PROVE RowsOf[n] = Outgoing(n)
BY DEF RowsOf

LEMMA StepTo ==
  ASSUME NEW n \in Nodes, NEW m \in Nodes
  PROVE  <<n, m>> \in Steps <=> n = m \/ \E e \in RowsOf[n] : e.target = m
<1>1. <<n, m>> \in Nodes \X Nodes /\ <<n, m>>[1] = n /\ <<n, m>>[2] = m
  OBVIOUS
<1>2. <<n, m>> \in Steps <=> n = m \/ \E e \in Outgoing(n) : e.target = m
  BY <1>1, Zenon DEF Steps
<1> QED BY <1>2, InRowsOf

LEMMA FarFacts ==
  ASSUME start \in Nodes
  PROVE  /\ <<start, 0>> \in Far
         /\ \A m \in Nodes : <<m, 0>> \in Far => m = start
         /\ \A m \in Nodes, k \in Nat : <<m, k + 1>> \in Far =>
               \E n \in Nodes : <<n, k>> \in Far /\ (n = m \/ \E e \in RowsOf[n] : e.target = m)
<1>1. <<start, 0>> \in Far
  BY InFar, JoinedZero
<1>2. \A m \in Nodes : <<m, 0>> \in Far => m = start
  BY InFar, JoinedNone
<1>3. ASSUME NEW m \in Nodes, NEW k \in Nat, <<m, k + 1>> \in Far
      PROVE  \E n \in Nodes : <<n, k>> \in Far /\ (n = m \/ \E e \in RowsOf[n] : e.target = m)
  <2>1. Joined(Steps, start, m, k + 1)
    BY <1>3, InFar
  <2>2. PICK n \in Nodes : Joined(Steps, start, n, k) /\ <<n, m>> \in Steps
    BY <2>1, JoinedBack
  <2>3. <<n, k>> \in Far
    BY <2>2, InFar
  <2>4. n = m \/ \E e \in RowsOf[n] : e.target = m
    BY <2>2, StepTo
  <2> QED BY <2>3, <2>4
<1> QED BY <1>1, <1>2, <1>3

\* A path goes on over a row.
LEMMA TrailOn ==
  ASSUME NEW n \in Nodes, NEW p, <<p, n>> \in Trails, NEW e \in RowsOf[n], e.target \in Nodes
  PROVE  <<Append(p, e), e.target>> \in Trails
<1>1. p \in Seq(table) /\ Trail(p, n)
  BY DEF Trails
<1>2. e \in table /\ e.source = n /\ OfKinds(e)
  BY InRowsOf DEF Outgoing
<1> DEFINE q == Append(p, e)  h == Len(p)
<1>3. q \in Seq(table) /\ h \in Nat /\ DOMAIN p = 1..h /\ DOMAIN q = 1..(h + 1) /\ Len(q) = h + 1
  BY <1>1, <1>2
<1>4. q[h + 1] = e /\ \A i \in 1..h : q[i] = p[i]
  BY <1>1, <1>2
<1>5. /\ \A i \in 1..h : p[i] \in table /\ OfKinds(p[i])
      /\ \A i, j \in 1..h : j = i + 1 => p[i].target = p[j].source
      /\ IF p = <<>> THEN n = start ELSE p[1].source = start /\ p[h].target = n
  BY <1>1, <1>3 DEF Trail
<1>6. p = <<>> <=> h = 0
  BY <1>1
<1> HIDE DEF q, h
<1>7. \A i \in 1..(h + 1) : i \in 1..h \/ i = h + 1
  BY <1>3
<1>8. \A i \in DOMAIN q : q[i] \in table /\ OfKinds(q[i])
  BY <1>2, <1>3, <1>4, <1>5, <1>7
<1>9. \A i, j \in DOMAIN q : j = i + 1 => q[i].target = q[j].source
  <2> SUFFICES ASSUME NEW i \in 1..(h + 1), NEW j \in 1..(h + 1), j = i + 1
               PROVE  q[i].target = q[j].source
    BY <1>3
  <2>1. i \in 1..h
    BY <1>3
  <2>2. CASE j \in 1..h
    BY <2>1, <2>2, <1>4, <1>5
  <2>3. CASE j = h + 1
    <3>1. i = h /\ h # 0
      BY <2>1, <2>3, <1>3
    <3> QED BY <3>1, <2>1, <2>3, <1>2, <1>4, <1>5, <1>6
  <2> QED BY <2>2, <2>3, <1>7
<1>10. q # <<>> /\ q[1].source = start /\ q[Len(q)].target = e.target
  <2>1. q # <<>> /\ q[Len(q)] = e
    BY <1>3, <1>4
  <2>2. CASE h = 0
    BY <2>1, <2>2, <1>2, <1>4, <1>5, <1>6
  <2>3. CASE h # 0
    <3>1. 1 \in 1..h
      BY <2>3, <1>3
    <3> QED BY <3>1, <2>1, <2>3, <1>4, <1>5, <1>6
  <2> QED BY <2>2, <2>3
<1>11. Trail(q, e.target)
  BY <1>8, <1>9, <1>10 DEF Trail
<1>12. <<q, e.target>> \in Seq(table) \X Nodes /\ <<q, e.target>>[1] = q /\ <<q, e.target>>[2] = e.target
  BY <1>3
<1>13. <<q, e.target>> \in Trails
  BY <1>11, <1>12, Zenon DEF Trails
<1> QED BY <1>13 DEF q

LEMMA SamePaths ==
  ASSUME UNCHANGED question
  PROVE  Far' = Far /\ Trails' = Trails /\ RowsOf' = RowsOf
<1>1. table' = table /\ start' = start /\ opts' = opts
  BY DEF question
<1>2. \A n : Outgoing(n)' = Outgoing(n)
  BY <1>1 DEF Outgoing, OfKinds
<1>3. Steps' = Steps
  BY <1>2, Zenon DEF Steps
<1>4. \A m, k : Joined(Steps', start', m, k) <=> Joined(Steps, start, m, k)
  BY <1>1, <1>3
<1>5. Far' = Far
  BY <1>4, Zenon DEF Far, Afar
<1>6. \A e : OfKinds(e)' <=> OfKinds(e)
  BY <1>1 DEF OfKinds
<1>7. \A p, m : Trail(p, m)' <=> Trail(p, m)
  BY <1>1, <1>6, Zenon DEF Trail
<1>8. Trails' = Trails
  BY <1>1, <1>7, Zenon DEF Trails
<1>9. RowsOf' = RowsOf
  BY <1>2, Zenon DEF RowsOf
<1> QED BY <1>5, <1>8, <1>9

\* A node not expanded yet is no nearer than the head of the queue: on the way to
\* it some row leads out of what is expanded, and its end is waiting.
LEMMA Frontier ==
  ASSUME PathInv, ahead = {}, ~found, NEW m \in Nodes \ passed, NEW k \in Nat, <<m, k>> \in Far
  PROVE  \E i \in DOMAIN paths : Len(paths[i].path) <= k
<1>1. Asking /\ passed \subseteq Nodes
  BY DEF PathInv, PathTypeOK
<1>2. start \in Nodes
  BY <1>1, AskedOptions
<1>3. CASE start \notin passed
  <2>1. 1 \in DOMAIN paths /\ Len(paths[1].path) = 0
    BY <1>3 DEF PathInv, Explored
  <2> QED BY <2>1
<1>4. CASE start \in passed
  <2> DEFINE S == {j \in 0..k : \E x \in Nodes \ passed : <<x, j>> \in Far}
  <2>1. S \in SUBSET Nat /\ k \in S
    OBVIOUS
  <2>2. PICK j \in S : \A i \in S : j <= i
    <3> HIDE DEF S
    <3> QED BY <2>1, Least
  <2>3. PICK x \in Nodes \ passed : <<x, j>> \in Far
    OBVIOUS
  <2>4. j \in Nat /\ j <= k
    OBVIOUS
  <2>5. j # 0
    <3>1. \A y \in Nodes : <<y, 0>> \in Far => y = start
      BY <1>2, FarFacts
    <3> QED BY <3>1, <2>3, <1>4
  <2>6. j - 1 \in Nat /\ j = (j - 1) + 1 /\ j - 1 \in 0..k /\ ~(j <= j - 1)
    BY <2>4, <2>5
  <2>7. PICK n \in Nodes : <<n, j - 1>> \in Far /\ (n = x \/ \E e \in RowsOf[n] : e.target = x)
    <3>1. \A y \in Nodes, i \in Nat : <<y, i + 1>> \in Far =>
             \E n \in Nodes : <<n, i>> \in Far /\ (n = y \/ \E e \in RowsOf[n] : e.target = y)
      BY <1>2, FarFacts
    <3>2. <<x, (j - 1) + 1>> \in Far
      BY <2>3, <2>6
    <3> QED BY <3>1, <3>2, <2>3, <2>6
  <2>8. n \in passed
    <3>1. j - 1 \notin S
      BY <2>2, <2>6
    <3> QED BY <3>1, <2>6, <2>7
  <2>9. PICK e \in RowsOf[n] : e.target = x
    BY <2>3, <2>7, <2>8
  <2>10. Awaited(n, e)
    BY <2>3, <2>8, <2>9 DEF PathInv, Explored
  <2>11. PICK i \in DOMAIN paths : Len(paths[i].path) <= (j - 1) + 1
    BY <2>6, <2>7, <2>10 DEF Awaited
  <2>12. Len(paths[i].path) <= j
    BY <2>6, <2>11
  <2>13. Len(paths[i].path) \in Nat
    <3>1. \A R : paths \in Seq(R) => paths[i] \in R
      BY <2>11
    <3>2. paths[i] \in [node : Nodes, path : Seq(table)]
      BY <3>1 DEF PathInv, PathTypeOK
    <3> QED BY <3>2
  <2> QED BY <2>4, <2>11, <2>12, <2>13
<1> QED BY <1>3, <1>4
-----------------------------------------------------------------------------
(* findPath: the steps.                                                       *)

LEMMA PathEntry ==
  ASSUME NEW N, NEW T, NEW q \in Seq([node : N, path : Seq(T)])
  PROVE  \A i \in DOMAIN q : /\ q[i] \in [node : N, path : Seq(T)] /\ q[i].node \in N
                             /\ q[i].path \in Seq(T) /\ Len(q[i].path) \in Nat
<1> SUFFICES ASSUME NEW i \in DOMAIN q
             PROVE  /\ q[i] \in [node : N, path : Seq(T)] /\ q[i].node \in N
                    /\ q[i].path \in Seq(T) /\ Len(q[i].path) \in Nat
  OBVIOUS
<1>1. q[i] \in [node : N, path : Seq(T)]
  <2>1. \A R : q \in Seq(R) => q[i] \in R
    OBVIOUS
  <2> QED BY <2>1
<1>2. q[i].node \in N /\ q[i].path \in Seq(T)
  BY <1>1
<1> QED BY <1>1, <1>2

LEMMA PathInitInv == Asking /\ PathInit => PathInv
<1> SUFFICES ASSUME Asking, PathInit PROVE PathInv
  OBVIOUS
<1> DEFINE r == [node |-> start, path |-> <<>>]
<1>1. /\ goal \in Nodes /\ paths = <<r>> /\ taken = r /\ passed = {} /\ ahead = {} /\ found = FALSE
  BY DEF PathInit
<1>2. start \in Nodes
  BY AskedOptions
<1>3. r.node = start /\ r.path = <<>> /\ r \in [node : Nodes, path : Seq(table)]
  BY <1>2
<1> HIDE DEF r
<1>4. DOMAIN paths = {1} /\ paths[1] = r /\ Len(r.path) = 0
  BY <1>1, <1>3
<1>5. PathTypeOK
  <2>1. \A R : r \in R => <<r>> \in Seq(R)
    OBVIOUS
  <2>2. paths \in Seq([node : Nodes, path : Seq(table)])
    BY <1>1, <1>3, <2>1
  <2> QED BY <1>1, <1>3, <2>2 DEF PathTypeOK
<1>6. <<r.path, r.node>> \in Trails
  <2>1. Trail(<<>>, start)
    BY DEF Trail
  <2>2. <<r.path, r.node>> \in Seq(table) \X Nodes /\ <<r.path, r.node>>[1] = <<>> /\ <<r.path, r.node>>[2] = start
    BY <1>2, <1>3
  <2> QED BY <2>1, <2>2, Zenon DEF Trails
<1>7. Led
  BY <1>1, <1>4, <1>6 DEF Led
<1>8. Shortest /\ Explored
  BY <1>1, <1>4 DEF Shortest, Explored
<1> QED BY <1>5, <1>7, <1>8 DEF PathInv

\* The head of the queue is as near as can be, if it was not expanded before.
LEMMA HeadNearby ==
  ASSUME PathInv, ahead = {}, ~found, paths # <<>>, Head(paths).node \notin passed
  PROVE  Nearby(Head(paths).node, Head(paths).path)
<1> DEFINE R == [node : Nodes, path : Seq(table)]
<1>1. paths \in Seq(R)
  BY DEF PathInv, PathTypeOK
<1>2. Head(paths) = paths[1] /\ 1 \in DOMAIN paths /\ DOMAIN paths = 1..Len(paths)
  <2> HIDE DEF R
  <2> QED BY <1>1, HeadAndTail
<1>3. \A i \in DOMAIN paths : paths[i].node \in Nodes /\ Len(paths[i].path) \in Nat
  BY <1>1, PathEntry
<1>4. ASSUME NEW k \in Nat, <<paths[1].node, k>> \in Far
      PROVE  Len(paths[1].path) <= k
  <2>1. PICK i \in DOMAIN paths : Len(paths[i].path) <= k
    BY <1>2, <1>3, <1>4, Frontier
  <2>2. Len(paths[1].path) <= Len(paths[i].path)
    BY <1>2 DEF PathInv, Led
  <2> QED BY <1>2, <1>3, <2>1, <2>2
<1> QED BY <1>2, <1>4 DEF Nearby

\* What any step that takes out the head keeps.
LEMMA TakeOutLed ==
  ASSUME PathInv, UNCHANGED question, TakeOut
  PROVE  /\ taken' \in [node : Nodes, path : Seq(table)] /\ paths' \in Seq([node : Nodes, path : Seq(table)])
         /\ Led' /\ taken' = Head(paths) /\ taken'.node \in Nodes
         /\ \A i \in DOMAIN paths : i = 1 \/ \E j \in DOMAIN paths' : paths'[j] = paths[i]
<1> DEFINE R == [node : Nodes, path : Seq(table)]  h == Head(paths)  q == Tail(paths)
<1>1. paths \in Seq(R) /\ paths # <<>> /\ taken' = h /\ paths' = q /\ taken \in R
  BY DEF PathInv, PathTypeOK, TakeOut
<1>2. /\ h \in R /\ h = paths[1] /\ 1 \in DOMAIN paths /\ DOMAIN paths = 1..Len(paths) /\ Len(paths) \in Nat
      /\ q \in Seq(R) /\ DOMAIN q = 1..(Len(paths) - 1)
      /\ \A i \in DOMAIN q : i + 1 \in DOMAIN paths /\ i + 1 > 1 /\ q[i] = paths[i + 1]
  <2> HIDE DEF R
  <2> QED BY <1>1, HeadAndTail
<1>3. \A i \in DOMAIN paths : Len(paths[i].path) \in Nat
  BY <1>1, PathEntry
<1>4. h.node \in Nodes /\ Len(taken.path) \in Nat
  BY <1>1, <1>2
<1> HIDE DEF R, h, q
<1>5. Trails' = Trails
  BY SamePaths
<1>6. /\ \A i \in DOMAIN paths : /\ <<paths[i].path, paths[i].node>> \in Trails
                                 /\ Len(taken.path) <= Len(paths[i].path)
                                 /\ Len(paths[i].path) <= Len(taken.path) + 1
      /\ \A i, j \in DOMAIN paths : i <= j => Len(paths[i].path) <= Len(paths[j].path)
  BY DEF PathInv, Led
<1>7. <<h.path, h.node>> \in Trails
  BY <1>2, <1>6
<1>8. \A i \in DOMAIN q : /\ <<q[i].path, q[i].node>> \in Trails
                          /\ Len(h.path) <= Len(q[i].path) /\ Len(q[i].path) <= Len(h.path) + 1
  <2> SUFFICES ASSUME NEW i \in DOMAIN q
               PROVE  /\ <<q[i].path, q[i].node>> \in Trails
                      /\ Len(h.path) <= Len(q[i].path) /\ Len(q[i].path) <= Len(h.path) + 1
    OBVIOUS
  <2>1. q[i] = paths[i + 1] /\ i + 1 \in DOMAIN paths /\ 1 <= i + 1
    BY <1>2
  <2>2. Len(paths[1].path) <= Len(paths[i + 1].path)
    BY <1>2, <1>6, <2>1
  <2>3. Len(paths[i + 1].path) <= Len(paths[1].path) + 1
    <3>1. Len(paths[i + 1].path) <= Len(taken.path) + 1 /\ Len(taken.path) <= Len(paths[1].path)
      BY <1>2, <1>6, <2>1
    <3>2. Len(paths[i + 1].path) \in Nat /\ Len(paths[1].path) \in Nat
      BY <1>2, <1>3, <2>1
    <3> QED BY <3>1, <3>2, <1>4
  <2>4. <<paths[i + 1].path, paths[i + 1].node>> \in Trails
    BY <1>6, <2>1
  <2> QED BY <1>2, <2>1, <2>2, <2>3, <2>4
<1>9. \A i, j \in DOMAIN q : i <= j => Len(q[i].path) <= Len(q[j].path)
  <2> SUFFICES ASSUME NEW i \in DOMAIN q, NEW j \in DOMAIN q, i <= j PROVE Len(q[i].path) <= Len(q[j].path)
    OBVIOUS
  <2>1. q[i] = paths[i + 1] /\ i + 1 \in DOMAIN paths /\ q[j] = paths[j + 1] /\ j + 1 \in DOMAIN paths
    BY <1>2
  <2>2. i + 1 <= j + 1
    BY <1>2
  <2> QED BY <1>6, <2>1, <2>2
<1>10. Led'
  BY <1>1, <1>5, <1>7, <1>8, <1>9 DEF Led
<1>11. \A i \in DOMAIN paths : i = 1 \/ (i - 1 \in DOMAIN q /\ q[i - 1] = paths[i])
  BY <1>2
<1> QED BY <1>1, <1>2, <1>4, <1>10, <1>11 DEF R, h

LEMMA ArriveInv == PathInv /\ Arrive => PathInv'
<1> SUFFICES ASSUME PathInv, Arrive PROVE PathInv'
  OBVIOUS
<1>1. /\ TakeOut /\ Head(paths).node = goal /\ found' = TRUE /\ UNCHANGED question
      /\ goal' = goal /\ passed' = passed /\ ahead' = ahead
  BY DEF Arrive
<1>2. ahead = {} /\ ~found /\ paths # <<>> /\ goal \notin passed
  BY <1>1 DEF TakeOut, PathInv, Shortest
<1>3. /\ taken' \in [node : Nodes, path : Seq(table)] /\ paths' \in Seq([node : Nodes, path : Seq(table)])
      /\ Led' /\ taken' = Head(paths)
  BY <1>1, TakeOutLed
<1>4. Far' = Far
  BY <1>1, SamePaths
<1>5. PathTypeOK'
  BY <1>1, <1>3 DEF PathInv, PathTypeOK, Asking, question
<1>6. Nearby(goal, Head(paths).path)
  BY <1>1, <1>2, HeadNearby
<1>7. Shortest'
  BY <1>1, <1>2, <1>3, <1>4, <1>6 DEF Shortest, Nearby
<1>8. Explored'
  BY <1>1 DEF Explored
<1> QED BY <1>3, <1>5, <1>7, <1>8 DEF PathInv

LEMMA ExpandInv == PathInv /\ Expand => PathInv'
<1> SUFFICES ASSUME PathInv, Expand PROVE PathInv'
  OBVIOUS
<1> DEFINE h == Head(paths)
<1>1. /\ TakeOut /\ h.node # goal /\ UNCHANGED question /\ goal' = goal /\ found' = found
      /\ passed' = passed \cup {h.node}
      /\ ahead' = IF h.node \in passed THEN {} ELSE Outgoing(h.node)
  BY DEF Expand
<1>2. ahead = {} /\ ~found /\ paths # <<>> /\ goal \notin passed
  BY <1>1 DEF TakeOut, PathInv, Shortest
<1>3. /\ taken' \in [node : Nodes, path : Seq(table)] /\ paths' \in Seq([node : Nodes, path : Seq(table)])
      /\ Led' /\ taken' = h /\ h.node \in Nodes
  BY <1>1, TakeOutLed
<1>4. \A i \in DOMAIN paths : i = 1 \/ \E j \in DOMAIN paths' : paths'[j] = paths[i]
  BY <1>1, TakeOutLed
<1>5. paths[1] = h /\ 1 \in DOMAIN paths
  <2>1. \A R : paths \in Seq(R) => Head(paths) = paths[1] /\ 1 \in DOMAIN paths
    BY <1>2, HeadAndTail
  <2>2. paths \in Seq([node : Nodes, path : Seq(table)])
    BY DEF PathInv, PathTypeOK
  <2> QED BY <2>1, <2>2
<1>6. ahead' = IF h.node \in passed THEN {} ELSE RowsOf[h.node]
  BY <1>1, <1>3, InRowsOf
<1>7. Far' = Far /\ RowsOf' = RowsOf
  BY <1>1, SamePaths
<1>8. h.node \notin passed => Nearby(h.node, h.path)
  BY <1>2, HeadNearby
<1> HIDE DEF h
<1>9. PathTypeOK'
  <2>1. ahead' \subseteq table /\ passed' \subseteq Nodes
    BY <1>1, <1>3 DEF PathInv, PathTypeOK, Outgoing
  <2> QED BY <1>1, <1>3, <2>1 DEF PathInv, PathTypeOK, Asking, question
<1>10. Shortest'
  BY <1>1, <1>2, <1>3, <1>6, <1>7, <1>8 DEF Shortest, Nearby
<1>11. Explored'
  <2>1. start' = start /\ start \in passed'
    <3>1. start \notin passed => Len(paths[1].path) = 0
      BY <1>2 DEF PathInv, Explored
    <3>2. <<h.path, h.node>> \in Trails
      BY <1>5 DEF PathInv, Led
    <3>3. h.path \in Seq(table) /\ Trail(h.path, h.node)
      BY <3>2 DEF Trails
    <3>4. Len(h.path) = 0 => h.path = <<>>
      BY <3>3
    <3>5. start \notin passed => h.node = start
      BY <1>5, <3>1, <3>3, <3>4 DEF Trail
    <3> QED BY <1>1, <3>5 DEF question
  <2>2. ASSUME NEW n \in passed', NEW e \in RowsOf[n]
        PROVE  \/ e.target \in passed' \/ (n = h.node /\ e \in ahead')
               \/ \E i \in DOMAIN paths' : /\ paths'[i].node = e.target
                                           /\ \A k \in Nat : <<n, k>> \in Far => Len(paths'[i].path) <= k + 1
    <3>1. CASE n \in passed
      <4>1. e.target \in passed \/ Awaited(n, e)
        BY <1>2, <3>1 DEF PathInv, Explored
      <4>2. CASE e.target \in passed
        BY <4>2, <1>1
      <4>3. CASE Awaited(n, e)
        <5>1. PICK i \in DOMAIN paths : /\ paths[i].node = e.target
                                        /\ \A k \in Nat : <<n, k>> \in Far => Len(paths[i].path) <= k + 1
          BY <4>3 DEF Awaited
        <5>2. CASE i = 1
          BY <5>1, <5>2, <1>1, <1>5
        <5>3. CASE i # 1
          BY <5>1, <5>3, <1>4
        <5> QED BY <5>2, <5>3
      <4> QED BY <4>1, <4>2, <4>3
    <3>2. CASE n \notin passed
      BY <3>2, <2>2, <1>1, <1>6
    <3> QED BY <3>1, <3>2
  <2> QED BY <1>2, <1>1, <1>3, <1>7, <2>1, <2>2 DEF Explored, Awaited
<1> QED BY <1>3, <1>9, <1>10, <1>11 DEF PathInv

LEMMA LeaveInv == ASSUME PathInv, NEW e \in ahead, Leave(e) PROVE PathInv'
<1>1. /\ e.target \in passed /\ ahead' = ahead \ {e} /\ UNCHANGED question
      /\ goal' = goal /\ paths' = paths /\ passed' = passed /\ taken' = taken /\ found' = found
  BY DEF Leave
<1>2. Far' = Far /\ RowsOf' = RowsOf /\ Trails' = Trails
  BY <1>1, SamePaths
<1>3. table' = table /\ start' = start /\ opts' = opts
  BY <1>1 DEF question
<1>4. PathTypeOK'
  BY <1>1, <1>3 DEF PathInv, PathTypeOK, Asking
<1>5. Led'
  BY <1>1, <1>2 DEF PathInv, Led
<1>6. Shortest'
  BY <1>1, <1>2 DEF PathInv, Shortest, Nearby
<1>7. Explored'
  BY <1>1, <1>2, <1>3 DEF PathInv, Explored, Awaited
<1> QED BY <1>4, <1>5, <1>6, <1>7 DEF PathInv

LEMMA ExtendInv == ASSUME PathInv, NEW e \in ahead, Extend(e) PROVE PathInv'
<1> DEFINE R == [node : Nodes, path : Seq(table)]  r == [node |-> e.target, path |-> Append(taken.path, e)]  n == Len(paths)
<1>1. /\ e.target \notin passed /\ ahead' = ahead \ {e} /\ paths' = Append(paths, r) /\ UNCHANGED question
      /\ goal' = goal /\ passed' = passed /\ taken' = taken /\ found' = found
  BY DEF Extend
<1>2. Far' = Far /\ RowsOf' = RowsOf /\ Trails' = Trails
  BY <1>1, SamePaths
<1>3. table' = table /\ start' = start /\ opts' = opts
  BY <1>1 DEF question
<1>4. PathTypeOK /\ Led /\ Shortest /\ Explored
  BY DEF PathInv
<1>5. /\ paths \in Seq(R) /\ taken \in R /\ taken.node \in Nodes /\ taken.path \in Seq(table)
      /\ Len(taken.path) \in Nat /\ e \in table /\ e.target \in Nodes /\ Asking
  <2>1. paths \in Seq(R) /\ taken \in R /\ e \in table /\ Asking
    BY <1>4 DEF PathTypeOK
  <2>2. e.target \in Nodes
    BY <2>1, AskedOptions
  <2> QED BY <2>1, <2>2
<1>6. /\ taken.node \in passed /\ ahead \subseteq RowsOf[taken.node] /\ Nearby(taken.node, taken.path) /\ ~found
  BY <1>4 DEF Shortest
<1>7. r.node = e.target /\ r.path = Append(taken.path, e) /\ r \in R /\ Len(r.path) = Len(taken.path) + 1
  BY <1>5
<1>8. <<r.path, r.node>> \in Trails
  <2>1. <<taken.path, taken.node>> \in Trails
    BY <1>4 DEF Led
  <2> QED BY <2>1, <1>5, <1>6, <1>7, TrailOn
<1>9. \A i \in DOMAIN paths : Len(paths[i].path) \in Nat
  BY <1>5, PathEntry
<1> HIDE DEF R, r
<1>10. /\ paths' \in Seq(R) /\ n \in Nat /\ DOMAIN paths = 1..n /\ DOMAIN paths' = 1..(n + 1)
       /\ paths'[n + 1] = r /\ \A i \in 1..n : paths'[i] = paths[i]
  BY <1>1, <1>5, <1>7
<1> HIDE DEF n
<1>11. \A i \in 1..(n + 1) : i = n + 1 \/ i \in 1..n
  BY <1>10
<1>12. PathTypeOK'
  BY <1>1, <1>3, <1>4, <1>10 DEF PathTypeOK, Asking, R
<1>13. Led'
  <2>1. /\ \A i \in 1..n : /\ <<paths[i].path, paths[i].node>> \in Trails
                           /\ Len(taken.path) <= Len(paths[i].path)
                           /\ Len(paths[i].path) <= Len(taken.path) + 1
        /\ \A i, j \in 1..n : i <= j => Len(paths[i].path) <= Len(paths[j].path)
    BY <1>4, <1>10 DEF Led
  <2>2. \A i \in 1..(n + 1) : /\ <<paths'[i].path, paths'[i].node>> \in Trails
                              /\ Len(taken.path) <= Len(paths'[i].path)
                              /\ Len(paths'[i].path) <= Len(taken.path) + 1
    <3> SUFFICES ASSUME NEW i \in 1..(n + 1)
                 PROVE  /\ <<paths'[i].path, paths'[i].node>> \in Trails
                        /\ Len(taken.path) <= Len(paths'[i].path)
                        /\ Len(paths'[i].path) <= Len(taken.path) + 1
      OBVIOUS
    <3>1. CASE i = n + 1
      <4>1. paths'[i] = r
        BY <3>1, <1>10
      <4> QED BY <4>1, <1>5, <1>7, <1>8
    <3>2. CASE i \in 1..n
      <4>1. paths'[i] = paths[i]
        BY <3>2, <1>10
      <4> QED BY <3>2, <4>1, <2>1
    <3> QED BY <3>1, <3>2, <1>11
  <2>3. \A i, j \in 1..(n + 1) : i <= j => Len(paths'[i].path) <= Len(paths'[j].path)
    <3> SUFFICES ASSUME NEW i \in 1..(n + 1), NEW j \in 1..(n + 1), i <= j
                 PROVE  Len(paths'[i].path) <= Len(paths'[j].path)
      OBVIOUS
    <3>1. CASE j = n + 1
      BY <3>1, <2>2, <1>7, <1>10
    <3>2. CASE j \in 1..n
      <4>1. i \in 1..n
        BY <3>2, <1>10
      <4> QED BY <4>1, <3>2, <2>1, <1>10
    <3> QED BY <3>1, <3>2, <1>11
  <2> QED BY <1>1, <1>2, <1>4, <1>10, <2>2, <2>3 DEF Led
<1>14. Shortest'
  BY <1>1, <1>2, <1>4, <1>6 DEF Shortest, Nearby
<1>15. Explored'
  <2>1. ASSUME NEW x \in passed, NEW d \in RowsOf[x]
        PROVE  \/ d.target \in passed \/ (x = taken.node /\ d \in ahead')
               \/ \E i \in DOMAIN paths' : /\ paths'[i].node = d.target
                                           /\ \A k \in Nat : <<x, k>> \in Far => Len(paths'[i].path) <= k + 1
    <3>1. d.target \in passed \/ (x = taken.node /\ d \in ahead) \/ Awaited(x, d)
      BY <1>4, <1>6 DEF Explored
    <3>2. CASE x = taken.node /\ d = e
      <4>1. n + 1 \in DOMAIN paths' /\ paths'[n + 1].node = d.target
        BY <3>2, <1>7, <1>10
      <4>2. \A k \in Nat : <<x, k>> \in Far => Len(paths'[n + 1].path) <= k + 1
        BY <3>2, <1>5, <1>6, <1>7, <1>10 DEF Nearby
      <4> QED BY <4>1, <4>2
    <3>3. CASE Awaited(x, d)
      <4>1. PICK i \in 1..n : /\ paths[i].node = d.target
                              /\ \A k \in Nat : <<x, k>> \in Far => Len(paths[i].path) <= k + 1
        BY <3>3, <1>10 DEF Awaited
      <4>2. i \in DOMAIN paths' /\ paths'[i] = paths[i]
        BY <1>10
      <4> QED BY <4>1, <4>2
    <3>4. CASE x = taken.node /\ d \in ahead /\ d # e
      BY <3>4, <1>1
    <3> QED BY <3>1, <3>2, <3>3, <3>4
  <2>2. start \in passed
    BY <1>4, <1>6 DEF Explored
  <2> QED BY <1>1, <1>2, <1>3, <2>1, <2>2 DEF Explored, Awaited
<1> QED BY <1>12, <1>13, <1>14, <1>15 DEF PathInv

LEMMA PathNextInv == PathInv /\ [PathNext]_<<question, pathVars>> => PathInv'
<1> SUFFICES ASSUME PathInv, [PathNext]_<<question, pathVars>> PROVE PathInv'
  OBVIOUS
<1>1. CASE Arrive
  BY <1>1, ArriveInv
<1>2. CASE Expand
  BY <1>2, ExpandInv
<1>3. ASSUME NEW e \in ahead, Leave(e)
      PROVE  PathInv'
  BY <1>3, LeaveInv
<1>4. ASSUME NEW e \in ahead, Extend(e)
      PROVE  PathInv'
  BY <1>4, ExtendInv
<1>5. CASE UNCHANGED <<question, pathVars>>
  <2>1. /\ UNCHANGED question /\ goal' = goal /\ paths' = paths /\ passed' = passed /\ taken' = taken
        /\ ahead' = ahead /\ found' = found
    BY <1>5 DEF pathVars
  <2>2. Far' = Far /\ RowsOf' = RowsOf /\ Trails' = Trails
    BY <2>1, SamePaths
  <2>3. table' = table /\ start' = start /\ opts' = opts
    BY <2>1 DEF question
  <2>4. PathTypeOK'
    BY <2>1, <2>3 DEF PathInv, PathTypeOK, Asking
  <2>5. Led' /\ Shortest'
    BY <2>1, <2>2 DEF PathInv, Led, Shortest, Nearby
  <2>6. Explored'
    BY <2>1, <2>2, <2>3 DEF PathInv, Explored, Awaited
  <2> QED BY <2>4, <2>5, <2>6 DEF PathInv
<1> QED BY <1>1, <1>2, <1>3, <1>4, <1>5 DEF PathNext

\* The path findPath returns leads from the one end to the other over rows of the
\* kinds asked for, no other has fewer rows, and null means there is none.
THEOREM PathCorrect == PathSpec => []PathShortest
<1>1. PathSpec => []PathInv
  <2>1. (table \in Tables /\ start \in Nodes /\ opts \in Asked) /\ PathInit => PathInv
    BY PathInitInv DEF Asking
  <2> QED BY <2>1, PathNextInv, PTL DEF PathSpec
<1>2. PathInv => PathShortest
  <2> SUFFICES ASSUME PathInv PROVE PathShortest
    OBVIOUS
  <2>1. PathTypeOK /\ Led /\ Shortest /\ Explored
    BY DEF PathInv
  <2>2. taken.path \in Seq(table) /\ Len(taken.path) \in Nat /\ goal \in Nodes /\ passed \subseteq Nodes
    BY <2>1 DEF PathTypeOK
  <2>3. ASSUME found
        PROVE  Trail(taken.path, goal) /\ \A k \in 0..(Len(taken.path) - 1) : ~Afar(goal, k)
    <3>1. taken.node = goal /\ Nearby(goal, taken.path)
      BY <2>1, <2>3 DEF Shortest
    <3>2. Trail(taken.path, goal)
      BY <2>1, <3>1 DEF Led, Trails
    <3>3. ASSUME NEW k \in 0..(Len(taken.path) - 1)
          PROVE  ~Afar(goal, k)
      <4>1. k \in Nat /\ ~(Len(taken.path) <= k)
        BY <2>2
      <4>2. <<goal, k>> \notin Far
        BY <3>1, <4>1 DEF Nearby
      <4> QED BY <2>2, <4>1, <4>2, InFar DEF Afar
    <3> QED BY <3>2, <3>3
  <2>4. ASSUME ahead = {}, paths = <<>>, ~found
        PROVE  CutOff
    <3>1. DOMAIN paths = {}
      BY <2>4
    <3>2. start \in passed /\ goal \notin passed
      BY <2>1, <2>4, <3>1 DEF Shortest, Explored
    <3>3. \A n \in passed : \A e \in RowsOf[n] : e.target \in passed
      BY <2>1, <2>4, <3>1 DEF Explored, Awaited
    <3>4. \A n \in passed : \A e \in Outgoing(n) : e.target \in passed
      BY <2>2, <3>3, InRowsOf
    <3> QED BY <2>2, <3>2, <3>4 DEF CutOff
  <2> QED BY <2>3, <2>4 DEF PathShortest
<1> QED BY <1>1, <1>2, PTL

-----------------------------------------------------------------------------
(* Stacks.                                                                    *)

LEMMA FrontOf ==
  ASSUME NEW S, NEW q \in Seq(S), q # <<>>
  PROVE  /\ Front(q) \in Seq(S) /\ Len(q) \in Nat /\ Len(q) \in DOMAIN q /\ DOMAIN q = 1..Len(q)
         /\ Len(Front(q)) = Len(q) - 1 /\ DOMAIN Front(q) = 1..(Len(q) - 1)
         /\ \A i \in DOMAIN Front(q) : i \in DOMAIN q /\ i < Len(q) /\ Front(q)[i] = q[i]
<1>1. Len(q) \in Nat /\ Len(q) # 0 /\ DOMAIN q = 1..Len(q)
  OBVIOUS
<1>2. Front(q) = SubSeq(q, 1, Len(q) - 1)
  BY DEF Front
<1> QED BY <1>1, <1>2

LEMMA Pushed ==
  ASSUME NEW S, NEW q \in Seq(S), NEW r \in S
  PROVE  /\ Append(q, r) \in Seq(S) /\ Len(q) \in Nat /\ DOMAIN q = 1..Len(q)
         /\ Len(Append(q, r)) = Len(q) + 1 /\ DOMAIN Append(q, r) = 1..(Len(q) + 1)
         /\ Append(q, r)[Len(q) + 1] = r /\ \A i \in 1..Len(q) : Append(q, r)[i] = q[i]
         /\ \A i \in 1..(Len(q) + 1) : i = Len(q) + 1 \/ i \in 1..Len(q)
OBVIOUS

LEMMA ToSetOfAppend ==
  ASSUME NEW S, NEW q \in Seq(S), NEW r \in S
  PROVE  ToSet(Append(q, r)) = ToSet(q) \cup {r}
<1>1. /\ DOMAIN q = 1..Len(q) /\ DOMAIN Append(q, r) = 1..(Len(q) + 1) /\ Len(q) \in Nat
      /\ Append(q, r)[Len(q) + 1] = r /\ \A i \in 1..Len(q) : Append(q, r)[i] = q[i]
      /\ \A i \in 1..(Len(q) + 1) : i = Len(q) + 1 \/ i \in 1..Len(q)
  BY Pushed
<1>2. \A i \in 1..Len(q) : i \in 1..(Len(q) + 1)
  BY <1>1
<1>3. Len(q) + 1 \in 1..(Len(q) + 1)
  BY <1>1
<1> DEFINE p == Append(q, r)
<1> HIDE DEF p
<1>4. ToSet(p) = {p[i] : i \in DOMAIN p} /\ ToSet(q) = {q[i] : i \in DOMAIN q}
  BY DEF ToSet
<1> QED BY <1>1, <1>2, <1>3, <1>4 DEF p

-----------------------------------------------------------------------------
(* getCallers and getCallees: the inductive invariant.                        *)

\* Who is how far, and the rows of each node, as values.
CallFar == {w \in Nodes \X Nat : Joined(CallSteps, start, w[1], w[2])}
CallRowsOf == [n \in Nodes |-> CallRows(n)]

CallTypeOK ==
    /\ Asking /\ marked \subseteq Nodes
    /\ callers \in Seq([node : Nodes, edge : table])
    /\ calls \in Seq([node : Nodes, left : SUBSET table])

\* The calls in progress are of nodes that were marked, a step further each, and
\* no more than the depth has steps.
Nested ==
    /\ \A i \in DOMAIN calls : /\ calls[i].node \in marked /\ calls[i].left \subseteq CallRowsOf[calls[i].node]
                               /\ <<calls[i].node, i - 1>> \in CallFar
    /\ Len(calls) <= opts.maxDepth /\ Len(calls) <= Cardinality(marked)

\* Who was marked was reported, once, with a row that leads to it.
Reported ==
    /\ marked = {start} \cup Met /\ start \notin Met
    /\ \A i, j \in DOMAIN callers : callers[i].node = callers[j].node => i = j
    /\ \A i \in DOMAIN callers :
          /\ callers[i].edge \in CallRowsOf[Backward(callers[i].edge)] /\ Onward(callers[i].edge) = callers[i].node
          /\ Backward(callers[i].edge) \in {start} \cup {callers[j].node : j \in 1..(i - 1)}
          /\ <<callers[i].node, opts.maxDepth>> \in CallFar

\* Of a node that was marked the rows were followed, but for those to come, unless
\* the depth cut it off: then more nodes are marked than the depth has steps.
Looked(n) == \A e \in CallRowsOf[n] : \/ Onward(e) \in marked
                                      \/ \E i \in DOMAIN calls : calls[i].node = n /\ e \in calls[i].left
Followed ==
    /\ opts.maxDepth > 0 => Looked(start)
    /\ \A n \in marked : Looked(n) \/ Cardinality(marked) > opts.maxDepth

CallInv == CallTypeOK /\ Nested /\ Reported /\ Followed

LEMMA InCallFar ==
  ASSUME NEW m \in Nodes, NEW k \in Nat
  PROVE  <<m, k>> \in CallFar <=> Joined(CallSteps, start, m, k)
<1>1. <<m, k>> \in Nodes \X Nat /\ <<m, k>>[1] = m /\ <<m, k>>[2] = k
  OBVIOUS
<1> QED BY <1>1, Zenon DEF CallFar

LEMMA InCallRows == ASSUME NEW n \in Nodes PROVE CallRowsOf[n] = CallRows(n)
BY DEF CallRowsOf

LEMMA CallFarFacts ==
  ASSUME start \in Nodes
  PROVE  /\ <<start, 0>> \in CallFar
         /\ \A m \in Nodes, j, k \in Nat : j <= k /\ <<m, j>> \in CallFar => <<m, k>> \in CallFar
         /\ \A n, m \in Nodes, k \in Nat : <<n, k>> \in CallFar /\ (\E e \in CallRowsOf[n] : Onward(e) = m) =>
               <<m, k + 1>> \in CallFar
<1>1. \A n, m \in Nodes : <<n, m>> \in CallSteps <=> n = m \/ \E e \in CallRowsOf[n] : Onward(e) = m
  <2> SUFFICES ASSUME NEW n \in Nodes, NEW m \in Nodes
               PROVE  <<n, m>> \in CallSteps <=> n = m \/ \E e \in CallRowsOf[n] : Onward(e) = m
    OBVIOUS
  <2>1. <<n, m>> \in Nodes \X Nodes /\ <<n, m>>[1] = n /\ <<n, m>>[2] = m
    OBVIOUS
  <2>2. <<n, m>> \in CallSteps <=> n = m \/ \E e \in CallRows(n) : Onward(e) = m
    BY <2>1, Zenon DEF CallSteps
  <2> QED BY <2>2, InCallRows
<1>2. <<start, 0>> \in CallFar
  BY InCallFar, JoinedZero
<1>3. ASSUME NEW m \in Nodes, NEW j \in Nat, NEW k \in Nat, j <= k, <<m, j>> \in CallFar
      PROVE  <<m, k>> \in CallFar
  <2>1. \A x \in Nodes : <<x, x>> \in CallSteps
    BY <1>1
  <2>2. Joined(CallSteps, start, m, j)
    BY <1>3, InCallFar
  <2>3. Joined(CallSteps, start, m, k)
    BY <1>3, <2>1, <2>2, JoinedMore
  <2> QED BY <2>3, InCallFar
<1>4. ASSUME NEW n \in Nodes, NEW m \in Nodes, NEW k \in Nat, <<n, k>> \in CallFar, \E e \in CallRowsOf[n] : Onward(e) = m
      PROVE  <<m, k + 1>> \in CallFar
  <2>1. <<n, m>> \in CallSteps /\ Joined(CallSteps, start, n, k) /\ k + 1 \in Nat
    BY <1>1, <1>4, InCallFar
  <2>2. Joined(CallSteps, start, m, k + 1)
    BY <2>1, JoinedStep
  <2> QED BY <2>1, <2>2, InCallFar
<1> QED BY <1>2, <1>3, <1>4

LEMMA SameCalls ==
  ASSUME UNCHANGED question
  PROVE  /\ CallFar' = CallFar /\ CallRowsOf' = CallRowsOf /\ table' = table /\ start' = start /\ opts' = opts
         /\ \A e : Onward(e)' = Onward(e) /\ Backward(e)' = Backward(e)
<1>1. table' = table /\ start' = start /\ opts' = opts
  BY DEF question
<1>2. \A e : Onward(e)' = Onward(e) /\ Backward(e)' = Backward(e)
  BY <1>1 DEF Onward, Backward
<1>3. \A n : CallRows(n)' = CallRows(n)
  BY <1>1, <1>2, Zenon DEF CallRows
<1>4. CallSteps' = CallSteps
  BY <1>2, <1>3, Zenon DEF CallSteps
<1>5. \A m, k : Joined(CallSteps', start', m, k) <=> Joined(CallSteps, start, m, k)
  BY <1>1, <1>4
<1>6. CallFar' = CallFar
  BY <1>5, Zenon DEF CallFar
<1>7. CallRowsOf' = CallRowsOf
  BY <1>3, Zenon DEF CallRowsOf
<1> QED BY <1>1, <1>2, <1>6, <1>7

\* A row of a node leads on to a node.
LEMMA CallEnds ==
  ASSUME Asking, NEW n \in Nodes, NEW e \in CallRowsOf[n]
  PROVE  e \in table /\ Backward(e) = n /\ Onward(e) \in Nodes /\ e \in CallRowsOf[Backward(e)]
<1>1. e \in table /\ Backward(e) = n
  BY InCallRows DEF CallRows
<1>2. e.source \in Nodes /\ e.target \in Nodes
  BY <1>1, AskedOptions
<1> QED BY <1>1, <1>2 DEF Onward

LEMMA Size ==
  ASSUME NEW S, S \subseteq Nodes
  PROVE  /\ IsFiniteSet(S) /\ Cardinality(S) \in Nat
         /\ \A m : m \notin S => Cardinality(S \cup {m}) = Cardinality(S) + 1
<1>1. IsFiniteSet(S) /\ Cardinality(S) \in Nat
  BY GraphAssumption, FS_Subset, FS_CardinalityType
<1>2. \A m : m \notin S => Cardinality(S \cup {m}) = Cardinality(S) + 1
  BY <1>1, FS_AddElement
<1> QED BY <1>1, <1>2

-----------------------------------------------------------------------------
(* getCallers and getCallees: the steps.                                      *)

\* A call that is entered, within the depth.
LEMMA Frame ==
  ASSUME Asking, NEW m \in Nodes
  PROVE  [node |-> m, left |-> CallRows(m)] \in [node : Nodes, left : SUBSET table]
BY DEF CallRows

LEMMA CallInitInv == Asking /\ CallInit => CallInv
<1> SUFFICES ASSUME Asking, CallInit PROVE CallInv
  OBVIOUS
<1> DEFINE S == [node : Nodes, left : SUBSET table]  r == [node |-> start, left |-> CallRows(start)]
<1>1. /\ calls = (IF Len(<<>>) < opts.maxDepth THEN Append(<<>>, r) ELSE <<>>)
      /\ marked = {start} /\ callers = <<>>
  BY DEF CallInit, Enter
<1>2. start \in Nodes /\ opts.maxDepth \in Nat
  BY AskedOptions
<1>3. r \in S /\ r.node = start /\ r.left = CallRowsOf[start]
  BY <1>2, Frame, InCallRows
<1>4. DOMAIN callers = {} /\ Met = {}
  BY <1>1 DEF Met
<1>5. Cardinality(marked) = 1
  BY <1>1, FS_Singleton, Zenon
<1>6. <<start, 0>> \in CallFar
  BY <1>2, CallFarFacts
<1> HIDE DEF S, r
<1>7. /\ calls \in Seq(S) /\ Len(calls) <= 1 /\ Len(calls) <= opts.maxDepth
      /\ \A i \in DOMAIN calls : i = 1 /\ calls[i] = r
      /\ opts.maxDepth > 0 => 1 \in DOMAIN calls
  <2>1. CASE opts.maxDepth > 0
    <3>1. calls = <<r>>
      BY <1>1, <1>2, <2>1
    <3> QED BY <1>2, <1>3, <2>1, <3>1
  <2>2. CASE opts.maxDepth = 0
    <3>1. calls = <<>>
      BY <1>1, <2>2
    <3> QED BY <2>2, <3>1
  <2> QED BY <1>2, <2>1, <2>2
<1>8. CallTypeOK
  BY <1>1, <1>2, <1>7 DEF CallTypeOK, S
<1>9. Nested
  <2>1. \A i \in DOMAIN calls : i - 1 = 0
    BY <1>7
  <2> QED BY <1>1, <1>3, <1>5, <1>6, <1>7, <2>1 DEF Nested
<1>10. Reported
  BY <1>1, <1>4 DEF Reported
<1>11. Followed
  <2>1. opts.maxDepth > 0 => Looked(start)
    BY <1>3, <1>7 DEF Looked
  <2> QED BY <1>1, <1>2, <1>5, <2>1 DEF Followed
<1> QED BY <1>8, <1>9, <1>10, <1>11 DEF CallInv

\* The stack when the innermost call has come to a row.
LEMMA PastRow ==
  ASSUME CallInv, calls # <<>>, NEW e \in Innermost.left
  PROVE  /\ Past(e) \in Seq([node : Nodes, left : SUBSET table])
         /\ Len(Past(e)) = Len(calls) /\ DOMAIN Past(e) = 1..Len(calls) /\ Len(calls) \in Nat
         /\ DOMAIN calls = 1..Len(calls) /\ Len(calls) \in DOMAIN calls
         /\ \A i \in DOMAIN calls : /\ Past(e)[i].node = calls[i].node
                                    /\ Past(e)[i].left = IF i = Len(calls) THEN calls[i].left \ {e} ELSE calls[i].left
         /\ Innermost.node \in marked /\ e \in CallRowsOf[Innermost.node]
         /\ <<Innermost.node, Len(calls) - 1>> \in CallFar
<1> DEFINE S == [node : Nodes, left : SUBSET table]  n == Len(calls)
<1>1. calls \in Seq(S)
  BY DEF CallInv, CallTypeOK
<1>2. n \in Nat /\ n \in DOMAIN calls /\ DOMAIN calls = 1..n
  <2> HIDE DEF S
  <2> QED BY <1>1, FrontOf
<1>3. \A i \in DOMAIN calls : calls[i] \in S
  <2> HIDE DEF S
  <2> QED BY <1>1
<1>4. Innermost = calls[n]
  BY DEF Innermost
<1> DEFINE r == [calls[n] EXCEPT !.left = @ \ {e}]
<1>5. Past(e) = [calls EXCEPT ![n] = r]
  BY DEF Past
<1>6. r \in S /\ r.node = calls[n].node /\ r.left = calls[n].left \ {e}
  BY <1>2, <1>3
<1> HIDE DEF S, r, n
<1>7. /\ Past(e) \in Seq(S) /\ Len(Past(e)) = n /\ DOMAIN Past(e) = 1..n
      /\ Past(e)[n] = r /\ \A i \in 1..n : i # n => Past(e)[i] = calls[i]
  BY <1>1, <1>2, <1>5, <1>6 DEF n
<1>8. \A i \in DOMAIN calls : /\ Past(e)[i].node = calls[i].node
                              /\ Past(e)[i].left = IF i = n THEN calls[i].left \ {e} ELSE calls[i].left
  BY <1>2, <1>6, <1>7
<1>9. /\ calls[n].node \in marked /\ calls[n].left \subseteq CallRowsOf[calls[n].node]
      /\ <<calls[n].node, n - 1>> \in CallFar
  BY <1>2 DEF CallInv, Nested
<1> QED BY <1>2, <1>4, <1>7, <1>8, <1>9 DEF n, S

\* What is left of the calls in progress when the innermost has come to row e.
LEMMA StillLeft ==
  ASSUME CallInv, calls # <<>>, NEW e \in Innermost.left
  PROVE  \A n \in marked : \A d \in CallRowsOf[n] :
           \/ Onward(d) \in marked \cup {Onward(e)} \/ ~Looked(n)
           \/ \E i \in 1..Len(calls) : Past(e)[i].node = n /\ d \in Past(e)[i].left
<1> DEFINE Q == Past(e)
<1>1. /\ DOMAIN calls = 1..Len(calls)
      /\ \A i \in DOMAIN calls : /\ Q[i].node = calls[i].node
                                 /\ Q[i].left = IF i = Len(calls) THEN calls[i].left \ {e} ELSE calls[i].left
  BY PastRow
<1> HIDE DEF Q
<1> SUFFICES ASSUME NEW n \in marked, NEW d \in CallRowsOf[n], Looked(n), Onward(d) \notin marked \cup {Onward(e)}
             PROVE  \E i \in 1..Len(calls) : Q[i].node = n /\ d \in Q[i].left
  BY DEF Q
<1>2. PICK i \in DOMAIN calls : calls[i].node = n /\ d \in calls[i].left
  BY DEF Looked
<1>3. d # e
  OBVIOUS
<1> QED BY <1>1, <1>2, <1>3

LEMMA MeetAgainInv == ASSUME CallInv, calls # <<>>, NEW e \in Innermost.left, MeetAgain(e) PROVE CallInv'
<1> DEFINE Q == Past(e)
<1>1. /\ Onward(e) \in marked /\ calls' = Q /\ UNCHANGED question /\ marked' = marked /\ callers' = callers
  BY DEF MeetAgain
<1>2. /\ CallFar' = CallFar /\ CallRowsOf' = CallRowsOf /\ table' = table /\ start' = start /\ opts' = opts
      /\ \A x : Onward(x)' = Onward(x) /\ Backward(x)' = Backward(x)
  BY <1>1, SameCalls
<1>3. CallTypeOK /\ Nested /\ Reported /\ Followed
  BY DEF CallInv
<1>4. /\ Q \in Seq([node : Nodes, left : SUBSET table])
      /\ Len(Q) = Len(calls) /\ DOMAIN Q = 1..Len(calls)
      /\ DOMAIN calls = 1..Len(calls)
      /\ \A i \in DOMAIN calls : /\ Q[i].node = calls[i].node
                                 /\ Q[i].left = IF i = Len(calls) THEN calls[i].left \ {e} ELSE calls[i].left
  BY PastRow
<1>5. \A n \in marked : \A d \in CallRowsOf[n] :
           \/ Onward(d) \in marked \cup {Onward(e)} \/ ~Looked(n)
           \/ \E i \in 1..Len(calls) : Q[i].node = n /\ d \in Q[i].left
  BY StillLeft
<1> HIDE DEF Q
<1>6. \A n \in marked : Looked(n) => Looked(n)'
  BY <1>1, <1>2, <1>4, <1>5 DEF Looked
<1>7. CallTypeOK'
  BY <1>1, <1>2, <1>3, <1>4 DEF CallTypeOK, Asking
<1>8. Nested'
  BY <1>1, <1>2, <1>3, <1>4 DEF Nested
<1>9. Reported'
  BY <1>1, <1>2, <1>3 DEF Reported, Met
<1>10. Followed'
  <2>1. start \in marked
    BY <1>3 DEF Reported
  <2> QED BY <1>1, <1>2, <1>3, <1>6, <2>1 DEF Followed
<1> QED BY <1>7, <1>8, <1>9, <1>10 DEF CallInv

LEMMA ReturnInv == CallInv /\ calls # <<>> /\ Return => CallInv'
<1> SUFFICES ASSUME CallInv, calls # <<>>, Return PROVE CallInv'
  OBVIOUS
<1> DEFINE Q == Front(calls)  S == [node : Nodes, left : SUBSET table]
<1>1. /\ calls[Len(calls)].left = {} /\ calls' = Q /\ UNCHANGED question /\ marked' = marked /\ callers' = callers
  BY DEF Return, Innermost
<1>2. /\ CallFar' = CallFar /\ CallRowsOf' = CallRowsOf /\ table' = table /\ start' = start /\ opts' = opts
      /\ \A x : Onward(x)' = Onward(x) /\ Backward(x)' = Backward(x)
  BY <1>1, SameCalls
<1>3. CallTypeOK /\ Nested /\ Reported /\ Followed
  BY DEF CallInv
<1>4. /\ Q \in Seq(S) /\ Len(calls) \in Nat
      /\ Len(Q) = Len(calls) - 1 /\ DOMAIN Q = 1..(Len(calls) - 1) /\ DOMAIN calls = 1..Len(calls)
      /\ \A i \in DOMAIN Q : i \in DOMAIN calls /\ Q[i] = calls[i]
  <2>1. calls \in Seq(S)
    BY <1>3 DEF CallTypeOK
  <2> HIDE DEF S
  <2> QED BY <2>1, FrontOf
<1> HIDE DEF Q, S
<1>5. opts.maxDepth \in Nat /\ Cardinality(marked) \in Nat
  BY <1>3, AskedOptions, Size DEF CallTypeOK
<1>6. \A n \in marked : Looked(n) => Looked(n)'
  <2> SUFFICES ASSUME NEW n \in marked, Looked(n), NEW d \in CallRowsOf[n], Onward(d) \notin marked
               PROVE  \E i \in DOMAIN Q : Q[i].node = n /\ d \in Q[i].left
    BY <1>1, <1>2 DEF Looked
  <2>1. PICK i \in DOMAIN calls : calls[i].node = n /\ d \in calls[i].left
    BY DEF Looked
  <2>2. i # Len(calls)
    BY <1>1, <2>1
  <2>3. i \in DOMAIN Q
    BY <1>4, <2>2
  <2> QED BY <1>4, <2>1, <2>3
<1>7. CallTypeOK'
  BY <1>1, <1>2, <1>3, <1>4 DEF CallTypeOK, Asking, S
<1>8. Nested'
  <2>1. Len(Q) <= opts.maxDepth /\ Len(Q) <= Cardinality(marked)
    BY <1>3, <1>4, <1>5 DEF Nested
  <2> QED BY <1>1, <1>2, <1>3, <1>4, <2>1 DEF Nested
<1>9. Reported'
  BY <1>1, <1>2, <1>3 DEF Reported, Met
<1>10. Followed'
  <2>1. start \in marked
    BY <1>3 DEF Reported
  <2> QED BY <1>1, <1>2, <1>3, <1>6, <2>1 DEF Followed
<1> QED BY <1>7, <1>8, <1>9, <1>10 DEF CallInv

LEMMA MeetInv == ASSUME CallInv, calls # <<>>, NEW e \in Innermost.left, Meet(e) PROVE CallInv'
<1> DEFINE Q == Past(e)  x == Onward(e)  n == Len(calls)  k == Len(callers)
           S == [node : Nodes, left : SUBSET table]  T == [node : Nodes, edge : table]
           r == [node |-> x, left |-> CallRows(x)]  w == [node |-> x, edge |-> e]
<1>1. /\ x \notin marked /\ callers' = Append(callers, w) /\ marked' = marked \cup {x} /\ UNCHANGED question
      /\ calls' = IF Len(Q) < opts.maxDepth THEN Append(Q, r) ELSE Q
  BY Zenon DEF Meet, Mark, Enter
<1>2. /\ CallFar' = CallFar /\ CallRowsOf' = CallRowsOf /\ table' = table /\ start' = start /\ opts' = opts
      /\ \A d : Onward(d)' = Onward(d) /\ Backward(d)' = Backward(d)
  BY <1>1, SameCalls
<1>3. CallTypeOK /\ Nested /\ Reported /\ Followed
  BY DEF CallInv
<1>4. /\ Q \in Seq(S) /\ Len(Q) = n /\ DOMAIN Q = 1..n /\ n \in Nat /\ DOMAIN calls = 1..n /\ n \in DOMAIN calls
      /\ \A i \in DOMAIN calls : /\ Q[i].node = calls[i].node
                                 /\ Q[i].left = IF i = n THEN calls[i].left \ {e} ELSE calls[i].left
      /\ Innermost.node \in marked /\ e \in CallRowsOf[Innermost.node]
      /\ <<Innermost.node, n - 1>> \in CallFar
  BY PastRow
<1>5. \A m \in marked : \A d \in CallRowsOf[m] :
           \/ Onward(d) \in marked \cup {x} \/ ~Looked(m)
           \/ \E i \in 1..n : Q[i].node = m /\ d \in Q[i].left
  BY StillLeft
<1>6. /\ marked \subseteq Nodes /\ start \in Nodes /\ opts.maxDepth \in Nat /\ Cardinality(marked) \in Nat
      /\ Cardinality(marked \cup {x}) = Cardinality(marked) + 1 /\ Asking /\ callers \in Seq(T)
  BY <1>1, <1>3, AskedOptions, Size DEF CallTypeOK
<1>7. /\ e \in table /\ x \in Nodes /\ Backward(e) = Innermost.node /\ e \in CallRowsOf[Backward(e)]
  BY <1>4, <1>6, CallEnds
<1>8. r \in S /\ r.node = x /\ r.left = CallRowsOf[x]
  BY <1>6, <1>7, Frame, InCallRows
<1>9. w \in T /\ w.node = x /\ w.edge = e
  BY <1>7
<1>10. <<x, n>> \in CallFar
  <2>1. n - 1 \in Nat /\ (n - 1) + 1 = n /\ Innermost.node \in Nodes
    BY <1>4, <1>6
  <2>2. <<x, (n - 1) + 1>> \in CallFar
    BY <1>4, <1>6, <1>7, <2>1, CallFarFacts
  <2> QED BY <2>1, <2>2
<1>11. n <= opts.maxDepth /\ n <= Cardinality(marked)
  BY <1>3 DEF Nested
<1>12. <<x, opts.maxDepth>> \in CallFar
  BY <1>4, <1>6, <1>7, <1>10, <1>11, CallFarFacts
<1> HIDE DEF Q, x, S, T, r, w, n
<1>13. /\ Append(Q, r) \in Seq(S) /\ DOMAIN Append(Q, r) = 1..(n + 1) /\ Len(Append(Q, r)) = n + 1
       /\ Append(Q, r)[n + 1] = r /\ \A i \in 1..n : Append(Q, r)[i] = Q[i]
       /\ \A i \in 1..(n + 1) : i = n + 1 \/ i \in 1..n
  BY <1>4, <1>8, Pushed
<1>14. /\ calls' \in Seq(S) /\ \A i \in 1..n : i \in DOMAIN calls' /\ calls'[i] = Q[i]
       /\ \/ /\ n < opts.maxDepth /\ DOMAIN calls' = 1..(n + 1) /\ Len(calls') = n + 1 /\ n + 1 \in DOMAIN calls'
             /\ calls'[n + 1] = r /\ \A i \in DOMAIN calls' : i = n + 1 \/ i \in 1..n
          \/ n = opts.maxDepth /\ DOMAIN calls' = 1..n /\ Len(calls') = n
  <2>1. CASE n < opts.maxDepth
    <3>1. calls' = Append(Q, r)
      BY <1>1, <1>4, <2>1
    <3>2. \A i \in 1..n : i \in 1..(n + 1)
      BY <1>4
    <3>3. n + 1 \in 1..(n + 1)
      BY <1>4
    <3> QED BY <2>1, <3>1, <3>2, <3>3, <1>13
  <2>2. CASE n = opts.maxDepth
    <3>1. calls' = Q
      BY <1>1, <1>4, <2>2
    <3> QED BY <2>2, <3>1, <1>4
  <2> QED BY <1>4, <1>6, <1>11, <2>1, <2>2
<1>15. \A m \in marked : Looked(m) => Looked(m)'
  <2> SUFFICES ASSUME NEW m \in marked, Looked(m), NEW d \in CallRowsOf[m], Onward(d) \notin marked \cup {x}
               PROVE  \E i \in DOMAIN calls' : calls'[i].node = m /\ d \in calls'[i].left
    BY <1>1, <1>2 DEF Looked
  <2>1. PICK i \in 1..n : Q[i].node = m /\ d \in Q[i].left
    BY <1>5
  <2>2. i \in DOMAIN calls' /\ calls'[i] = Q[i]
    BY <1>14
  <2> QED BY <2>1, <2>2
<1>16. CallTypeOK'
  <2>1. Append(callers, w) \in Seq(T)
    BY <1>6, <1>9
  <2>2. Asking'
    BY <1>2, <1>6 DEF Asking
  <2>3. marked' \subseteq Nodes
    BY <1>1, <1>6, <1>7
  <2> QED BY <1>1, <1>2, <1>14, <2>1, <2>2, <2>3 DEF CallTypeOK, S, T
<1>17. Nested'
  <2>1. ASSUME NEW i \in 1..n
        PROVE  /\ calls'[i].node \in marked /\ calls'[i].left \subseteq CallRowsOf[calls'[i].node]
               /\ <<calls'[i].node, i - 1>> \in CallFar
    <3>1. /\ calls[i].node \in marked /\ calls[i].left \subseteq CallRowsOf[calls[i].node]
          /\ <<calls[i].node, i - 1>> \in CallFar
      BY <1>3, <1>4 DEF Nested
    <3>2. calls'[i].node = calls[i].node /\ calls'[i].left \subseteq calls[i].left
      BY <1>4, <1>14
    <3> QED BY <3>1, <3>2
  <2>2. ASSUME NEW i \in DOMAIN calls', i \notin 1..n
        PROVE  /\ calls'[i].node \in marked' /\ calls'[i].left \subseteq CallRowsOf[calls'[i].node]
               /\ <<calls'[i].node, i - 1>> \in CallFar
    <3>1. i = n + 1 /\ calls'[i] = r /\ i - 1 = n
      BY <1>4, <1>14, <2>2
    <3> QED BY <3>1, <1>1, <1>8, <1>10
  <2>3. Len(calls') <= opts.maxDepth /\ Len(calls') <= Cardinality(marked')
    BY <1>1, <1>4, <1>6, <1>11, <1>14
  <2>4. \A i \in DOMAIN calls' : /\ calls'[i].node \in marked' /\ calls'[i].left \subseteq CallRowsOf[calls'[i].node]
                                 /\ <<calls'[i].node, i - 1>> \in CallFar
    BY <1>1, <2>1, <2>2
  <2> QED BY <1>2, <2>3, <2>4 DEF Nested
<1>18. Reported'
  <2>1. /\ callers' \in Seq(T) /\ DOMAIN callers = 1..k /\ DOMAIN callers' = 1..(k + 1) /\ k \in Nat
        /\ callers'[k + 1] = w /\ \A i \in 1..k : callers'[i] = callers[i]
        /\ \A i \in 1..(k + 1) : i = k + 1 \/ i \in 1..k
    BY <1>1, <1>6, <1>9, Pushed
  <2> HIDE DEF k
  <2>2. k + 1 \in 1..(k + 1) /\ \A i \in 1..k : i \in 1..(k + 1) /\ i - 1 <= k
    BY <2>1
  <2>3. /\ marked = {start} \cup Met /\ start \notin Met
        /\ \A i, j \in 1..k : callers[i].node = callers[j].node => i = j
        /\ \A i \in 1..k :
              /\ callers[i].edge \in CallRowsOf[Backward(callers[i].edge)] /\ Onward(callers[i].edge) = callers[i].node
              /\ Backward(callers[i].edge) \in {start} \cup {callers[j].node : j \in 1..(i - 1)}
              /\ <<callers[i].node, opts.maxDepth>> \in CallFar
    BY <1>3, <2>1 DEF Reported
  <2>4. Met = {callers[i].node : i \in 1..k}
    BY <2>1 DEF Met
  <2>5. Met' = Met \cup {x}
    <3>1. Met' = {callers'[i].node : i \in 1..(k + 1)}
      BY <2>1 DEF Met
    <3> QED BY <2>1, <2>2, <2>4, <3>1, <1>9
  <2>6. \A i \in 1..k : callers'[i].node \in marked
    BY <2>1, <2>3, <2>4
  <2>7. ASSUME NEW i \in 1..(k + 1), NEW j \in 1..(k + 1), callers'[i].node = callers'[j].node
        PROVE  i = j
    <3>1. CASE i = k + 1
      BY <3>1, <2>1, <2>6, <2>7, <1>1, <1>9
    <3>2. CASE j = k + 1
      BY <3>2, <2>1, <2>6, <2>7, <1>1, <1>9
    <3>3. CASE i \in 1..k /\ j \in 1..k
      BY <3>3, <2>1, <2>3, <2>7
    <3> QED BY <3>1, <3>2, <3>3, <2>1
  <2>8. ASSUME NEW i \in 1..(k + 1)
        PROVE  /\ callers'[i].edge \in CallRowsOf[Backward(callers'[i].edge)] /\ Onward(callers'[i].edge) = callers'[i].node
               /\ Backward(callers'[i].edge) \in {start} \cup {callers'[j].node : j \in 1..(i - 1)}
               /\ <<callers'[i].node, opts.maxDepth>> \in CallFar
    <3>1. CASE i = k + 1
      <4>1. callers'[i] = w /\ i - 1 = k
        BY <3>1, <2>1
      <4>2. Backward(e) \in {start} \cup {callers[j].node : j \in 1..k}
        BY <1>4, <1>7, <2>3, <2>4
      <4>3. {callers[j].node : j \in 1..k} = {callers'[j].node : j \in 1..k}
        BY <2>1
      <4> QED BY <4>1, <4>2, <4>3, <1>7, <1>9, <1>12 DEF x
    <3>2. CASE i \in 1..k
      <4>1. callers'[i] = callers[i] /\ \A j \in 1..(i - 1) : j \in 1..k
        BY <3>2, <2>1
      <4>2. {callers[j].node : j \in 1..(i - 1)} = {callers'[j].node : j \in 1..(i - 1)}
        BY <4>1, <2>1
      <4>3. /\ callers[i].edge \in CallRowsOf[Backward(callers[i].edge)] /\ Onward(callers[i].edge) = callers[i].node
            /\ Backward(callers[i].edge) \in {start} \cup {callers[j].node : j \in 1..(i - 1)}
            /\ <<callers[i].node, opts.maxDepth>> \in CallFar
        BY <3>2, <2>3
      <4> QED BY <4>1, <4>2, <4>3
    <3> QED BY <3>1, <3>2, <2>1
  <2>9. marked' = {start} \cup Met' /\ start \notin Met'
    BY <1>1, <2>3, <2>5
  <2> QED BY <1>2, <2>1, <2>7, <2>8, <2>9 DEF Reported
<1>19. Followed'
  <2>1. start \in marked
    BY <1>3 DEF Reported
  <2>2. ASSUME NEW m, m = x
        PROVE  Looked(m)' \/ Cardinality(marked') > opts.maxDepth
    <3>1. CASE n < opts.maxDepth
      <4>1. n + 1 \in DOMAIN calls' /\ calls'[n + 1] = r
        BY <1>14, <3>1, <1>6
      <4> QED BY <4>1, <1>2, <1>8, <2>2 DEF Looked
    <3>2. CASE n = opts.maxDepth
      BY <3>2, <1>1, <1>6, <1>11
    <3> QED BY <3>1, <3>2, <1>4, <1>6, <1>11
  <2>3. ASSUME NEW m \in marked
        PROVE  Looked(m)' \/ Cardinality(marked') > opts.maxDepth
    <3>1. CASE Looked(m)
      BY <3>1, <1>15
    <3>2. CASE Cardinality(marked) > opts.maxDepth
      BY <3>2, <1>1, <1>6
    <3> QED BY <3>1, <3>2, <1>3 DEF Followed
  <2>4. opts.maxDepth > 0 => Looked(start)'
    BY <1>2, <1>3, <1>15, <2>1 DEF Followed
  <2> QED BY <1>1, <1>2, <2>2, <2>3, <2>4 DEF Followed
<1> QED BY <1>16, <1>17, <1>18, <1>19 DEF CallInv

LEMMA CallNextInv == CallInv /\ [CallNext]_<<question, callVars>> => CallInv'
<1> SUFFICES ASSUME CallInv, [CallNext]_<<question, callVars>> PROVE CallInv'
  OBVIOUS
<1>1. ASSUME CallNext
      PROVE  CallInv'
  BY <1>1, MeetInv, MeetAgainInv, ReturnInv DEF CallNext
<1>2. CASE UNCHANGED <<question, callVars>>
  <2>1. UNCHANGED question /\ calls' = calls /\ marked' = marked /\ callers' = callers
    BY <1>2 DEF callVars
  <2>2. /\ CallFar' = CallFar /\ CallRowsOf' = CallRowsOf /\ table' = table /\ start' = start /\ opts' = opts
        /\ \A x : Onward(x)' = Onward(x) /\ Backward(x)' = Backward(x)
    BY <2>1, SameCalls
  <2>3. \A n : Looked(n) <=> Looked(n)'
    BY <2>1, <2>2 DEF Looked
  <2>4. CallTypeOK' /\ Nested'
    BY <2>1, <2>2 DEF CallInv, CallTypeOK, Asking, Nested
  <2>5. Reported'
    BY <2>1, <2>2 DEF CallInv, Reported, Met
  <2>6. Followed'
    BY <2>1, <2>2, <2>3 DEF CallInv, Followed
  <2> QED BY <2>4, <2>5, <2>6 DEF CallInv
<1> QED BY <1>1, <1>2

\* getCallers and getCallees report nobody twice, nor the node asked about, each
\* with a row to somebody reported before and within the depth; the direct ones
\* are all there, and with them their own where the depth did not cut the walk.
THEOREM CallersCorrect == CallSpec => []CallersOnce
<1>1. CallSpec => []CallInv
  <2>1. (table \in Tables /\ start \in Nodes /\ opts \in Asked) /\ CallInit => CallInv
    BY CallInitInv DEF Asking
  <2> QED BY <2>1, CallNextInv, PTL DEF CallSpec
<1>2. CallInv => CallersOnce
  <2> SUFFICES ASSUME CallInv PROVE CallersOnce
    OBVIOUS
  <2>1. CallTypeOK /\ Reported /\ Followed
    BY DEF CallInv
  <2>2. /\ Asking /\ start \in Nodes /\ opts.maxDepth \in Nat /\ marked \subseteq Nodes
        /\ callers \in Seq([node : Nodes, edge : table])
    BY <2>1, AskedOptions DEF CallTypeOK
  <2>3. \A i \in DOMAIN callers : callers[i].node \in Nodes /\ callers[i].edge \in table
    <3> DEFINE T == [node : Nodes, edge : table]
    <3>1. \A q : q \in Seq(T) => \A i \in DOMAIN q : q[i] \in T
      <4> HIDE DEF T
      <4> QED OBVIOUS
    <3> QED BY <2>2, <3>1
  <2>4. marked = {start} \cup Met /\ start \notin Met
    BY <2>1 DEF Reported
  <2>5. ASSUME NEW i \in DOMAIN callers
        PROVE  /\ callers[i].edge \in CallRows(Backward(callers[i].edge)) /\ Onward(callers[i].edge) = callers[i].node
               /\ Backward(callers[i].edge) \in {start} \cup {callers[j].node : j \in 1..(i - 1)}
               /\ Joined(CallSteps, start, callers[i].node, opts.maxDepth)
    <3>1. /\ callers[i].edge \in CallRowsOf[Backward(callers[i].edge)] /\ Onward(callers[i].edge) = callers[i].node
          /\ Backward(callers[i].edge) \in {start} \cup {callers[j].node : j \in 1..(i - 1)}
          /\ <<callers[i].node, opts.maxDepth>> \in CallFar
      BY <2>1 DEF Reported
    <3>2. Backward(callers[i].edge) \in Nodes
      BY <2>2, <2>3, AskedOptions DEF Backward
    <3> QED BY <3>1, <3>2, <2>2, <2>3, InCallRows, InCallFar
  <2>6. ASSUME calls = <<>>, NEW n \in marked, Looked(n)
        PROVE  \A e \in CallRows(n) : Onward(e) \in marked
    <3>1. DOMAIN calls = {} /\ n \in Nodes
      BY <2>2, <2>6
    <3> QED BY <3>1, <2>6, InCallRows DEF Looked
  <2>7. ASSUME calls = <<>>, Cardinality(Met) < opts.maxDepth, NEW n \in marked
        PROVE  Looked(n)
    <3>1. Met \subseteq Nodes /\ marked = Met \cup {start}
      BY <2>2, <2>4
    <3>2. Cardinality(marked) = Cardinality(Met) + 1 /\ Cardinality(Met) \in Nat
      BY <3>1, <2>4, Size
    <3>3. ~(Cardinality(marked) > opts.maxDepth)
      BY <3>2, <2>2, <2>7
    <3> QED BY <3>3, <2>1 DEF Followed
  <2>8. calls = <<>> =>
          /\ opts.maxDepth > 0 => \A e \in CallRows(start) : Onward(e) \in {start} \cup Met
          /\ Cardinality(Met) < opts.maxDepth =>
                \A n \in {start} \cup Met : \A e \in CallRows(n) : Onward(e) \in {start} \cup Met
    BY <2>1, <2>4, <2>6, <2>7 DEF Followed
  <2>9. /\ \A i, j \in DOMAIN callers : callers[i].node = callers[j].node => i = j
    BY <2>1 DEF Reported
  <2> QED BY <2>4, <2>5, <2>8, <2>9, Zenon DEF CallersOnce
<1> QED BY <1>1, <1>2, PTL

-----------------------------------------------------------------------------
(* getImpactRadius: the inductive invariant.                                  *)

MembersOf == [n \in Nodes |-> Members(n)]
UsersOf == [n \in Nodes |-> Users(n)]
Expansions == [node : Nodes, depth : Nat, members : SUBSET table, users : SUBSET table]

ImpactTypeOK ==
    /\ Asking /\ seen \subseteq Nodes /\ affected = seen
    /\ links \in Seq(table) /\ expanding \in Seq(Expansions)

\* The calls in progress are of different nodes that were seen, each at most a
\* step further than the one before it and no further than its depth, which is no
\* less than any estimate.
Spread ==
    /\ \A i \in DOMAIN expanding :
          /\ expanding[i].node \in seen
          /\ expanding[i].members \subseteq MembersOf[expanding[i].node]
          /\ expanding[i].users \subseteq UsersOf[expanding[i].node]
          /\ expanding[i].depth < i /\ expanding[i].depth < opts.maxDepth
          /\ \A D \in Estimates : D[expanding[i].node] <= expanding[i].depth
    /\ \A i, j \in DOMAIN expanding : expanding[i].node = expanding[j].node => i = j
    /\ Len(expanding) <= Cardinality(seen)
    /\ \A D \in Estimates : \A m \in seen : D[m] <= opts.maxDepth

\* A row is recorded once, between nodes that were seen, and no call has yet to
\* come to it.
Recorded ==
    /\ \A i, j \in DOMAIN links : links[i] = links[j] => i = j
    /\ \A e \in ToSet(links) : e.source \in seen /\ e.target \in seen
    /\ \A i \in DOMAIN expanding : \A e \in ToSet(links) :
          e \notin expanding[i].members /\ e \notin expanding[i].users

\* Of a node that was seen the rows were followed, but for those to come, unless
\* the depth cut it off: then more nodes were seen than the depth has steps.
Covered(n) ==
    /\ \A e \in UsersOf[n] : \/ e \in ToSet(links)
                             \/ \E i \in DOMAIN expanding : expanding[i].node = n /\ e \in expanding[i].users
    /\ \A e \in MembersOf[n] : \/ e.target \in seen
                               \/ \E i \in DOMAIN expanding : expanding[i].node = n /\ e \in expanding[i].members
Reached ==
    /\ opts.maxDepth > 0 => Covered(start)
    /\ \A n \in seen : Covered(n) \/ Cardinality(seen) > opts.maxDepth

ImpactInv == ImpactTypeOK /\ start \in seen /\ Spread /\ Recorded /\ Reached

LEMMA ImpactRows ==
  ASSUME NEW n \in Nodes
  PROVE  /\ MembersOf[n] = Members(n) /\ UsersOf[n] = Users(n)
         /\ \A e \in MembersOf[n] : e \in table /\ e.source = n /\ e.kind = "contains"
         /\ \A e \in UsersOf[n] : e \in table /\ e.target = n /\ e.kind # "contains"
<1>1. MembersOf[n] = Members(n) /\ UsersOf[n] = Users(n)
  BY DEF MembersOf, UsersOf
<1>2. \A e \in Members(n) : e \in table /\ e.source = n /\ e.kind = "contains"
  BY Zenon DEF Members
<1>3. \A e \in Users(n) : e \in table /\ e.target = n /\ e.kind # "contains"
  BY Zenon DEF Users
<1> QED BY <1>1, <1>2, <1>3, Zenon

LEMMA EstimateFacts ==
  ASSUME NEW D \in Estimates
  PROVE  /\ \A n \in Nodes : D[n] \in 0..(opts.maxDepth + 1)
         /\ D[start] = 0
         /\ \A n \in Nodes : /\ \A e \in MembersOf[n] : D[e.target] <= D[n]
                             /\ \A e \in UsersOf[n] : D[e.source] <= D[n] + 1
<1>1. /\ D \in [Nodes -> 0..(opts.maxDepth + 1)] /\ D[start] = 0
      /\ \A n \in Nodes : /\ \A e \in Members(n) : D[e.target] <= D[n]
                          /\ \A e \in Users(n) : D[e.source] <= D[n] + 1
  BY Zenon DEF Estimates
<1> QED BY <1>1, ImpactRows, Zenon

LEMMA SameImpact ==
  ASSUME UNCHANGED question
  PROVE  /\ MembersOf' = MembersOf /\ UsersOf' = UsersOf /\ Estimates' = Estimates /\ Expansions' = Expansions
         /\ table' = table /\ start' = start /\ opts' = opts
<1>1. table' = table /\ start' = start /\ opts' = opts
  BY DEF question
<1>2. \A n : Members(n)' = Members(n) /\ Users(n)' = Users(n)
  BY <1>1 DEF Members, Users
<1>3. MembersOf' = MembersOf /\ UsersOf' = UsersOf
  BY <1>2, Zenon DEF MembersOf, UsersOf
<1>4. Estimates' = Estimates
  BY <1>1, <1>2, Zenon DEF Estimates
<1>5. Expansions' = Expansions
  BY <1>1 DEF Expansions
<1> QED BY <1>1, <1>3, <1>4, <1>5

LEMMA InExpansions ==
  /\ \A q : q \in Seq(Expansions) => \A i \in DOMAIN q : q[i] \in Expansions
  /\ \A r \in Expansions : r.node \in Nodes /\ r.depth \in Nat /\ r.members \subseteq table /\ r.users \subseteq table
<1>1. \A q : q \in Seq(Expansions) => \A i \in DOMAIN q : q[i] \in Expansions
  OBVIOUS
<1>2. \A r \in Expansions : r.node \in Nodes /\ r.depth \in Nat /\ r.members \subseteq table /\ r.users \subseteq table
  BY DEF Expansions
<1> QED BY <1>1, <1>2

\* A call that is entered, within the depth.
Expansion(n, d) == [node |-> n, depth |-> d, members |-> Members(n), users |-> Users(n)]
LEMMA Expanded ==
  ASSUME NEW n \in Nodes, NEW d \in Nat
  PROVE  /\ Expansion(n, d) \in Expansions
         /\ Expansion(n, d).node = n /\ Expansion(n, d).depth = d
         /\ Expansion(n, d).members = MembersOf[n] /\ Expansion(n, d).users = UsersOf[n]
<1>1. MembersOf[n] = Members(n) /\ UsersOf[n] = Users(n)
  BY ImpactRows
<1>2. Members(n) \subseteq table
  BY Zenon DEF Members
<1>3. Users(n) \subseteq table
  BY Zenon DEF Users
<1> QED BY <1>1, <1>2, <1>3 DEF Expansion, Expansions

LEMMA ImpactInitInv == Asking /\ ImpactInit => ImpactInv
<1> SUFFICES ASSUME Asking, ImpactInit PROVE ImpactInv
  OBVIOUS
<1> DEFINE r == Expansion(start, 0)
<1>1. /\ expanding = (IF 0 < opts.maxDepth THEN Append(<<>>, r) ELSE <<>>)
      /\ seen = {start} /\ affected = seen /\ links = <<>>
  BY DEF ImpactInit, Descend, Expansion
<1>2. start \in Nodes /\ opts.maxDepth \in Nat
  BY AskedOptions
<1>3. r \in Expansions /\ r.node = start /\ r.depth = 0 /\ r.members = MembersOf[start] /\ r.users = UsersOf[start]
  BY <1>2, Expanded
<1>4. DOMAIN links = {} /\ ToSet(links) = {} /\ links \in Seq(table)
  BY <1>1 DEF ToSet
<1>5. Cardinality(seen) = 1
  BY <1>1, FS_Singleton, Zenon
<1> HIDE DEF r
<1>6. /\ expanding \in Seq(Expansions) /\ Len(expanding) <= 1
      /\ \A i \in DOMAIN expanding : i = 1 /\ expanding[i] = r /\ 0 < opts.maxDepth
      /\ opts.maxDepth > 0 => 1 \in DOMAIN expanding
  <2>1. CASE opts.maxDepth > 0
    <3>1. expanding = <<r>>
      BY <1>1, <1>2, <2>1
    <3> QED BY <1>2, <1>3, <2>1, <3>1
  <2>2. CASE opts.maxDepth = 0
    <3>1. expanding = <<>>
      BY <1>1, <2>2
    <3> QED BY <2>2, <3>1
  <2> QED BY <1>2, <2>1, <2>2
<1>7. ImpactTypeOK
  BY <1>1, <1>2, <1>4, <1>6 DEF ImpactTypeOK
<1>8. \A D \in Estimates : D[start] = 0
  BY EstimateFacts
<1>9. Spread
  <2>1. \A i \in DOMAIN expanding :
          /\ expanding[i].node \in seen
          /\ expanding[i].members \subseteq MembersOf[expanding[i].node]
          /\ expanding[i].users \subseteq UsersOf[expanding[i].node]
          /\ expanding[i].depth < i /\ expanding[i].depth < opts.maxDepth
          /\ \A D \in Estimates : D[expanding[i].node] <= expanding[i].depth
    BY <1>1, <1>3, <1>6, <1>8
  <2>2. \A D \in Estimates : \A m \in seen : D[m] <= opts.maxDepth
    BY <1>1, <1>2, <1>8
  <2> QED BY <1>5, <1>6, <2>1, <2>2 DEF Spread
<1>10. Recorded
  BY <1>4 DEF Recorded
<1>11. Reached
  <2>1. opts.maxDepth > 0 => Covered(start)
    BY <1>3, <1>6 DEF Covered
  <2> QED BY <1>1, <1>2, <1>5, <2>1 DEF Reached
<1> QED BY <1>1, <1>7, <1>9, <1>10, <1>11 DEF ImpactInv

-----------------------------------------------------------------------------
(* getImpactRadius: the steps.                                                *)

\* The calls in progress, q, when one has come to row e: no other call has it.
Without(q, e) ==
    /\ q \in Seq(Expansions) /\ Len(q) = Len(expanding) /\ DOMAIN q = DOMAIN expanding
    /\ \A i \in DOMAIN expanding : /\ q[i].node = expanding[i].node /\ q[i].depth = expanding[i].depth
                                   /\ q[i].members = expanding[i].members \ {e}
                                   /\ q[i].users = expanding[i].users \ {e}

LEMMA LatestFacts ==
  ASSUME ImpactInv, expanding # <<>>
  PROVE  /\ Len(expanding) \in Nat /\ DOMAIN expanding = 1..Len(expanding) /\ Len(expanding) \in DOMAIN expanding
         /\ Latest = expanding[Len(expanding)] /\ Latest \in Expansions /\ Latest.node \in Nodes /\ Latest.node \in seen
         /\ Latest.depth \in Nat /\ Latest.depth < Len(expanding) /\ Latest.depth < opts.maxDepth /\ opts.maxDepth \in Nat
         /\ \A D \in Estimates : D[Latest.node] <= Latest.depth
         /\ Latest.members \subseteq MembersOf[Latest.node] /\ Latest.users \subseteq UsersOf[Latest.node]
<1>1. expanding \in Seq(Expansions) /\ Asking
  BY DEF ImpactInv, ImpactTypeOK
<1>2. Len(expanding) \in Nat /\ DOMAIN expanding = 1..Len(expanding) /\ Len(expanding) \in DOMAIN expanding
  BY <1>1, FrontOf
<1>3. Latest = expanding[Len(expanding)]
  BY DEF Latest
<1>4. Latest \in Expansions /\ Latest.node \in Nodes /\ Latest.depth \in Nat
  BY <1>1, <1>2, <1>3, InExpansions
<1> QED BY <1>1, <1>2, <1>3, <1>4, AskedOptions DEF ImpactInv, Spread

\* What every call has yet to come to is a row of its own node.
LEMMA Owner ==
  ASSUME ImpactInv, expanding # <<>>, NEW i \in DOMAIN expanding, NEW e
  PROVE  /\ e \in Latest.members => (e \notin expanding[i].users /\ (e \in expanding[i].members => i = Len(expanding)))
         /\ e \in Latest.users => (e \notin expanding[i].members /\ (e \in expanding[i].users => i = Len(expanding)))
<1>1. /\ Len(expanding) \in DOMAIN expanding /\ Latest = expanding[Len(expanding)] /\ Latest.node \in Nodes
      /\ Latest.members \subseteq MembersOf[Latest.node] /\ Latest.users \subseteq UsersOf[Latest.node]
  BY LatestFacts
<1>2. /\ expanding[i].node \in Nodes
      /\ expanding[i].members \subseteq MembersOf[expanding[i].node] /\ expanding[i].users \subseteq UsersOf[expanding[i].node]
  BY DEF ImpactInv, ImpactTypeOK, Spread
<1>3. expanding[i].node = Latest.node => i = Len(expanding)
  BY <1>1 DEF ImpactInv, Spread
<1>4. /\ \A d \in MembersOf[Latest.node] : d.source = Latest.node /\ d.kind = "contains"
      /\ \A d \in UsersOf[Latest.node] : d.target = Latest.node /\ d.kind # "contains"
  BY <1>1, ImpactRows, Zenon
<1>5. /\ \A d \in MembersOf[expanding[i].node] : d.source = expanding[i].node /\ d.kind = "contains"
      /\ \A d \in UsersOf[expanding[i].node] : d.target = expanding[i].node /\ d.kind # "contains"
  BY <1>2, ImpactRows, Zenon
<1>6. ASSUME e \in Latest.members
      PROVE  e \notin expanding[i].users /\ (e \in expanding[i].members => i = Len(expanding))
  <2>1. e.kind = "contains" /\ e.source = Latest.node
    BY <1>1, <1>4, <1>6
  <2>2. e \notin expanding[i].users
    BY <1>2, <1>5, <2>1, Zenon
  <2>3. e \in expanding[i].members => e.source = expanding[i].node
    BY <1>2, <1>5
  <2> QED BY <1>3, <2>1, <2>2, <2>3
<1>7. ASSUME e \in Latest.users
      PROVE  e \notin expanding[i].members /\ (e \in expanding[i].users => i = Len(expanding))
  <2>1. e.kind # "contains" /\ e.target = Latest.node
    BY <1>1, <1>4, <1>7
  <2>2. e \notin expanding[i].members
    BY <1>2, <1>5, <2>1, Zenon
  <2>3. e \in expanding[i].users => e.target = expanding[i].node
    BY <1>2, <1>5
  <2> QED BY <1>3, <2>1, <2>2, <2>3
<1> QED BY <1>6, <1>7

LEMMA PastMemberFacts ==
  ASSUME ImpactInv, expanding # <<>>, NEW e \in Latest.members
  PROVE  /\ Without(PastMember(e), e)
         /\ e \in table /\ e.source = Latest.node /\ e.kind = "contains" /\ e \in MembersOf[Latest.node] /\ e.target \in Nodes
         /\ e \notin ToSet(links)
<1> DEFINE n == Len(expanding)  r == [expanding[n] EXCEPT !.members = @ \ {e}]
<1>1. expanding \in Seq(Expansions) /\ Asking
  BY DEF ImpactInv, ImpactTypeOK
<1>2. /\ n \in Nat /\ DOMAIN expanding = 1..n /\ n \in DOMAIN expanding /\ Latest = expanding[n]
      /\ expanding[n] \in Expansions /\ Latest.node \in Nodes /\ Latest.members \subseteq MembersOf[Latest.node]
  BY LatestFacts
<1>3. PastMember(e) = [expanding EXCEPT ![n] = r]
  BY DEF PastMember
<1>4. /\ r \in Expansions /\ r.node = expanding[n].node /\ r.depth = expanding[n].depth
      /\ r.members = expanding[n].members \ {e} /\ r.users = expanding[n].users
  BY <1>2 DEF Expansions
<1>5. \A i \in DOMAIN expanding : e \notin expanding[i].users /\ (e \in expanding[i].members => i = n)
  BY Owner
<1> HIDE DEF r, n
<1>6. /\ PastMember(e) \in Seq(Expansions) /\ Len(PastMember(e)) = Len(expanding) /\ DOMAIN PastMember(e) = DOMAIN expanding
      /\ PastMember(e)[n] = r /\ \A i \in DOMAIN expanding : i # n => PastMember(e)[i] = expanding[i]
  BY <1>1, <1>2, <1>3, <1>4
<1>7. \A i \in DOMAIN expanding :
         /\ PastMember(e)[i].node = expanding[i].node /\ PastMember(e)[i].depth = expanding[i].depth
         /\ PastMember(e)[i].members = expanding[i].members \ {e}
         /\ PastMember(e)[i].users = expanding[i].users \ {e}
  <2> SUFFICES ASSUME NEW i \in DOMAIN expanding
               PROVE  /\ PastMember(e)[i].node = expanding[i].node /\ PastMember(e)[i].depth = expanding[i].depth
                      /\ PastMember(e)[i].members = expanding[i].members \ {e}
                      /\ PastMember(e)[i].users = expanding[i].users \ {e}
    OBVIOUS
  <2>1. CASE i = n
    <3>1. PastMember(e)[i] = r /\ expanding[i].users = expanding[i].users \ {e}
      BY <2>1, <1>5, <1>6
    <3> QED BY <2>1, <3>1, <1>4
  <2>2. CASE i # n
    <3>1. PastMember(e)[i] = expanding[i] /\ e \notin expanding[i].users /\ e \notin expanding[i].members
      BY <2>2, <1>5, <1>6
    <3> QED BY <3>1
  <2> QED BY <2>1, <2>2
<1>8. e \in table /\ e.source = Latest.node /\ e.kind = "contains" /\ e \in MembersOf[Latest.node]
  BY <1>2, ImpactRows, Zenon
<1>9. e.target \in Nodes
  BY <1>1, <1>8, AskedOptions
<1>10. e \notin ToSet(links)
  BY <1>2 DEF ImpactInv, Recorded
<1> QED BY <1>6, <1>7, <1>8, <1>9, <1>10 DEF Without

LEMMA PastUserFacts ==
  ASSUME ImpactInv, expanding # <<>>, NEW e \in Latest.users
  PROVE  /\ Without(PastUser(e), e)
         /\ e \in table /\ e.target = Latest.node /\ e.kind # "contains" /\ e \in UsersOf[Latest.node] /\ e.source \in Nodes
         /\ e \notin ToSet(links)
<1> DEFINE n == Len(expanding)  r == [expanding[n] EXCEPT !.users = @ \ {e}]
<1>1. expanding \in Seq(Expansions) /\ Asking
  BY DEF ImpactInv, ImpactTypeOK
<1>2. /\ n \in Nat /\ DOMAIN expanding = 1..n /\ n \in DOMAIN expanding /\ Latest = expanding[n]
      /\ expanding[n] \in Expansions /\ Latest.node \in Nodes /\ Latest.users \subseteq UsersOf[Latest.node]
  BY LatestFacts
<1>3. PastUser(e) = [expanding EXCEPT ![n] = r]
  BY DEF PastUser
<1>4. /\ r \in Expansions /\ r.node = expanding[n].node /\ r.depth = expanding[n].depth
      /\ r.users = expanding[n].users \ {e} /\ r.members = expanding[n].members
  BY <1>2 DEF Expansions
<1>5. \A i \in DOMAIN expanding : e \notin expanding[i].members /\ (e \in expanding[i].users => i = n)
  BY Owner
<1> HIDE DEF r, n
<1>6. /\ PastUser(e) \in Seq(Expansions) /\ Len(PastUser(e)) = Len(expanding) /\ DOMAIN PastUser(e) = DOMAIN expanding
      /\ PastUser(e)[n] = r /\ \A i \in DOMAIN expanding : i # n => PastUser(e)[i] = expanding[i]
  BY <1>1, <1>2, <1>3, <1>4
<1>7. \A i \in DOMAIN expanding :
         /\ PastUser(e)[i].node = expanding[i].node /\ PastUser(e)[i].depth = expanding[i].depth
         /\ PastUser(e)[i].members = expanding[i].members \ {e}
         /\ PastUser(e)[i].users = expanding[i].users \ {e}
  <2> SUFFICES ASSUME NEW i \in DOMAIN expanding
               PROVE  /\ PastUser(e)[i].node = expanding[i].node /\ PastUser(e)[i].depth = expanding[i].depth
                      /\ PastUser(e)[i].members = expanding[i].members \ {e}
                      /\ PastUser(e)[i].users = expanding[i].users \ {e}
    OBVIOUS
  <2>1. CASE i = n
    <3>1. PastUser(e)[i] = r /\ expanding[i].members = expanding[i].members \ {e}
      BY <2>1, <1>5, <1>6
    <3> QED BY <2>1, <3>1, <1>4
  <2>2. CASE i # n
    <3>1. PastUser(e)[i] = expanding[i] /\ e \notin expanding[i].users /\ e \notin expanding[i].members
      BY <2>2, <1>5, <1>6
    <3> QED BY <3>1
  <2> QED BY <2>1, <2>2
<1>8. e \in table /\ e.target = Latest.node /\ e.kind # "contains" /\ e \in UsersOf[Latest.node]
  BY <1>2, ImpactRows, Zenon
<1>9. e.source \in Nodes
  BY <1>1, <1>8, AskedOptions
<1>10. e \notin ToSet(links)
  BY <1>2 DEF ImpactInv, Recorded
<1> QED BY <1>6, <1>7, <1>8, <1>9, <1>10 DEF Without

\* When a call has come to row e, and has recorded it if it is not a membership:
\* what was covered remains so, and the calls in progress are as they should be.
LEMMA RowTaken ==
  ASSUME ImpactInv, NEW e \in table, NEW q, Without(q, e), UNCHANGED question, seen \subseteq seen',
         e.source \in seen', e.target \in seen',
         \/ links' = links /\ \A n \in seen : e \notin UsersOf[n]
         \/ links' = Append(links, e) /\ e \notin ToSet(links),
         \A i \in DOMAIN expanding : i \in DOMAIN expanding' /\ expanding'[i] = q[i]
  PROVE  /\ links' \in Seq(table) /\ ToSet(links') \subseteq ToSet(links) \cup {e}
         /\ \A i, j \in DOMAIN links' : links'[i] = links'[j] => i = j
         /\ \A d \in ToSet(links') : d.source \in seen' /\ d.target \in seen'
         /\ \A n \in seen : Covered(n) => Covered(n)'
         /\ \A i \in DOMAIN expanding :
              /\ expanding'[i].node \in seen
              /\ expanding'[i].members \subseteq MembersOf[expanding'[i].node]
              /\ expanding'[i].users \subseteq UsersOf[expanding'[i].node]
              /\ expanding'[i].depth < i /\ expanding'[i].depth < opts.maxDepth
              /\ \A D \in Estimates : D[expanding'[i].node] <= expanding'[i].depth
              /\ \A d \in ToSet(links') : d \notin expanding'[i].members /\ d \notin expanding'[i].users
         /\ \A i, j \in DOMAIN expanding : expanding'[i].node = expanding'[j].node => i = j
<1>1. ImpactTypeOK /\ Spread /\ Recorded
  BY DEF ImpactInv
<1>2. links \in Seq(table)
  BY <1>1 DEF ImpactTypeOK
<1>3. /\ \A i, j \in DOMAIN links : links[i] = links[j] => i = j
      /\ \A d \in ToSet(links) : d.source \in seen /\ d.target \in seen
      /\ \A i \in DOMAIN expanding : \A d \in ToSet(links) : d \notin expanding[i].members /\ d \notin expanding[i].users
  BY <1>1 DEF Recorded
<1>4. \A i \in DOMAIN expanding :
         /\ expanding'[i].node = expanding[i].node /\ expanding'[i].depth = expanding[i].depth
         /\ expanding'[i].members = expanding[i].members \ {e}
         /\ expanding'[i].users = expanding[i].users \ {e}
  BY Zenon DEF Without
<1>5. /\ links' \in Seq(table) /\ \A i, j \in DOMAIN links' : links'[i] = links'[j] => i = j
      /\ ToSet(links) \subseteq ToSet(links') /\ ToSet(links') \subseteq ToSet(links) \cup {e}
      /\ e \in ToSet(links') \/ \A n \in seen : e \notin UsersOf[n]
  <2>1. CASE links' = links /\ \A n \in seen : e \notin UsersOf[n]
    BY <2>1, <1>2, <1>3
  <2>2. CASE links' = Append(links, e) /\ e \notin ToSet(links)
    <3> DEFINE p == Append(links, e)  k == Len(links)
    <3>1. /\ p \in Seq(table) /\ DOMAIN links = 1..k /\ k \in Nat /\ DOMAIN p = 1..(k + 1) /\ p[k + 1] = e
          /\ \A i \in 1..k : p[i] = links[i]
          /\ \A i \in 1..(k + 1) : i = k + 1 \/ i \in 1..k
      BY <1>2, Pushed
    <3>2. ToSet(p) = ToSet(links) \cup {e}
      BY <1>2, ToSetOfAppend
    <3> HIDE DEF p, k
    <3>3. \A i \in 1..k : links[i] # e
      BY <2>2, <3>1 DEF ToSet
    <3>4. \A i, j \in DOMAIN p : p[i] = p[j] => i = j
      BY <1>3, <3>1, <3>3
    <3>5. links' = p
      BY <2>2 DEF p
    <3> QED BY <3>1, <3>2, <3>4, <3>5
  <2> QED BY <2>1, <2>2
<1>6. \A d \in ToSet(links') : d.source \in seen' /\ d.target \in seen'
  BY <1>3, <1>5, Zenon
<1>7. MembersOf' = MembersOf /\ UsersOf' = UsersOf
  BY SameImpact
<1>8. ASSUME NEW n \in seen, Covered(n)
      PROVE  Covered(n)'
  <2>1. ASSUME NEW d \in UsersOf[n], d \notin ToSet(links')
        PROVE  \E i \in DOMAIN expanding' : expanding'[i].node = n /\ d \in expanding'[i].users
    <3>1. d # e /\ d \notin ToSet(links)
      BY <1>5, <2>1
    <3>2. PICK i \in DOMAIN expanding : expanding[i].node = n /\ d \in expanding[i].users
      BY <1>8, <3>1 DEF Covered
    <3>3. i \in DOMAIN expanding' /\ expanding'[i].node = n /\ d \in expanding'[i].users
      BY <1>4, <3>1, <3>2
    <3> QED BY <3>3
  <2>2. ASSUME NEW d \in MembersOf[n], d.target \notin seen'
        PROVE  \E i \in DOMAIN expanding' : expanding'[i].node = n /\ d \in expanding'[i].members
    <3>1. d # e /\ d.target \notin seen
      BY <2>2
    <3>2. PICK i \in DOMAIN expanding : expanding[i].node = n /\ d \in expanding[i].members
      BY <1>8, <3>1 DEF Covered
    <3>3. i \in DOMAIN expanding' /\ expanding'[i].node = n /\ d \in expanding'[i].members
      BY <1>4, <3>1, <3>2
    <3> QED BY <3>3
  <2> QED BY <1>7, <2>1, <2>2 DEF Covered
<1>9. ASSUME NEW i \in DOMAIN expanding
      PROVE  /\ expanding'[i].node \in seen
             /\ expanding'[i].members \subseteq MembersOf[expanding'[i].node]
             /\ expanding'[i].users \subseteq UsersOf[expanding'[i].node]
             /\ expanding'[i].depth < i /\ expanding'[i].depth < opts.maxDepth
             /\ \A D \in Estimates : D[expanding'[i].node] <= expanding'[i].depth
  <2>1. /\ expanding[i].node \in seen
        /\ expanding[i].members \subseteq MembersOf[expanding[i].node]
        /\ expanding[i].users \subseteq UsersOf[expanding[i].node]
        /\ expanding[i].depth < i /\ expanding[i].depth < opts.maxDepth
        /\ \A D \in Estimates : D[expanding[i].node] <= expanding[i].depth
    BY <1>1 DEF Spread
  <2>2. expanding'[i].members \subseteq expanding[i].members /\ expanding'[i].users \subseteq expanding[i].users
    BY <1>4
  <2> QED BY <1>4, <2>1, <2>2
<1>10. ASSUME NEW i \in DOMAIN expanding, NEW d \in ToSet(links')
       PROVE  d \notin expanding'[i].members /\ d \notin expanding'[i].users
  BY <1>3, <1>4, <1>5
<1>11. ASSUME NEW i \in DOMAIN expanding, NEW j \in DOMAIN expanding, expanding'[i].node = expanding'[j].node
       PROVE  i = j
  BY <1>1, <1>4, <1>11 DEF Spread
<1> QED BY <1>5, <1>6, <1>8, <1>9, <1>10, <1>11, Zenon

\* The row leads to a node that was seen.
LEMMA AgainInv ==
  ASSUME ImpactInv, NEW e \in table, NEW q, Without(q, e), UNCHANGED question, e.source \in seen, e.target \in seen,
         \/ links' = links /\ \A n \in seen : e \notin UsersOf[n]
         \/ links' = Append(links, e) /\ e \notin ToSet(links),
         expanding' = q, seen' = seen, affected' = affected
  PROVE  ImpactInv'
<1>1. ImpactTypeOK /\ Spread /\ Reached /\ start \in seen
  BY DEF ImpactInv
<1>2. q \in Seq(Expansions) /\ Len(q) = Len(expanding) /\ DOMAIN q = DOMAIN expanding
  BY DEF Without
<1>3. /\ links' \in Seq(table)
      /\ \A i, j \in DOMAIN links' : links'[i] = links'[j] => i = j
      /\ \A d \in ToSet(links') : d.source \in seen' /\ d.target \in seen'
      /\ \A n \in seen : Covered(n) => Covered(n)'
      /\ \A i \in DOMAIN expanding :
              /\ expanding'[i].node \in seen
              /\ expanding'[i].members \subseteq MembersOf[expanding'[i].node]
              /\ expanding'[i].users \subseteq UsersOf[expanding'[i].node]
              /\ expanding'[i].depth < i /\ expanding'[i].depth < opts.maxDepth
              /\ \A D \in Estimates : D[expanding'[i].node] <= expanding'[i].depth
              /\ \A d \in ToSet(links') : d \notin expanding'[i].members /\ d \notin expanding'[i].users
      /\ \A i, j \in DOMAIN expanding : expanding'[i].node = expanding'[j].node => i = j
  <2>1. seen \subseteq seen' /\ e.source \in seen' /\ e.target \in seen'
    OBVIOUS
  <2>2. \A i \in DOMAIN expanding : i \in DOMAIN expanding' /\ expanding'[i] = q[i]
    BY <1>2
  <2> QED BY <2>1, <2>2, RowTaken, Zenon
<1>4. /\ MembersOf' = MembersOf /\ UsersOf' = UsersOf /\ Estimates' = Estimates /\ Expansions' = Expansions
      /\ table' = table /\ start' = start /\ opts' = opts
  BY SameImpact
<1>5. ImpactTypeOK'
  BY <1>1, <1>2, <1>3, <1>4 DEF ImpactTypeOK, Asking
<1>6. Spread'
  BY <1>1, <1>2, <1>3, <1>4 DEF Spread
<1>7. Recorded'
  BY <1>2, <1>3 DEF Recorded
<1>8. Reached'
  BY <1>1, <1>3, <1>4 DEF Reached
<1> QED BY <1>1, <1>4, <1>5, <1>6, <1>7, <1>8 DEF ImpactInv

\* The row leads to a node that was not seen, at depth d.
LEMMA OnwardInv ==
  ASSUME ImpactInv, NEW e \in table, NEW q, Without(q, e), UNCHANGED question,
         NEW x \in Nodes, x \notin seen, NEW d \in Nat, d <= Len(expanding), d <= opts.maxDepth,
         \A D \in Estimates : D[x] <= d, Len(expanding) \in Nat,
         e.source \in seen \cup {x}, e.target \in seen \cup {x}, e \notin ToSet(links),
         e \notin MembersOf[x], e \notin UsersOf[x], links' = Append(links, e),
         expanding' = Descend(q, x, d), seen' = seen \cup {x}, affected' = affected \cup {x}
  PROVE  ImpactInv'
<1> DEFINE r == Expansion(x, d)  n == Len(expanding)
<1>1. ImpactTypeOK /\ Spread /\ Recorded /\ Reached /\ start \in seen
  BY DEF ImpactInv
<1>2. q \in Seq(Expansions) /\ Len(q) = n /\ DOMAIN q = DOMAIN expanding
  BY DEF Without
<1>3. /\ opts.maxDepth \in Nat /\ seen \subseteq Nodes /\ Cardinality(seen) \in Nat /\ affected = seen /\ Asking
      /\ Cardinality(seen \cup {x}) = Cardinality(seen) + 1 /\ n <= Cardinality(seen)
  BY <1>1, AskedOptions, Size DEF ImpactTypeOK, Spread
<1>4. r \in Expansions /\ r.node = x /\ r.depth = d /\ r.members = MembersOf[x] /\ r.users = UsersOf[x]
  BY Expanded
<1>5. expanding' = IF d < opts.maxDepth THEN Append(q, r) ELSE q
  BY DEF Descend, Expansion
<1> HIDE DEF r, n
<1>6. /\ Append(q, r) \in Seq(Expansions) /\ DOMAIN q = 1..n /\ n \in Nat
      /\ DOMAIN Append(q, r) = 1..(n + 1) /\ Len(Append(q, r)) = n + 1
      /\ Append(q, r)[n + 1] = r /\ \A i \in 1..n : Append(q, r)[i] = q[i]
      /\ \A i \in 1..(n + 1) : i = n + 1 \/ i \in 1..n
  BY <1>2, <1>4, Pushed
<1>7. DOMAIN expanding = 1..n
  BY <1>2, <1>6
<1>8. /\ expanding' \in Seq(Expansions) /\ \A i \in 1..n : i \in DOMAIN expanding' /\ expanding'[i] = q[i]
      /\ \/ /\ d < opts.maxDepth /\ DOMAIN expanding' = 1..(n + 1) /\ Len(expanding') = n + 1 /\ n + 1 \in DOMAIN expanding'
            /\ expanding'[n + 1] = r
         \/ d = opts.maxDepth /\ DOMAIN expanding' = 1..n /\ Len(expanding') = n
      /\ \A i \in DOMAIN expanding' : i \in 1..n \/ (i = n + 1 /\ expanding'[i] = r /\ d < opts.maxDepth)
  <2>1. CASE d < opts.maxDepth
    <3>1. expanding' = Append(q, r)
      BY <1>5, <2>1
    <3>2. n + 1 \in 1..(n + 1) /\ \A i \in 1..n : i \in 1..(n + 1)
      BY <1>6
    <3> QED BY <2>1, <3>1, <3>2, <1>6
  <2>2. CASE d = opts.maxDepth
    <3>1. expanding' = q
      BY <1>3, <1>5, <2>2
    <3> QED BY <2>2, <3>1, <1>2, <1>6
  <2> QED BY <1>3, <2>1, <2>2
<1>9. /\ MembersOf' = MembersOf /\ UsersOf' = UsersOf /\ Estimates' = Estimates /\ Expansions' = Expansions
      /\ table' = table /\ start' = start /\ opts' = opts
  BY SameImpact
<1>10. /\ links' \in Seq(table) /\ ToSet(links') \subseteq ToSet(links) \cup {e}
       /\ \A i, j \in DOMAIN links' : links'[i] = links'[j] => i = j
       /\ \A c \in ToSet(links') : c.source \in seen' /\ c.target \in seen'
       /\ \A m \in seen : Covered(m) => Covered(m)'
       /\ \A i \in DOMAIN expanding :
              /\ expanding'[i].node \in seen
              /\ expanding'[i].members \subseteq MembersOf[expanding'[i].node]
              /\ expanding'[i].users \subseteq UsersOf[expanding'[i].node]
              /\ expanding'[i].depth < i /\ expanding'[i].depth < opts.maxDepth
              /\ \A D \in Estimates : D[expanding'[i].node] <= expanding'[i].depth
              /\ \A c \in ToSet(links') : c \notin expanding'[i].members /\ c \notin expanding'[i].users
       /\ \A i, j \in DOMAIN expanding : expanding'[i].node = expanding'[j].node => i = j
  <2>1. seen \subseteq seen' /\ e.source \in seen' /\ e.target \in seen'
    OBVIOUS
  <2>2. \A i \in DOMAIN expanding : i \in DOMAIN expanding' /\ expanding'[i] = q[i]
    BY <1>7, <1>8
  <2> QED BY <2>1, <2>2, RowTaken, Zenon
<1>11. ImpactTypeOK'
  BY <1>1, <1>3, <1>8, <1>9, <1>10 DEF ImpactTypeOK, Asking
<1>12. Spread'
  <2>1. ASSUME NEW i \in DOMAIN expanding'
        PROVE  /\ expanding'[i].node \in seen'
               /\ expanding'[i].members \subseteq MembersOf[expanding'[i].node]
               /\ expanding'[i].users \subseteq UsersOf[expanding'[i].node]
               /\ expanding'[i].depth < i /\ expanding'[i].depth < opts.maxDepth
               /\ \A D \in Estimates : D[expanding'[i].node] <= expanding'[i].depth
    <3>1. CASE i \in 1..n
      BY <3>1, <1>7, <1>10
    <3>2. CASE i = n + 1 /\ expanding'[i] = r /\ d < opts.maxDepth
      <4>1. d < n + 1
        BY <1>6 DEF n
      <4> QED BY <3>2, <4>1, <1>4
    <3> QED BY <3>1, <3>2, <1>8
  <2>2. ASSUME NEW i \in DOMAIN expanding', NEW j \in DOMAIN expanding', expanding'[i].node = expanding'[j].node
        PROVE  i = j
    <3>1. \A k \in 1..n : expanding'[k].node # x
      BY <1>7, <1>10
    <3>2. CASE i \in 1..n /\ j \in 1..n
      BY <2>2, <3>2, <1>7, <1>10
    <3>3. CASE i = n + 1 /\ expanding'[i] = r
      BY <2>2, <3>1, <3>3, <1>4, <1>8
    <3>4. CASE j = n + 1 /\ expanding'[j] = r
      BY <2>2, <3>1, <3>4, <1>4, <1>8
    <3> QED BY <3>2, <3>3, <3>4, <1>8
  <2>3. Len(expanding') <= Cardinality(seen')
    BY <1>3, <1>6, <1>8
  <2>4. \A D \in Estimates : D[x] <= opts.maxDepth
    <3> SUFFICES ASSUME NEW D \in Estimates PROVE D[x] <= opts.maxDepth
      OBVIOUS
    <3>1. D[x] \in 0..(opts.maxDepth + 1) /\ D[x] <= d
      BY EstimateFacts
    <3> QED BY <3>1, <1>3
  <2>5. \A D \in Estimates : \A m \in seen' : D[m] <= opts.maxDepth
    BY <1>1, <2>4 DEF Spread
  <2> QED BY <1>9, <2>1, <2>2, <2>3, <2>5 DEF Spread
<1>13. Recorded'
  <2>1. ASSUME NEW i \in DOMAIN expanding', NEW c \in ToSet(links')
        PROVE  c \notin expanding'[i].members /\ c \notin expanding'[i].users
    <3>1. CASE i \in 1..n
      BY <3>1, <1>7, <1>10
    <3>2. CASE i = n + 1 /\ expanding'[i] = r
      <4>1. CASE c = e
        BY <3>2, <4>1, <1>4
      <4>2. CASE c \in ToSet(links)
        <5>1. c.source # x /\ c.target # x
          BY <4>2, <1>1 DEF Recorded
        <5>2. c \notin MembersOf[x] /\ c \notin UsersOf[x]
          BY <5>1, ImpactRows, Zenon
        <5> QED BY <5>2, <3>2, <1>4
      <4> QED BY <4>1, <4>2, <1>10
    <3> QED BY <3>1, <3>2, <1>8
  <2> QED BY <1>10, <2>1 DEF Recorded
<1>14. Reached'
  <2>1. ASSUME NEW m, m = x
        PROVE  Covered(m)' \/ Cardinality(seen') > opts.maxDepth
    <3>1. CASE d < opts.maxDepth
      <4>1. n + 1 \in DOMAIN expanding' /\ expanding'[n + 1] = r
        BY <1>3, <1>8, <3>1
      <4> QED BY <4>1, <1>4, <1>9, <2>1 DEF Covered
    <3>2. CASE d = opts.maxDepth
      BY <3>2, <1>3 DEF n
    <3> QED BY <3>1, <3>2, <1>3
  <2>2. ASSUME NEW m \in seen
        PROVE  Covered(m)' \/ Cardinality(seen') > opts.maxDepth
    <3>1. CASE Covered(m)
      BY <3>1, <1>10
    <3>2. CASE Cardinality(seen) > opts.maxDepth
      BY <3>2, <1>3
    <3> QED BY <3>1, <3>2, <1>1 DEF Reached
  <2>3. opts.maxDepth > 0 => Covered(start)'
    BY <1>1, <1>9, <1>10 DEF Reached
  <2> QED BY <1>9, <2>1, <2>2, <2>3 DEF Reached
<1> QED BY <1>1, <1>9, <1>11, <1>12, <1>13, <1>14 DEF ImpactInv

LEMMA MemberInv == ASSUME ImpactInv, expanding # <<>>, NEW e \in Latest.members, Member(e) PROVE ImpactInv'
<1> DEFINE x == e.target  d == Latest.depth  q == PastMember(e)
<1>1. /\ x \notin seen /\ affected' = affected \cup {x} /\ links' = Append(links, e)
      /\ seen' = seen \cup {x} /\ expanding' = Descend(q, x, d) /\ UNCHANGED question
  BY DEF Member
<1>2. /\ Without(q, e) /\ e \in table /\ e.source = Latest.node /\ e.kind = "contains" /\ x \in Nodes
      /\ e \in MembersOf[Latest.node] /\ e \notin ToSet(links)
  BY PastMemberFacts
<1>3. /\ Latest.node \in Nodes /\ Latest.node \in seen /\ d \in Nat /\ Len(expanding) \in Nat /\ opts.maxDepth \in Nat
      /\ d < Len(expanding) /\ d < opts.maxDepth /\ \A D \in Estimates : D[Latest.node] <= d
  BY LatestFacts
<1>4. \A D \in Estimates : D[x] <= d
  <2> SUFFICES ASSUME NEW D \in Estimates PROVE D[x] <= d
    OBVIOUS
  <2>1. D[x] \in 0..(opts.maxDepth + 1) /\ D[Latest.node] \in 0..(opts.maxDepth + 1)
    BY <1>2, <1>3, EstimateFacts
  <2>2. D[x] <= D[Latest.node]
    BY <1>2, <1>3, EstimateFacts
  <2>3. D[Latest.node] <= d
    BY <1>3
  <2> QED BY <1>3, <2>1, <2>2, <2>3
<1>5. e \notin MembersOf[x] /\ e \notin UsersOf[x]
  <2>1. e.source # x
    BY <1>1, <1>2, <1>3
  <2> QED BY <1>2, <2>1, ImpactRows, Zenon
<1>6. d <= Len(expanding) /\ d <= opts.maxDepth
  BY <1>3
<1>7. e.source \in seen \cup {x} /\ e.target \in seen \cup {x}
  BY <1>2, <1>3
<1> HIDE DEF x, d, q
<1> QED BY <1>1, <1>2, <1>3, <1>4, <1>5, <1>6, <1>7, OnwardInv

LEMMA UserInv == ASSUME ImpactInv, expanding # <<>>, NEW e \in Latest.users, User(e) PROVE ImpactInv'
<1> DEFINE x == e.source  d == Latest.depth + 1  q == PastUser(e)
<1>1. /\ x \notin seen /\ affected' = affected \cup {x} /\ links' = Append(links, e)
      /\ seen' = seen \cup {x} /\ expanding' = Descend(q, x, d) /\ UNCHANGED question
  BY DEF User
<1>2. /\ Without(q, e) /\ e \in table /\ e.target = Latest.node /\ e.kind # "contains" /\ x \in Nodes
      /\ e \in UsersOf[Latest.node] /\ e \notin ToSet(links)
  BY PastUserFacts
<1>3. /\ Latest.node \in Nodes /\ Latest.node \in seen /\ d \in Nat /\ Len(expanding) \in Nat /\ opts.maxDepth \in Nat
      /\ d <= Len(expanding) /\ d <= opts.maxDepth /\ Latest.depth \in Nat
      /\ \A D \in Estimates : D[Latest.node] <= Latest.depth
  BY LatestFacts
<1>4. \A D \in Estimates : D[x] <= d
  <2> SUFFICES ASSUME NEW D \in Estimates PROVE D[x] <= d
    OBVIOUS
  <2>1. D[x] \in 0..(opts.maxDepth + 1) /\ D[Latest.node] \in 0..(opts.maxDepth + 1)
    BY <1>2, <1>3, EstimateFacts
  <2>2. D[x] <= D[Latest.node] + 1
    BY <1>2, <1>3, EstimateFacts
  <2>3. D[Latest.node] <= Latest.depth
    BY <1>3
  <2> QED BY <1>3, <2>1, <2>2, <2>3
<1>5. e \notin MembersOf[x] /\ e \notin UsersOf[x]
  <2>1. e.target # x
    BY <1>1, <1>2, <1>3
  <2> QED BY <1>2, <2>1, ImpactRows, Zenon
<1>6. e.source \in seen \cup {x} /\ e.target \in seen \cup {x}
  BY <1>2, <1>3
<1> HIDE DEF x, d, q
<1> QED BY <1>1, <1>2, <1>3, <1>4, <1>5, <1>6, OnwardInv

LEMMA MemberAgainInv == ASSUME ImpactInv, expanding # <<>>, NEW e \in Latest.members, MemberAgain(e) PROVE ImpactInv'
<1>1. /\ e.target \in seen /\ expanding' = PastMember(e) /\ UNCHANGED question
      /\ seen' = seen /\ affected' = affected /\ links' = links
  BY DEF MemberAgain
<1>2. Without(PastMember(e), e) /\ e \in table /\ e.source = Latest.node /\ e.kind = "contains"
  BY PastMemberFacts
<1>3. e.source \in seen
  BY <1>2, LatestFacts
<1>4. \A n \in seen : e \notin UsersOf[n]
  <2>1. seen \subseteq Nodes
    BY DEF ImpactInv, ImpactTypeOK
  <2> QED BY <1>2, <2>1, ImpactRows
<1> QED BY <1>1, <1>2, <1>3, <1>4, AgainInv

LEMMA UserAgainInv == ASSUME ImpactInv, expanding # <<>>, NEW e \in Latest.users, UserAgain(e) PROVE ImpactInv'
<1>1. /\ e.source \in seen /\ expanding' = PastUser(e) /\ UNCHANGED question
      /\ seen' = seen /\ affected' = affected /\ links' = Append(links, e)
  BY DEF UserAgain
<1>2. Without(PastUser(e), e) /\ e \in table /\ e.target = Latest.node /\ e \notin ToSet(links)
  BY PastUserFacts
<1>3. e.target \in seen
  BY <1>2, LatestFacts
<1> QED BY <1>1, <1>2, <1>3, AgainInv

LEMMA ImpactReturnInv == ImpactInv /\ expanding # <<>> /\ Latest.members = {} /\ ImpactReturn => ImpactInv'
<1> SUFFICES ASSUME ImpactInv, expanding # <<>>, Latest.members = {}, ImpactReturn PROVE ImpactInv'
  OBVIOUS
<1> DEFINE n == Len(expanding)  q == Front(expanding)
<1>1. /\ Latest.users = {} /\ expanding' = q /\ UNCHANGED question
      /\ seen' = seen /\ affected' = affected /\ links' = links
  BY DEF ImpactReturn
<1>2. ImpactTypeOK /\ Spread /\ Recorded /\ Reached /\ start \in seen
  BY DEF ImpactInv
<1>3. /\ q \in Seq(Expansions) /\ n \in Nat /\ DOMAIN expanding = 1..n /\ Len(q) = n - 1 /\ DOMAIN q = 1..(n - 1)
      /\ \A i \in DOMAIN q : i \in DOMAIN expanding /\ q[i] = expanding[i]
  <2>1. expanding \in Seq(Expansions)
    BY <1>2 DEF ImpactTypeOK
  <2> QED BY <2>1, FrontOf
<1>4. expanding[n].users = {} /\ expanding[n].members = {}
  BY <1>1 DEF Latest
<1>5. Cardinality(seen) \in Nat
  BY <1>2, Size DEF ImpactTypeOK
<1> HIDE DEF n, q
<1>6. /\ MembersOf' = MembersOf /\ UsersOf' = UsersOf /\ Estimates' = Estimates /\ Expansions' = Expansions
      /\ table' = table /\ start' = start /\ opts' = opts
  BY <1>1, SameImpact
<1>7. ASSUME NEW m \in seen, Covered(m)
      PROVE  Covered(m)'
  <2>1. ASSUME NEW d \in UsersOf[m], d \notin ToSet(links)
        PROVE  \E i \in DOMAIN q : q[i].node = m /\ d \in q[i].users
    <3>1. PICK i \in DOMAIN expanding : expanding[i].node = m /\ d \in expanding[i].users
      BY <1>7, <2>1 DEF Covered
    <3>2. i # n
      BY <1>4, <3>1
    <3>3. i \in DOMAIN q
      BY <1>3, <3>2
    <3> QED BY <1>3, <3>1, <3>3
  <2>2. ASSUME NEW d \in MembersOf[m], d.target \notin seen
        PROVE  \E i \in DOMAIN q : q[i].node = m /\ d \in q[i].members
    <3>1. PICK i \in DOMAIN expanding : expanding[i].node = m /\ d \in expanding[i].members
      BY <1>7, <2>2 DEF Covered
    <3>2. i # n
      BY <1>4, <3>1
    <3>3. i \in DOMAIN q
      BY <1>3, <3>2
    <3> QED BY <1>3, <3>1, <3>3
  <2> QED BY <1>1, <1>6, <2>1, <2>2 DEF Covered
<1>8. ImpactTypeOK'
  BY <1>1, <1>2, <1>3, <1>6 DEF ImpactTypeOK, Asking
<1>9. Spread'
  <2>1. Len(q) <= Cardinality(seen)
    BY <1>2, <1>3, <1>5 DEF Spread, n
  <2>2. \A i \in DOMAIN q :
          /\ q[i].node \in seen
          /\ q[i].members \subseteq MembersOf[q[i].node]
          /\ q[i].users \subseteq UsersOf[q[i].node]
          /\ q[i].depth < i /\ q[i].depth < opts.maxDepth
          /\ \A D \in Estimates : D[q[i].node] <= q[i].depth
    BY <1>2, <1>3 DEF Spread
  <2>3. \A i, j \in DOMAIN q : q[i].node = q[j].node => i = j
    BY <1>2, <1>3 DEF Spread
  <2> QED BY <1>1, <1>2, <1>6, <2>1, <2>2, <2>3 DEF Spread
<1>10. Recorded'
  BY <1>1, <1>2, <1>3 DEF Recorded
<1>11. Reached'
  BY <1>1, <1>2, <1>6, <1>7 DEF Reached
<1> QED BY <1>1, <1>2, <1>6, <1>8, <1>9, <1>10, <1>11 DEF ImpactInv

LEMMA ImpactNextInv == ImpactInv /\ [ImpactNext]_<<question, impactVars>> => ImpactInv'
<1> SUFFICES ASSUME ImpactInv, [ImpactNext]_<<question, impactVars>> PROVE ImpactInv'
  OBVIOUS
<1>1. ASSUME ImpactNext
      PROVE  ImpactInv'
  BY <1>1, MemberInv, MemberAgainInv, UserInv, UserAgainInv, ImpactReturnInv DEF ImpactNext
<1>2. CASE UNCHANGED <<question, impactVars>>
  <2>1. UNCHANGED question /\ expanding' = expanding /\ seen' = seen /\ affected' = affected /\ links' = links
    BY <1>2 DEF impactVars
  <2>2. /\ MembersOf' = MembersOf /\ UsersOf' = UsersOf /\ Estimates' = Estimates /\ Expansions' = Expansions
        /\ table' = table /\ start' = start /\ opts' = opts
    BY <2>1, SameImpact
  <2>3. \A n : Covered(n) <=> Covered(n)'
    BY <2>1, <2>2 DEF Covered
  <2>4. ImpactTypeOK' /\ Recorded'
    BY <2>1, <2>2 DEF ImpactInv, ImpactTypeOK, Asking, Recorded
  <2>5. Spread'
    BY <2>1, <2>2 DEF ImpactInv, Spread
  <2>6. Reached'
    BY <2>1, <2>2, <2>3 DEF ImpactInv, Reached
  <2> QED BY <2>1, <2>2, <2>4, <2>5, <2>6 DEF ImpactInv
<1> QED BY <1>1, <1>2

\* What getImpactRadius finds lies within the depth by every estimate, an edge is
\* reported once and between nodes found, the direct dependents are all there, and
\* with them all that depends on any of them where the depth did not cut the walk.
THEOREM ImpactCorrect == ImpactSpec => []ImpactSound
<1>1. ImpactSpec => []ImpactInv
  <2>1. (table \in Tables /\ start \in Nodes /\ opts \in Asked) /\ ImpactInit => ImpactInv
    BY ImpactInitInv DEF Asking
  <2> QED BY <2>1, ImpactNextInv, PTL DEF ImpactSpec
<1>2. ImpactInv => ImpactSound
  <2> SUFFICES ASSUME ImpactInv PROVE ImpactSound
    OBVIOUS
  <2>1. ImpactTypeOK /\ Spread /\ Recorded /\ Reached /\ start \in seen
    BY DEF ImpactInv
  <2>2. /\ affected = seen /\ seen \subseteq Nodes /\ opts.maxDepth \in Nat /\ Cardinality(seen) \in Nat /\ start \in Nodes
    BY <2>1, AskedOptions, Size DEF ImpactTypeOK
  <2>3. \A i, j \in DOMAIN links : links[i] = links[j] => i = j
    BY <2>1 DEF Recorded
  <2>4. \A i \in DOMAIN links : links[i].source \in affected /\ links[i].target \in affected
    <3>1. \A i \in DOMAIN links : links[i] \in ToSet(links)
      BY DEF ToSet
    <3> QED BY <2>1, <2>2, <3>1 DEF Recorded
  <2>5. ASSUME expanding = <<>>, NEW n \in seen, Covered(n)
        PROVE  Users(n) \subseteq ToSet(links) /\ \A e \in Members(n) : e.target \in affected
    <3>1. DOMAIN expanding = {}
      BY <2>5
    <3>2. MembersOf[n] = Members(n) /\ UsersOf[n] = Users(n)
      BY <2>2, ImpactRows
    <3> QED BY <2>2, <2>5, <3>1, <3>2 DEF Covered
  <2>6. \A D \in Estimates : \A m \in affected : D[m] <= opts.maxDepth
    BY <2>1, <2>2 DEF Spread
  <2>7. ASSUME expanding = <<>>
        PROVE  /\ opts.maxDepth > 0 => Users(start) \subseteq ToSet(links)
               /\ Cardinality(affected) <= opts.maxDepth =>
                    \A n \in affected : /\ Users(n) \subseteq ToSet(links)
                                        /\ \A e \in Members(n) : e.target \in affected
    <3>1. ASSUME Cardinality(affected) <= opts.maxDepth, NEW n \in affected
          PROVE  Covered(n)
      BY <2>1, <2>2, <3>1 DEF Reached
    <3> QED BY <2>1, <2>2, <2>5, <2>7, <3>1 DEF Reached
  <2> QED BY <2>3, <2>4, <2>6, <2>7, Zenon DEF ImpactSound
<1> QED BY <1>1, <1>2, PTL

-----------------------------------------------------------------------------
(* findCircularDependencies: the inductive invariant.                         *)

DepsOf == [f \in Files |-> Dependencies(f)]
Entered == [file : Files, left : SUBSET Files]

\* A cycle of files, each in it once.
RealCycles ==
    {c \in Seq(Files) :
        /\ \A i, j \in DOMAIN c : (j = i + 1 \/ (i = Len(c) /\ j = 1)) => c[j] \in DepsOf[c[i]]
        /\ c # <<>> /\ \A i, j \in DOMAIN c : c[i] = c[j] => i = j}

\* The files the walk is done with; and the dependencies on which a cycle was closed.
Ended == explored \ {trail[i].file : i \in DOMAIN trail}
Closed == {<<c[Len(c)], c[1]>> : c \in cycles}

CycleTypeOK ==
    /\ Asking /\ explored \subseteq Files /\ trail \in Seq(Entered) /\ cycles \subseteq RealCycles

\* The calls in progress are of different files, each a dependency of the one before.
Winding ==
    /\ \A i \in DOMAIN trail : trail[i].file \in explored /\ trail[i].left \subseteq DepsOf[trail[i].file]
    /\ \A i, j \in DOMAIN trail : trail[i].file = trail[j].file => i = j
    /\ \A i, j \in DOMAIN trail : j = i + 1 => trail[j].file \in DepsOf[trail[i].file]

\* What the walk has come to leads to a file it is done with, or closes a cycle
\* that was found, or is being followed; and the files it is done with have an
\* order in which every dependency on a later one closes a cycle: any set of
\* them has a last one.
Unwound ==
    /\ \A x \in Ended : \A g \in DepsOf[x] : g \in Ended \/ <<x, g>> \in Closed
    /\ \A i \in DOMAIN trail : \A g \in DepsOf[trail[i].file] :
          \/ g \in trail[i].left \/ g \in Ended \/ <<trail[i].file, g>> \in Closed
          \/ i + 1 \in DOMAIN trail /\ g = trail[i + 1].file
    /\ \A S \in SUBSET Ended : S # {} => \E x \in S : \A g \in DepsOf[x] : g \in S => <<x, g>> \in Closed

CycleInv == CycleTypeOK /\ Winding /\ Unwound

LEMMA InDeps ==
  ASSUME Asking, NEW f \in Files
  PROVE  DepsOf[f] = Dependencies(f) /\ DepsOf[f] \subseteq Files /\ f \notin DepsOf[f]
<1>1. DepsOf[f] = Dependencies(f)
  BY DEF DepsOf
<1>2. ASSUME NEW g \in Dependencies(f)
      PROVE  g \in Files /\ g # f
  <2>1. PICK e \in table : g = FileOf[e.target] /\ FileOf[e.target] # f
    BY <1>2 DEF Dependencies
  <2>2. e.target \in Nodes
    BY AskedOptions
  <2> QED BY <2>1, <2>2 DEF Files
<1> QED BY <1>1, <1>2

LEMMA SameCycles ==
  ASSUME UNCHANGED question
  PROVE  /\ DepsOf' = DepsOf /\ RealCycles' = RealCycles /\ Asking' = Asking
<1>1. table' = table /\ start' = start /\ opts' = opts
  BY DEF question
<1>2. \A f : Dependencies(f)' = Dependencies(f)
  BY <1>1, Zenon DEF Dependencies
<1>3. DepsOf' = DepsOf
  BY <1>2, Zenon DEF DepsOf
<1>4. RealCycles' = RealCycles
  BY <1>3, Zenon DEF RealCycles
<1>5. Asking' = Asking
  BY <1>1 DEF Asking
<1> QED BY <1>3, <1>4, <1>5

LEMMA InEntered ==
  /\ \A q : q \in Seq(Entered) => \A i \in DOMAIN q : q[i] \in Entered
  /\ \A r \in Entered : r.file \in Files /\ r.left \subseteq Files
<1>1. \A q : q \in Seq(Entered) => \A i \in DOMAIN q : q[i] \in Entered
  OBVIOUS
<1>2. \A r \in Entered : r.file \in Files /\ r.left \subseteq Files
  BY DEF Entered
<1> QED BY <1>1, <1>2

LEMMA CycleInitInv == Asking /\ CycleInit => CycleInv
<1> SUFFICES ASSUME Asking, CycleInit PROVE CycleInv
  OBVIOUS
<1>1. trail = <<>> /\ explored = {} /\ cycles = {}
  BY DEF CycleInit
<1>2. DOMAIN trail = {} /\ Ended = {} /\ trail \in Seq(Entered)
  BY <1>1 DEF Ended
<1>3. CycleTypeOK
  BY <1>1, <1>2 DEF CycleTypeOK
<1>4. Winding
  BY <1>2 DEF Winding
<1>5. Unwound
  BY <1>2 DEF Unwound
<1> QED BY <1>3, <1>4, <1>5 DEF CycleInv

LEMMA DeepestFacts ==
  ASSUME CycleInv, trail # <<>>
  PROVE  /\ Len(trail) \in Nat /\ DOMAIN trail = 1..Len(trail) /\ Len(trail) \in DOMAIN trail
         /\ Deepest = trail[Len(trail)] /\ Deepest \in Entered /\ Deepest.file \in Files /\ Deepest.file \in explored
         /\ Deepest.left \subseteq DepsOf[Deepest.file] /\ DepsOf[Deepest.file] \subseteq Files
         /\ Deepest.file \notin DepsOf[Deepest.file]
<1>1. trail \in Seq(Entered) /\ Asking
  BY DEF CycleInv, CycleTypeOK
<1>2. Len(trail) \in Nat /\ DOMAIN trail = 1..Len(trail) /\ Len(trail) \in DOMAIN trail
  BY <1>1, FrontOf
<1>3. Deepest = trail[Len(trail)]
  BY DEF Deepest
<1>4. Deepest \in Entered /\ Deepest.file \in Files
  BY <1>1, <1>2, <1>3, InEntered
<1>5. Deepest.file \in explored /\ Deepest.left \subseteq DepsOf[Deepest.file]
  BY <1>2, <1>3 DEF CycleInv, Winding
<1> QED BY <1>1, <1>2, <1>3, <1>4, <1>5, InDeps

\* The calls in progress, q, when the last has come to dependency g.
LEMMA PastFileFacts ==
  ASSUME CycleInv, trail # <<>>, NEW g
  PROVE  /\ PastFile(g) \in Seq(Entered) /\ Len(PastFile(g)) = Len(trail) /\ DOMAIN PastFile(g) = DOMAIN trail
         /\ \A i \in DOMAIN trail : /\ PastFile(g)[i].file = trail[i].file
                                    /\ i # Len(trail) => PastFile(g)[i].left = trail[i].left
         /\ PastFile(g)[Len(trail)].left = trail[Len(trail)].left \ {g}
<1> DEFINE n == Len(trail)  r == [trail[n] EXCEPT !.left = @ \ {g}]
<1>1. trail \in Seq(Entered)
  BY DEF CycleInv, CycleTypeOK
<1>2. n \in Nat /\ DOMAIN trail = 1..n /\ n \in DOMAIN trail /\ trail[n] \in Entered
  BY DeepestFacts
<1>3. PastFile(g) = [trail EXCEPT ![n] = r]
  BY DEF PastFile
<1>4. r \in Entered /\ r.file = trail[n].file /\ r.left = trail[n].left \ {g}
  BY <1>2 DEF Entered
<1> HIDE DEF r, n
<1>5. /\ PastFile(g) \in Seq(Entered) /\ Len(PastFile(g)) = Len(trail) /\ DOMAIN PastFile(g) = DOMAIN trail
      /\ PastFile(g)[n] = r /\ \A i \in DOMAIN trail : i # n => PastFile(g)[i] = trail[i]
  BY <1>1, <1>2, <1>3, <1>4
<1>6. \A i \in DOMAIN trail : /\ PastFile(g)[i].file = trail[i].file
                              /\ i # n => PastFile(g)[i].left = trail[i].left
  BY <1>4, <1>5
<1>7. PastFile(g)[n].left = trail[n].left \ {g}
  BY <1>4, <1>5
<1> QED BY <1>5, <1>6, <1>7 DEF n

-----------------------------------------------------------------------------
(* findCircularDependencies: the steps.                                       *)

\* The walk has come to dependency g and goes no further.
LEMMA ComeToInv ==
  ASSUME CycleInv, trail # <<>>, NEW g \in Deepest.left, UNCHANGED question, explored' = explored,
         trail' = PastFile(g), cycles \subseteq cycles', cycles' \subseteq RealCycles,
         g \in Ended \/ <<Deepest.file, g>> \in Closed'
  PROVE  CycleInv'
<1>1. CycleTypeOK /\ Winding /\ Unwound
  BY DEF CycleInv
<1>2. /\ PastFile(g) \in Seq(Entered) /\ Len(PastFile(g)) = Len(trail) /\ DOMAIN PastFile(g) = DOMAIN trail
      /\ \A i \in DOMAIN trail : /\ PastFile(g)[i].file = trail[i].file
                                 /\ i # Len(trail) => PastFile(g)[i].left = trail[i].left
      /\ PastFile(g)[Len(trail)].left = trail[Len(trail)].left \ {g}
  BY PastFileFacts
<1>3. DepsOf' = DepsOf /\ RealCycles' = RealCycles /\ Asking'
  BY <1>1, SameCycles DEF CycleTypeOK
<1>4. Len(trail) \in DOMAIN trail /\ Deepest = trail[Len(trail)]
  BY DeepestFacts
<1>5. Ended' = Ended
  <2>1. {trail'[i].file : i \in DOMAIN trail'} = {trail[i].file : i \in DOMAIN trail}
    BY <1>2
  <2> QED BY <2>1 DEF Ended
<1>6. Closed \subseteq Closed'
  BY DEF Closed
<1>7. CycleTypeOK'
  BY <1>1, <1>2, <1>3, Zenon DEF CycleTypeOK
<1>8. \A i \in DOMAIN trail : trail'[i].left \subseteq trail[i].left /\ trail'[i].file = trail[i].file
  BY <1>2
<1>9. Winding'
  <2>1. DOMAIN trail' = DOMAIN trail
    BY <1>2
  <2>2. ASSUME NEW i \in DOMAIN trail
        PROVE  trail'[i].file \in explored' /\ trail'[i].left \subseteq DepsOf'[trail'[i].file]
    <3>1. trail[i].file \in explored /\ trail[i].left \subseteq DepsOf[trail[i].file]
      BY <1>1 DEF Winding
    <3> QED BY <1>3, <1>8, <3>1
  <2>3. ASSUME NEW i \in DOMAIN trail, NEW j \in DOMAIN trail, trail'[i].file = trail'[j].file
        PROVE  i = j
    BY <1>1, <1>8, <2>3 DEF Winding
  <2>4. ASSUME NEW i \in DOMAIN trail, NEW j \in DOMAIN trail, j = i + 1
        PROVE  trail'[j].file \in DepsOf'[trail'[i].file]
    <3>1. trail[j].file \in DepsOf[trail[i].file]
      BY <1>1, <2>4 DEF Winding
    <3> QED BY <1>3, <1>8, <3>1
  <2> QED BY <2>1, <2>2, <2>3, <2>4, Zenon DEF Winding
<1>10. Unwound'
  <2>1. \A x \in Ended : \A y \in DepsOf[x] : y \in Ended \/ <<x, y>> \in Closed'
    BY <1>1, <1>6 DEF Unwound
  <2>2. ASSUME NEW i \in DOMAIN trail, NEW y \in DepsOf[trail[i].file], y \notin trail'[i].left, y \notin Ended,
               <<trail[i].file, y>> \notin Closed'
        PROVE  i + 1 \in DOMAIN trail /\ y = trail[i + 1].file
    <3>1. <<trail[i].file, y>> \notin Closed
      BY <1>6, <2>2
    <3>2. y \notin trail[i].left
      <4>1. CASE i = Len(trail) /\ y = g
        BY <2>2, <4>1, <1>4
      <4> QED BY <1>2, <2>2, <4>1
    <3> QED BY <1>1, <2>2, <3>1, <3>2 DEF Unwound
  <2>3. \A S \in SUBSET Ended : S # {} => \E x \in S : \A y \in DepsOf[x] : y \in S => <<x, y>> \in Closed'
    BY <1>1, <1>6 DEF Unwound
  <2>4. \A i \in DOMAIN trail' : \A y \in DepsOf[trail'[i].file] :
          \/ y \in trail'[i].left \/ y \in Ended \/ <<trail'[i].file, y>> \in Closed'
          \/ i + 1 \in DOMAIN trail' /\ y = trail'[i + 1].file
    BY <1>2, <1>8, <2>2
  <2> QED BY <1>3, <1>5, <2>1, <2>3, <2>4 DEF Unwound
<1> QED BY <1>7, <1>9, <1>10 DEF CycleInv

LEMMA IgnoreInv == ASSUME CycleInv, trail # <<>>, NEW g \in Deepest.left, Ignore(g) PROVE CycleInv'
<1>1. /\ g \in explored \ ToSet(Route) /\ trail' = PastFile(g) /\ UNCHANGED question
      /\ explored' = explored /\ cycles' = cycles
  BY DEF Ignore
<1>2. ToSet(Route) = {trail[i].file : i \in DOMAIN trail}
  <2>1. DOMAIN trail = 1..Len(trail)
    BY DeepestFacts
  <2> QED BY <2>1 DEF ToSet, Route
<1>3. g \in Ended
  BY <1>1, <1>2 DEF Ended
<1>4. cycles' \subseteq RealCycles
  BY <1>1 DEF CycleInv, CycleTypeOK
<1> QED BY <1>1, <1>3, <1>4, ComeToInv

\* The path from where the dependency lies on it.
LEMMA LoopFacts ==
  ASSUME CycleInv, trail # <<>>, NEW g \in Deepest.left, NEW k \in DOMAIN trail, trail[k].file = g
  PROVE  /\ Loop(k) \in RealCycles /\ Loop(k)[1] = g /\ Loop(k)[Len(Loop(k))] = Deepest.file
<1> DEFINE n == Len(trail)  c == Loop(k)
<1>1. Winding /\ trail \in Seq(Entered)
  BY DEF CycleInv, CycleTypeOK
<1>2. n \in Nat /\ DOMAIN trail = 1..n /\ Deepest = trail[n] /\ k \in 1..n /\ n \in 1..n
  BY DeepestFacts
<1>3. Route \in Seq(Files) /\ Len(Route) = n /\ \A i \in 1..n : Route[i] = trail[i].file
  <2>1. \A i \in 1..n : trail[i].file \in Files
    BY <1>1, <1>2, InEntered
  <2>2. Route = [i \in 1..n |-> trail[i].file]
    BY DEF Route
  <2> HIDE DEF n
  <2> QED BY <1>2, <2>1, <2>2
<1>4. c = SubSeq(Route, k, n)
  BY DEF Loop
<1> HIDE DEF n, c
<1>5. /\ c \in Seq(Files) /\ Len(c) = n - k + 1 /\ DOMAIN c = 1..(n - k + 1)
      /\ \A i \in 1..(n - k + 1) : c[i] = Route[k + i - 1]
  BY <1>2, <1>3, <1>4
<1>6. \A i \in 1..(n - k + 1) : k + i - 1 \in 1..n /\ c[i] = trail[k + i - 1].file
  BY <1>2, <1>3, <1>5
<1>7. 1 \in DOMAIN c /\ Len(c) \in DOMAIN c /\ c # <<>>
  BY <1>2, <1>5
<1>8. c[1] = g
  <2>1. c[1] = trail[k + 1 - 1].file
    BY <1>5, <1>6, <1>7
  <2>2. k + 1 - 1 = k
    BY <1>2
  <2> QED BY <2>1, <2>2
<1>9. c[Len(c)] = Deepest.file
  <2> DEFINE l == Len(c)
  <2>1. l \in 1..(n - k + 1) /\ l = n - k + 1
    BY <1>5, <1>7
  <2> HIDE DEF l
  <2>2. c[l] = trail[k + l - 1].file
    BY <1>6, <2>1
  <2>3. k + l - 1 = n
    BY <1>2, <2>1
  <2> QED BY <1>2, <2>2, <2>3 DEF l
<1>10. ASSUME NEW i \in DOMAIN c, NEW j \in DOMAIN c, c[i] = c[j]
       PROVE  i = j
  <2> DEFINE a == k + i - 1  b == k + j - 1
  <2>1. a \in DOMAIN trail /\ b \in DOMAIN trail /\ c[i] = trail[a].file /\ c[j] = trail[b].file
    BY <1>2, <1>5, <1>6
  <2>2. a = b => i = j
    BY <1>2, <1>5
  <2> HIDE DEF a, b
  <2>3. a = b
    BY <1>1, <1>10, <2>1 DEF Winding
  <2> QED BY <2>2, <2>3
<1>11. ASSUME NEW i \in DOMAIN c, NEW j \in DOMAIN c, j = i + 1 \/ (i = Len(c) /\ j = 1)
       PROVE  c[j] \in DepsOf[c[i]]
  <2>1. CASE j = i + 1
    <3>1. /\ k + i - 1 \in DOMAIN trail /\ k + j - 1 \in DOMAIN trail /\ k + j - 1 = (k + i - 1) + 1
      BY <1>2, <1>5, <1>6, <2>1
    <3>2. trail[k + j - 1].file \in DepsOf[trail[k + i - 1].file]
      BY <1>1, <3>1 DEF Winding
    <3> QED BY <1>5, <1>6, <3>2
  <2>2. CASE i = Len(c) /\ j = 1
    BY <1>8, <1>9, <2>2, DeepestFacts
  <2> QED BY <1>11, <2>1, <2>2
<1> QED BY <1>5, <1>7, <1>8, <1>9, <1>10, <1>11, Zenon DEF RealCycles, c

LEMMA CloseInv ==
  ASSUME CycleInv, trail # <<>>, NEW g \in Deepest.left, NEW k \in DOMAIN trail, Close(k, g)
  PROVE  CycleInv'
<1>1. /\ trail[k].file = g /\ cycles' = cycles \cup {Loop(k)} /\ trail' = PastFile(g)
      /\ UNCHANGED question /\ explored' = explored
  BY DEF Close
<1>2. Loop(k) \in RealCycles /\ Loop(k)[1] = g /\ Loop(k)[Len(Loop(k))] = Deepest.file
  BY <1>1, LoopFacts
<1>3. cycles \subseteq cycles' /\ cycles' \subseteq RealCycles
  BY <1>1, <1>2 DEF CycleInv, CycleTypeOK
<1>4. <<Deepest.file, g>> \in Closed'
  <2> DEFINE c == Loop(k)
  <2>1. c \in cycles' /\ c[1] = g /\ c[Len(c)] = Deepest.file
    BY <1>1, <1>2
  <2> HIDE DEF c
  <2>2. \A x : x = <<c[Len(c)], c[1]>> => x \in Closed'
    BY <2>1, Zenon DEF Closed
  <2> QED BY <2>1, <2>2
<1> QED BY <1>1, <1>3, <1>4, ComeToInv

\* A call for file f is made on top of q, the calls in progress.
LEMMA FollowInv ==
  ASSUME CycleInv, NEW f \in Files, f \notin explored, NEW q \in Seq(Entered), Follow(q, f),
         UNCHANGED question, cycles' = cycles, DOMAIN q = DOMAIN trail,
         \A i \in DOMAIN trail : q[i].file = trail[i].file /\ q[i].left \subseteq trail[i].left,
         \A i \in DOMAIN trail : \A g \in trail[i].left :
            g \in q[i].left \/ (i = Len(trail) /\ g = f),
         trail # <<>> => f \in DepsOf[trail[Len(trail)].file]
  PROVE  CycleInv'
<1> DEFINE n == Len(trail)  r == [file |-> f, left |-> Dependencies(f)]
<1>1. CycleTypeOK /\ Winding /\ Unwound
  BY DEF CycleInv
<1>2. trail' = Append(q, r) /\ explored' = explored \cup {f}
  BY DEF Follow
<1>3. trail \in Seq(Entered) /\ Asking /\ explored \subseteq Files
  BY <1>1 DEF CycleTypeOK
<1>4. r \in Entered /\ r.file = f /\ r.left = DepsOf[f]
  BY <1>3, InDeps DEF Entered
<1>5. n \in Nat /\ DOMAIN trail = 1..n
  BY <1>3
<1>6. Len(q) = n
  BY <1>5
<1> HIDE DEF n, r
<1>7. /\ trail' \in Seq(Entered) /\ DOMAIN q = 1..n /\ DOMAIN trail' = 1..(n + 1) /\ Len(trail') = n + 1
      /\ trail'[n + 1] = r /\ \A i \in 1..n : trail'[i] = q[i]
      /\ \A i \in 1..(n + 1) : i = n + 1 \/ i \in 1..n
  BY <1>2, <1>4, <1>6, Pushed
<1>8. n + 1 \in 1..(n + 1) /\ \A i \in 1..n : i \in 1..(n + 1)
  BY <1>5
<1>9. \A i \in 1..n : trail'[i].file = trail[i].file /\ trail'[i].left \subseteq trail[i].left
  BY <1>5, <1>7
<1>10. DepsOf' = DepsOf /\ RealCycles' = RealCycles /\ Asking'
  BY <1>3, SameCycles
<1>11. \A i \in 1..n : trail[i].file \in explored /\ trail[i].left \subseteq DepsOf[trail[i].file]
  BY <1>1, <1>5 DEF Winding
<1>12. Ended' = Ended
  <2>1. {trail'[i].file : i \in DOMAIN trail'} = {trail[i].file : i \in DOMAIN trail} \cup {f}
    BY <1>4, <1>5, <1>7, <1>8, <1>9
  <2> QED BY <1>2, <2>1 DEF Ended
<1>13. Closed' = Closed
  BY DEF Closed
<1>14. CycleTypeOK'
  BY <1>1, <1>2, <1>7, <1>10 DEF CycleTypeOK
<1>15. Winding'
  <2>1. ASSUME NEW i \in DOMAIN trail'
        PROVE  trail'[i].file \in explored' /\ trail'[i].left \subseteq DepsOf[trail'[i].file]
    <3>1. CASE i = n + 1
      BY <3>1, <1>2, <1>4, <1>7
    <3>2. CASE i \in 1..n
      BY <3>2, <1>2, <1>9, <1>11
    <3> QED BY <3>1, <3>2, <1>7
  <2>2. ASSUME NEW i \in DOMAIN trail', NEW j \in DOMAIN trail', trail'[i].file = trail'[j].file
        PROVE  i = j
    <3>1. \A k \in 1..n : trail'[k].file # f
      BY <1>9, <1>11
    <3>2. CASE i \in 1..n /\ j \in 1..n
      BY <2>2, <3>2, <1>1, <1>5, <1>9 DEF Winding
    <3>3. CASE i = n + 1
      BY <2>2, <3>1, <3>3, <1>4, <1>7
    <3>4. CASE j = n + 1
      BY <2>2, <3>1, <3>4, <1>4, <1>7
    <3> QED BY <3>2, <3>3, <3>4, <1>7
  <2>3. ASSUME NEW i \in DOMAIN trail', NEW j \in DOMAIN trail', j = i + 1
        PROVE  trail'[j].file \in DepsOf[trail'[i].file]
    <3>1. CASE j = n + 1
      <4>1. i = n /\ n \in 1..n /\ trail # <<>>
        BY <2>3, <3>1, <1>5, <1>7
      <4>2. trail'[i].file = trail[n].file /\ trail'[j].file = f
        BY <3>1, <4>1, <1>4, <1>7, <1>9
      <4> QED BY <4>1, <4>2 DEF n
    <3>2. CASE j \in 1..n
      <4>1. i \in 1..n
        BY <2>3, <3>2, <1>5, <1>7
      <4> QED BY <2>3, <3>2, <4>1, <1>1, <1>5, <1>9 DEF Winding
    <3> QED BY <3>1, <3>2, <1>7
  <2> QED BY <1>10, <2>1, <2>2, <2>3 DEF Winding
<1>16. Unwound'
  <2>1. ASSUME NEW i \in DOMAIN trail', NEW g \in DepsOf[trail'[i].file]
        PROVE  \/ g \in trail'[i].left \/ g \in Ended \/ <<trail'[i].file, g>> \in Closed
               \/ i + 1 \in DOMAIN trail' /\ g = trail'[i + 1].file
    <3>1. CASE i = n + 1
      BY <3>1, <1>4, <1>7
    <3>2. CASE i \in 1..n
      <4>1. trail'[i].file = trail[i].file /\ g \in DepsOf[trail[i].file] /\ i \in DOMAIN trail
        BY <2>1, <3>2, <1>5, <1>9
      <4>2. \/ g \in trail[i].left \/ g \in Ended \/ <<trail[i].file, g>> \in Closed
            \/ i + 1 \in DOMAIN trail /\ g = trail[i + 1].file
        BY <1>1, <4>1 DEF Unwound
      <4>3. CASE g \in trail[i].left
        <5>1. g \in q[i].left \/ (i = n /\ g = f)
          BY <4>1, <4>3 DEF n
        <5> QED BY <5>1, <3>2, <1>4, <1>7, <1>8
      <4>4. CASE i + 1 \in DOMAIN trail /\ g = trail[i + 1].file
        BY <4>4, <1>5, <1>7, <1>8, <1>9
      <4> QED BY <4>1, <4>2, <4>3, <4>4
    <3> QED BY <3>1, <3>2, <1>7
  <2>2. /\ \A x \in Ended : \A g \in DepsOf[x] : g \in Ended \/ <<x, g>> \in Closed
        /\ \A S \in SUBSET Ended : S # {} => \E x \in S : \A g \in DepsOf[x] : g \in S => <<x, g>> \in Closed
    BY <1>1 DEF Unwound
  <2> QED BY <1>10, <1>12, <1>13, <2>1, <2>2 DEF Unwound
<1> QED BY <1>14, <1>15, <1>16 DEF CycleInv

LEMMA BeginInv == ASSUME CycleInv, NEW f \in Files, Begin(f) PROVE CycleInv'
<1>1. trail = <<>> /\ f \notin explored /\ Follow(trail, f) /\ UNCHANGED question /\ cycles' = cycles
  BY DEF Begin
<1>2. DOMAIN trail = {} /\ trail \in Seq(Entered)
  BY <1>1
<1> QED BY <1>1, <1>2, FollowInv

LEMMA GoInv == ASSUME CycleInv, trail # <<>>, NEW g \in Deepest.left, Go(g) PROVE CycleInv'
<1> DEFINE q == PastFile(g)
<1>1. g \notin explored /\ Follow(q, g) /\ UNCHANGED question /\ cycles' = cycles
  BY DEF Go
<1>2. /\ q \in Seq(Entered) /\ Len(q) = Len(trail) /\ DOMAIN q = DOMAIN trail
      /\ \A i \in DOMAIN trail : /\ q[i].file = trail[i].file
                                 /\ i # Len(trail) => q[i].left = trail[i].left
      /\ q[Len(trail)].left = trail[Len(trail)].left \ {g}
  BY PastFileFacts
<1>3. Deepest = trail[Len(trail)] /\ g \in DepsOf[Deepest.file] /\ g \in Files
  BY DeepestFacts
<1> HIDE DEF q
<1>4. \A i \in DOMAIN trail : q[i].file = trail[i].file /\ q[i].left \subseteq trail[i].left
  BY <1>2
<1>5. \A i \in DOMAIN trail : \A d \in trail[i].left : d \in q[i].left \/ (i = Len(trail) /\ d = g)
  BY <1>2
<1> QED BY <1>1, <1>2, <1>3, <1>4, <1>5, FollowInv

LEMMA FinishInv == CycleInv /\ trail # <<>> /\ Finish => CycleInv'
<1> SUFFICES ASSUME CycleInv, trail # <<>>, Finish PROVE CycleInv'
  OBVIOUS
<1> DEFINE n == Len(trail)  q == Front(trail)  f == Deepest.file
<1>1. Deepest.left = {} /\ trail' = q /\ UNCHANGED question /\ explored' = explored /\ cycles' = cycles
  BY DEF Finish
<1>2. CycleTypeOK /\ Winding /\ Unwound
  BY DEF CycleInv
<1>3. trail \in Seq(Entered) /\ Asking
  BY <1>2 DEF CycleTypeOK
<1>4. /\ q \in Seq(Entered) /\ n \in Nat /\ n \in DOMAIN trail /\ DOMAIN trail = 1..n /\ Len(q) = n - 1 /\ DOMAIN q = 1..(n - 1)
      /\ \A i \in DOMAIN q : i \in DOMAIN trail /\ i < n /\ q[i] = trail[i]
  BY <1>3, FrontOf
<1>5. Deepest = trail[n] /\ f = trail[n].file /\ f \in explored /\ f \in Files /\ f \notin DepsOf[f] /\ trail[n].left = {}
  BY <1>1, DeepestFacts
<1> HIDE DEF n, q, f
<1>6. DepsOf' = DepsOf /\ RealCycles' = RealCycles /\ Asking' /\ Closed' = Closed
  <2>1. Closed' = Closed
    BY <1>1 DEF Closed
  <2> QED BY <1>1, <1>3, <2>1, SameCycles
<1>7. f \notin Ended /\ Ended' = Ended \cup {f}
  <2>1. \A i \in DOMAIN q : trail[i].file # f
    BY <1>2, <1>4, <1>5 DEF Winding
  <2>2. \A i \in DOMAIN trail : i = n \/ i \in DOMAIN q
    BY <1>4
  <2>3. {trail[i].file : i \in DOMAIN trail} = {q[i].file : i \in DOMAIN q} \cup {f}
    BY <1>4, <1>5, <2>2
  <2>4. f \notin {q[i].file : i \in DOMAIN q}
    BY <1>4, <2>1
  <2>5. Ended' = explored \ {q[i].file : i \in DOMAIN q}
    BY <1>1 DEF Ended
  <2> QED BY <1>5, <2>3, <2>4, <2>5 DEF Ended
<1>8. CycleTypeOK'
  BY <1>1, <1>2, <1>4, <1>6 DEF CycleTypeOK
<1>9. Winding'
  BY <1>1, <1>2, <1>4, <1>6 DEF Winding
<1>10. \A x \in Ended : \A g \in DepsOf[x] : g \in Ended \/ <<x, g>> \in Closed
  BY <1>2 DEF Unwound
<1>11. \A g \in DepsOf[f] : g \in Ended \/ <<f, g>> \in Closed
  <2>1. n + 1 \notin DOMAIN trail
    BY <1>4
  <2> QED BY <1>2, <1>4, <1>5, <2>1 DEF Unwound
<1>12. Unwound'
  <2>1. ASSUME NEW i \in DOMAIN q, NEW g \in DepsOf[q[i].file]
        PROVE  \/ g \in q[i].left \/ g \in Ended' \/ <<q[i].file, g>> \in Closed
               \/ i + 1 \in DOMAIN q /\ g = q[i + 1].file
    <3>1. \/ g \in trail[i].left \/ g \in Ended \/ <<trail[i].file, g>> \in Closed
          \/ i + 1 \in DOMAIN trail /\ g = trail[i + 1].file
      BY <1>2, <1>4, <2>1 DEF Unwound
    <3>2. CASE i + 1 \in DOMAIN trail /\ g = trail[i + 1].file
      <4>1. CASE i + 1 = n
        BY <3>2, <4>1, <1>5, <1>7
      <4>2. CASE i + 1 # n
        <5>1. i + 1 \in DOMAIN q
          BY <3>2, <4>2, <1>4
        <5> QED BY <3>2, <5>1, <1>4
      <4> QED BY <4>1, <4>2
    <3> QED BY <3>1, <3>2, <1>4, <1>7
  <2>2. ASSUME NEW x \in Ended', NEW g \in DepsOf[x]
        PROVE  g \in Ended' \/ <<x, g>> \in Closed
    BY <1>7, <1>10, <1>11
  <2>3. ASSUME NEW S \in SUBSET Ended', S # {}
        PROVE  \E x \in S : \A g \in DepsOf[x] : g \in S => <<x, g>> \in Closed
    <3> DEFINE T == S \cap Ended
    <3>1. CASE T = {}
      <4>1. S = {f}
        BY <1>7, <2>3, <3>1
      <4> QED BY <1>5, <4>1
    <3>2. CASE T # {}
      <4>1. PICK x \in T : \A g \in DepsOf[x] : g \in T => <<x, g>> \in Closed
        <5>1. T \in SUBSET Ended
          OBVIOUS
        <5> HIDE DEF T
        <5> QED BY <3>2, <5>1, <1>2 DEF Unwound
      <4>2. ASSUME NEW g \in DepsOf[x], g \in S
            PROVE  <<x, g>> \in Closed
        <5>1. CASE g \in Ended
          BY <4>1, <4>2, <5>1
        <5>2. CASE g = f
          BY <4>1, <4>2, <5>2, <1>7, <1>10
        <5> QED BY <4>2, <5>1, <5>2, <1>7
      <4> QED BY <4>1, <4>2
    <3> QED BY <3>1, <3>2
  <2> QED BY <1>1, <1>6, <2>1, <2>2, <2>3 DEF Unwound
<1> QED BY <1>8, <1>9, <1>12 DEF CycleInv

LEMMA CycleNextInv == CycleInv /\ [CycleNext]_<<question, cycleVars>> => CycleInv'
<1> SUFFICES ASSUME CycleInv, [CycleNext]_<<question, cycleVars>> PROVE CycleInv'
  OBVIOUS
<1>1. ASSUME CycleNext
      PROVE  CycleInv'
  BY <1>1, BeginInv, FinishInv, IgnoreInv, GoInv, CloseInv DEF CycleNext
<1>2. CASE UNCHANGED <<question, cycleVars>>
  <2>1. UNCHANGED question /\ trail' = trail /\ explored' = explored /\ cycles' = cycles
    BY <1>2 DEF cycleVars
  <2>2. DepsOf' = DepsOf /\ RealCycles' = RealCycles /\ Asking' = Asking
    BY <2>1, SameCycles
  <2>3. Ended' = Ended /\ Closed' = Closed
    BY <2>1 DEF Ended, Closed
  <2>4. CycleTypeOK' /\ Winding'
    BY <2>1, <2>2 DEF CycleInv, CycleTypeOK, Winding
  <2>5. Unwound'
    BY <2>1, <2>2, <2>3 DEF CycleInv, Unwound
  <2> QED BY <2>4, <2>5 DEF CycleInv
<1> QED BY <1>1, <1>2

-----------------------------------------------------------------------------
(* findCircularDependencies: what depends on what.                            *)

\* A set of files holds what its files depend on.
ClosedUnder(S) == S \subseteq Files /\ \A h \in S : DepsOf[h] \subseteq S

LEMMA Depending ==
  ASSUME Asking, NEW f \in Files, NEW g
  PROVE  DependsOn(f, g) <=> \A S : ClosedUnder(S) /\ DepsOf[f] \subseteq S => g \in S
<1>1. ASSUME NEW S
      PROVE  ClosedUnder(S) <=> S \in SUBSET Files /\ \A h \in S : Dependencies(h) \subseteq S
  <2>1. CASE S \in SUBSET Files
    <3>1. \A h \in S : DepsOf[h] = Dependencies(h)
      BY <2>1, InDeps
    <3> QED BY <2>1, <3>1 DEF ClosedUnder
  <2>2. CASE S \notin SUBSET Files
    BY <2>2 DEF ClosedUnder
  <2> QED BY <2>1, <2>2
<1>2. DepsOf[f] = Dependencies(f)
  BY InDeps
<1> QED BY <1>1, <1>2 DEF DependsOn

LEMMA DependsFacts ==
  ASSUME Asking
  PROVE  /\ \A f \in Files : \A g \in DepsOf[f] : DependsOn(f, g)
         /\ \A f, g, h \in Files : DependsOn(f, g) /\ DependsOn(g, h) => DependsOn(f, h)
<1>1. ASSUME NEW f \in Files, NEW g \in DepsOf[f]
      PROVE  DependsOn(f, g)
  BY Depending
<1>2. ASSUME NEW f \in Files, NEW g \in Files, NEW h \in Files, DependsOn(f, g), DependsOn(g, h)
      PROVE  DependsOn(f, h)
  <2> SUFFICES ASSUME NEW S, ClosedUnder(S), DepsOf[f] \subseteq S PROVE h \in S
    BY Depending
  <2>1. g \in S
    BY <1>2, Depending
  <2>2. DepsOf[g] \subseteq S
    BY <2>1 DEF ClosedUnder
  <2> QED BY <1>2, <2>2, Depending
<1> QED BY <1>1, <1>2

\* What x depends on lies behind one of its own dependencies.
LEMMA FirstStep ==
  ASSUME Asking, NEW x \in Files, NEW f \in Files, DependsOn(x, f)
  PROVE  \E g \in DepsOf[x] : g = f \/ DependsOn(g, f)
<1> DEFINE S == {y \in Files : \E g \in DepsOf[x] : g = y \/ DependsOn(g, y)}
<1>1. DepsOf[x] \subseteq Files
  BY InDeps
<1>2. DepsOf[x] \subseteq S
  BY <1>1
<1>3. ASSUME NEW y \in S, NEW z \in DepsOf[y]
      PROVE  z \in S
  <2>1. y \in Files /\ z \in Files /\ DependsOn(y, z)
    BY InDeps, DependsFacts
  <2>2. PICK g \in DepsOf[x] : g = y \/ DependsOn(g, y)
    OBVIOUS
  <2>3. g \in Files
    BY <1>1
  <2>4. DependsOn(g, z)
    BY <2>1, <2>2, <2>3, DependsFacts
  <2> QED BY <2>1, <2>4
<1>4. ClosedUnder(S)
  BY <1>3 DEF ClosedUnder
<1> HIDE DEF S
<1>5. f \in S
  BY <1>2, <1>4, Depending
<1> QED BY <1>5 DEF S

\* A set of files that holds one file of a cycle holds those after it.
LEMMA Along ==
  ASSUME Asking, NEW c \in RealCycles, NEW S, ClosedUnder(S), NEW i \in DOMAIN c, c[i] \in S, NEW j \in DOMAIN c, i <= j
  PROVE  c[j] \in S
<1>1. /\ c \in Seq(Files) /\ Len(c) \in Nat /\ DOMAIN c = 1..Len(c)
      /\ \A a, b \in DOMAIN c : b = a + 1 => c[b] \in DepsOf[c[a]]
  <2>1. c \in Seq(Files) /\ \A a, b \in DOMAIN c : (b = a + 1 \/ (a = Len(c) /\ b = 1)) => c[b] \in DepsOf[c[a]]
    BY Zenon DEF RealCycles
  <2> QED BY <2>1
<1> DEFINE M == {k \in DOMAIN c : i <= k /\ c[k] \notin S}
<1> SUFFICES ASSUME M # {} PROVE FALSE
  OBVIOUS
<1>2. M \in SUBSET Nat
  BY <1>1
<1> HIDE DEF M
<1>3. PICK k \in M : \A m \in M : k <= m
  BY <1>2, Least
<1>4. k \in DOMAIN c /\ k \in Nat /\ i <= k /\ c[k] \notin S /\ k # i
  BY <1>1, <1>3 DEF M
<1>5. k - 1 \in DOMAIN c /\ i <= k - 1 /\ k = (k - 1) + 1 /\ ~(k <= k - 1)
  BY <1>1, <1>4
<1>6. c[k - 1] \in S
  BY <1>3, <1>5 DEF M
<1>7. c[k] \in DepsOf[c[k - 1]]
  BY <1>1, <1>4, <1>5
<1> QED BY <1>4, <1>6, <1>7 DEF ClosedUnder

\* The files of a cycle depend on each other.
LEMMA RoundTheCycle ==
  ASSUME Asking, NEW c \in RealCycles, NEW i \in DOMAIN c
  PROVE  /\ c[i] \in Files /\ Len(c) \in DOMAIN c /\ 1 \in DOMAIN c
         /\ c[i] = c[1] \/ DependsOn(c[1], c[i])
         /\ c[i] = c[Len(c)] \/ DependsOn(c[i], c[Len(c)])
<1>1. c \in Seq(Files) /\ c # <<>> /\ \A a, b \in DOMAIN c : b = a + 1 => c[b] \in DepsOf[c[a]]
  BY Zenon DEF RealCycles
<1>2. /\ \A k \in DOMAIN c : c[k] \in Files
      /\ Len(c) \in Nat /\ DOMAIN c = 1..Len(c) /\ Len(c) \in DOMAIN c /\ 1 \in DOMAIN c /\ i \in 1..Len(c)
  BY <1>1
<1>3. ASSUME NEW a \in DOMAIN c, NEW b \in DOMAIN c, a < b
      PROVE  DependsOn(c[a], c[b])
  <2> SUFFICES ASSUME NEW S, ClosedUnder(S), DepsOf[c[a]] \subseteq S PROVE c[b] \in S
    BY <1>2, Depending
  <2>1. a + 1 \in DOMAIN c /\ a + 1 <= b
    BY <1>2, <1>3
  <2>2. c[a + 1] \in S
    BY <1>1, <2>1
  <2> QED BY <2>1, <2>2, Along
<1>4. c[i] = c[1] \/ DependsOn(c[1], c[i])
  BY <1>2, <1>3
<1>5. c[i] = c[Len(c)] \/ DependsOn(c[i], c[Len(c)])
  BY <1>2, <1>3
<1> QED BY <1>2, <1>4, <1>5

\* What findCircularDependencies reports is a cycle of files, each in it once; and
\* for any file that depends on itself it reports one among the files that depend
\* on it and on which it depends.
THEOREM CyclesCorrect == CycleSpec => []CyclesReal
<1>1. CycleSpec => []CycleInv
  <2>1. (table \in Tables /\ start \in Nodes /\ opts \in Asked) /\ CycleInit => CycleInv
    BY CycleInitInv DEF Asking
  <2> QED BY <2>1, CycleNextInv, PTL DEF CycleSpec
<1>2. CycleInv => CyclesReal
  <2> SUFFICES ASSUME CycleInv PROVE CyclesReal
    OBVIOUS
  <2>1. Asking /\ cycles \subseteq RealCycles /\ Unwound
    BY DEF CycleInv, CycleTypeOK
  <2>2. ASSUME NEW c \in cycles
        PROVE  /\ \A i, j \in DOMAIN c : (j = i + 1 \/ (i = Len(c) /\ j = 1)) => c[j] \in Dependencies(c[i])
               /\ c # <<>> /\ \A i, j \in DOMAIN c : c[i] = c[j] => i = j
    <3>1. /\ c \in Seq(Files)
          /\ \A i, j \in DOMAIN c : (j = i + 1 \/ (i = Len(c) /\ j = 1)) => c[j] \in DepsOf[c[i]]
          /\ c # <<>> /\ \A i, j \in DOMAIN c : c[i] = c[j] => i = j
      BY <2>1, Zenon DEF RealCycles
    <3>2. \A i \in DOMAIN c : c[i] \in Files
      BY <3>1
    <3>3. \A i \in DOMAIN c : DepsOf[c[i]] = Dependencies(c[i])
      <4>1. \A f \in Files : DepsOf[f] = Dependencies(f)
        BY <2>1, InDeps
      <4> QED BY <3>2, <4>1, Zenon
    <3>4. ASSUME NEW i \in DOMAIN c, NEW j \in DOMAIN c, j = i + 1 \/ (i = Len(c) /\ j = 1)
          PROVE  c[j] \in Dependencies(c[i])
      <4>1. c[j] \in DepsOf[c[i]]
        BY <3>1, <3>4, Zenon
      <4> QED BY <3>3, <4>1, Zenon
    <3> QED BY <3>1, <3>4, Zenon
  <2>3. ASSUME trail = <<>>, explored = Files, NEW f \in Files, DependsOn(f, f)
        PROVE  \E c \in cycles : \A g \in ToSet(c) : DependsOn(f, g) /\ DependsOn(g, f)
    <3> DEFINE M == {x \in Files : DependsOn(f, x) /\ DependsOn(x, f)}
    <3>1. Ended = Files
      <4>1. DOMAIN trail = {}
        BY <2>3
      <4> QED BY <2>3, <4>1 DEF Ended
    <3>2. M \in SUBSET Ended /\ f \in M
      BY <2>3, <3>1
    <3>3. PICK x \in M : \A g \in DepsOf[x] : g \in M => <<x, g>> \in Closed
      <4> HIDE DEF M
      <4> QED BY <2>1, <3>2 DEF Unwound
    <3>4. x \in Files /\ DependsOn(f, x) /\ DependsOn(x, f)
      OBVIOUS
    <3>5. PICK g \in DepsOf[x] : g = f \/ DependsOn(g, f)
      BY <2>1, <3>4, FirstStep
    <3>6. g \in Files /\ DependsOn(x, g)
      BY <2>1, <3>4, InDeps, DependsFacts
    <3>7. DependsOn(f, g) /\ DependsOn(g, f)
      BY <2>1, <2>3, <3>4, <3>5, <3>6, DependsFacts
    <3>8. <<x, g>> \in Closed
      BY <3>3, <3>6, <3>7
    <3>9. PICK c \in cycles : <<x, g>> = <<c[Len(c)], c[1]>>
      BY <3>8 DEF Closed
    <3>10. c \in RealCycles /\ c[Len(c)] = x /\ c[1] = g
      BY <2>1, <3>9
    <3>11. ASSUME NEW i \in DOMAIN c
           PROVE  DependsOn(f, c[i]) /\ DependsOn(c[i], f)
      <4>1. /\ c[i] = g \/ DependsOn(g, c[i])
            /\ c[i] = x \/ DependsOn(c[i], x)
        BY <2>1, <3>10, RoundTheCycle
      <4>2. c[i] \in Files
        BY <2>1, <3>10, RoundTheCycle
      <4>3. DependsOn(f, c[i])
        BY <2>1, <3>6, <3>7, <4>1, <4>2, DependsFacts
      <4>4. DependsOn(c[i], f)
        BY <2>1, <3>4, <4>1, <4>2, DependsFacts
      <4> QED BY <4>3, <4>4
    <3> QED BY <3>11 DEF ToSet
  <2> QED BY <2>2, <2>3, Zenon DEF CyclesReal
<1> QED BY <1>1, <1>2, PTL

=============================================================================
