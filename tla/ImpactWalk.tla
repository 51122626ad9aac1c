----------------------------- MODULE ImpactWalk -----------------------------
(* GraphTraverser.getImpactRadius: depth first from a node to what depends on *)
(* it and, from a container, to its members at the same depth.  The recursion *)
(* is unfolded into a stack, an iteration of one of the loops is a step.      *)
EXTENDS GraphTable

VARIABLES
  expanding,  \* the calls in progress: of [node, depth, members, users], the rows
              \* either loop has not come to yet
  seen,       \* nodes the recursion was entered for (visited)
  affected,   \* the nodes found
  links       \* the edges found, in order

impactVars == <<expanding, seen, affected, links>>

Containers == {"class", "interface", "struct", "trait", "protocol", "module", "enum"}
Members(n) == IF KindOf[n] \in Containers THEN {e \in table : e.source = n /\ e.kind = "contains"} ELSE {}

BadUsers(n) == {e \in table : e.target = n}
\* Membership is never followed upwards (issue 536).
Users(n) == {e \in table : e.target = n /\ e.kind # "contains"}

\* A call beyond the depth returns at once.
Descend(stack, n, d) ==
    IF d < opts.maxDepth
    THEN Append(stack, [node |-> n, depth |-> d, members |-> Members(n), users |-> Users(n)]) ELSE stack

ImpactInit ==
    /\ expanding = Descend(<<>>, start, 0) /\ seen = {start} /\ affected = {start} /\ links = <<>>

Latest == expanding[Len(expanding)]
PastMember(e) == [expanding EXCEPT ![Len(expanding)].members = @ \ {e}]
PastUser(e) == [expanding EXCEPT ![Len(expanding)].users = @ \ {e}]

\* A member is followed, with its row, unless it was visited.
Member(e) ==
    /\ e.target \notin seen
    /\ affected' = affected \cup {e.target} /\ links' = Append(links, e)
    /\ seen' = seen \cup {e.target} /\ expanding' = Descend(PastMember(e), e.target, Latest.depth)
    /\ UNCHANGED question

MemberAgain(e) ==
    /\ e.target \in seen /\ expanding' = PastMember(e)
    /\ UNCHANGED <<question, seen, affected, links>>

\* What depends on the node is followed a step further unless it was visited; its
\* row is recorded in any case (issue 1089).
User(e) ==
    /\ e.source \notin seen
    /\ affected' = affected \cup {e.source} /\ links' = Append(links, e)
    /\ seen' = seen \cup {e.source} /\ expanding' = Descend(PastUser(e), e.source, Latest.depth + 1)
    /\ UNCHANGED question

UserAgain(e) ==
    /\ e.source \in seen /\ links' = Append(links, e) /\ expanding' = PastUser(e)
    /\ UNCHANGED <<question, seen, affected>>

ImpactReturn ==
    /\ Latest.users = {} /\ expanding' = Front(expanding)
    /\ UNCHANGED <<question, seen, affected, links>>

ImpactNext ==
    /\ expanding # <<>>
    /\ \/ \E e \in Latest.members : Member(e) \/ MemberAgain(e)
       \/ Latest.members = {} /\ (ImpactReturn \/ \E e \in Latest.users : User(e) \/ UserAgain(e))

ImpactSpec == (table \in Tables /\ start \in Nodes /\ opts \in Asked /\ ImpactInit) /\ [][ImpactNext]_<<question, impactVars>>

-----------------------------------------------------------------------------
(* What the answer is.                                                       *)

\* The estimates of how far a change may spread that never say too much: nothing
\* to a member, at most one more to what depends on a node.
Estimates ==
    {D \in [Nodes -> 0..(opts.maxDepth + 1)] :
        /\ D[start] = 0
        /\ \A n \in Nodes : /\ \A e \in Members(n) : D[e.target] <= D[n]
                            /\ \A e \in Users(n) : D[e.source] <= D[n] + 1}

\* No estimate puts what is found beyond the depth (a method's siblings are not
\* found, issue 536); every edge is reported once, between nodes that are; the
\* direct dependents are all there; and where fewer nodes are found than the
\* depth has steps, so is all that depends on any of them, with its edges.
ImpactSound ==
    /\ \A i, j \in DOMAIN links : links[i] = links[j] => i = j
    /\ \A i \in DOMAIN links : links[i].source \in affected /\ links[i].target \in affected
    /\ expanding = <<>> =>
          /\ \A D \in Estimates : \A m \in affected : D[m] <= opts.maxDepth
          /\ opts.maxDepth > 0 => Users(start) \subseteq ToSet(links)
          /\ Cardinality(affected) <= opts.maxDepth =>
                \A n \in affected : /\ Users(n) \subseteq ToSet(links)
                                    /\ \A e \in Members(n) : e.target \in affected
=============================================================================
