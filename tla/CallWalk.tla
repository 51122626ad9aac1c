------------------------------ MODULE CallWalk ------------------------------
(* GraphTraverser.getCallers and getCallees: depth first over the rows of a   *)
(* node, the recursion unfolded into a stack, an iteration of a loop a step.  *)
(* The two differ in the direction alone.                                     *)
EXTENDS GraphTable

VARIABLES
  calls,    \* the calls in progress: of [node, left], the rows not yet come to
  marked,   \* nodes the recursion was entered for (visited)
  callers   \* the result: of [node, edge]

callVars == <<calls, marked, callers>>

CallKinds == {"calls", "references", "imports", "instantiates"}

\* The end of a row the walk goes on from, and the one it came from: getCallers
\* is asked for the incoming direction, getCallees for any other.
Onward(e) == IF opts.direction = "incoming" THEN e.source ELSE e.target
Backward(e) == IF opts.direction = "incoming" THEN e.target ELSE e.source

CallRows(n) == {e \in table : Backward(e) = n /\ e.kind \in CallKinds}

\* the defect of issue 1086
BadMark(m) == IF Len(calls) < opts.maxDepth THEN marked \cup {m} ELSE marked
\* A node is marked before the depth is looked at;
Mark(m) == marked \cup {m}

\* beyond it the call returns at once.  Every call in progress is a step further.
Enter(stack, m) ==
    IF Len(stack) < opts.maxDepth THEN Append(stack, [node |-> m, left |-> CallRows(m)]) ELSE stack

CallInit ==
    /\ calls = Enter(<<>>, start) /\ marked = {start} /\ callers = <<>>

Innermost == calls[Len(calls)]

\* The loop comes to a row,
Past(e) == [calls EXCEPT ![Len(calls)].left = @ \ {e}]

\* which leads to a node that was not visited,
Meet(e) ==
    /\ Onward(e) \notin marked
    /\ callers' = Append(callers, [node |-> Onward(e), edge |-> e])
    /\ marked' = Mark(Onward(e)) /\ calls' = Enter(Past(e), Onward(e))
    /\ UNCHANGED question

\* or to one that was.
MeetAgain(e) ==
    /\ Onward(e) \in marked /\ calls' = Past(e)
    /\ UNCHANGED <<question, marked, callers>>

Return ==
    /\ Innermost.left = {} /\ calls' = Front(calls)
    /\ UNCHANGED <<question, marked, callers>>

CallNext == calls # <<>> /\ (Return \/ \E e \in Innermost.left : Meet(e) \/ MeetAgain(e))

CallSpec == (table \in Tables /\ start \in Nodes /\ opts \in Asked /\ CallInit) /\ [][CallNext]_<<question, callVars>>

-----------------------------------------------------------------------------
(* What the answer is.                                                       *)

Met == {callers[i].node : i \in DOMAIN callers}

\* Who is how far: a step follows a row, or waits.
CallSteps == {w \in Nodes \X Nodes : w[1] = w[2] \/ \E e \in CallRows(w[1]) : Onward(e) = w[2]}

\* No caller is reported twice, nor the node itself, though a caller calls from
\* several sites and over several paths (issue 1086); each is reported with a row
\* to the node or to a caller reported before it, and is a caller within the
\* depth; the direct ones are all there; and where fewer nodes are met than the
\* depth has steps, so are the callers of all of them.
CallersOnce ==
    /\ \A i, j \in DOMAIN callers : callers[i].node = callers[j].node => i = j
    /\ start \notin Met
    /\ \A i \in DOMAIN callers :
          /\ callers[i].edge \in CallRows(Backward(callers[i].edge)) /\ Onward(callers[i].edge) = callers[i].node
          /\ Backward(callers[i].edge) \in {start} \cup {callers[j].node : j \in 1..(i - 1)}
          /\ Joined(CallSteps, start, callers[i].node, opts.maxDepth)
    /\ calls = <<>> =>
          /\ opts.maxDepth > 0 => \A e \in CallRows(start) : Onward(e) \in {start} \cup Met
          /\ Cardinality(Met) < opts.maxDepth =>
                \A n \in {start} \cup Met : \A e \in CallRows(n) : Onward(e) \in {start} \cup Met
=============================================================================
