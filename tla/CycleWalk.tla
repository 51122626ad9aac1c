------------------------------ MODULE CycleWalk ------------------------------
(* GraphQueryManager.findCircularDependencies: depth first over the files,    *)
(* the recursion unfolded into a stack, an iteration of a loop a step.        *)
EXTENDS GraphTable

CONSTANT FileOf  \* the file of each node

VARIABLES
  trail,     \* the calls in progress (path, recursionStack): of [file, left], the
             \* dependencies not yet come to
  explored,  \* files the recursion was entered for (visited)
  cycles     \* the cycles found

cycleVars == <<trail, explored, cycles>>

\* getAllFiles
Files == {FileOf[n] : n \in Nodes}

\* getDependencyFilePaths
Dependencies(f) ==
    {FileOf[e.target] : e \in {d \in table : /\ d.kind # "contains" /\ FileOf[d.source] = f
                                             /\ FileOf[d.target] # f}}

Route == [i \in 1..Len(trail) |-> trail[i].file]

CycleInit == trail = <<>> /\ explored = {} /\ cycles = {}

Follow(stack, f) ==
    /\ trail' = Append(stack, [file |-> f, left |-> Dependencies(f)])
    /\ explored' = explored \cup {f}

\* The walk begins anew at a file it has not come to yet.
Begin(f) ==
    /\ trail = <<>> /\ f \notin explored
    /\ Follow(trail, f)
    /\ UNCHANGED <<question, cycles>>

Deepest == trail[Len(trail)]
PastFile(g) == [trail EXCEPT ![Len(trail)].left = @ \ {g}]

\* the whole path is taken for the cycle
BadLoop(i) == Route
\* path.slice(cycleStart)
Loop(i) == SubSeq(Route, i, Len(trail))

\* A dependency lies on the path: a cycle;
Close(i, g) ==
    /\ trail[i].file = g
    /\ cycles' = cycles \cup {Loop(i)} /\ trail' = PastFile(g)
    /\ UNCHANGED <<question, explored>>

\* or was visited before;
Ignore(g) ==
    /\ g \in explored \ ToSet(Route) /\ trail' = PastFile(g)
    /\ UNCHANGED <<question, explored, cycles>>

\* or is followed.
Go(g) ==
    /\ g \notin explored
    /\ Follow(PastFile(g), g)
    /\ UNCHANGED <<question, cycles>>

Finish ==
    /\ Deepest.left = {} /\ trail' = Front(trail)
    /\ UNCHANGED <<question, explored, cycles>>

CycleNext ==
    \/ \E f \in Files : Begin(f)
    \/ trail # <<>> /\ (Finish \/ \E g \in Deepest.left : Ignore(g) \/ Go(g) \/ \E i \in DOMAIN trail : Close(i, g))

CycleSpec == (table \in Tables /\ start \in Nodes /\ opts \in Asked /\ CycleInit) /\ [][CycleNext]_<<question, cycleVars>>

-----------------------------------------------------------------------------
(* What the answer is.                                                       *)

\* g is among what f depends on, whichever way: no set of files that is closed
\* under dependencies and holds those of f is without it.
DependsOn(f, g) ==
    \A S \in SUBSET Files : Dependencies(f) \subseteq S /\ (\A h \in S : Dependencies(h) \subseteq S) => g \in S

\* What is reported is a cycle, each file in it once; and when the walk is over,
\* there is one among the files that depend on each other with any file that
\* depends on itself.
CyclesReal ==
    /\ \A c \in cycles : /\ \A i, j \in DOMAIN c : (j = i + 1 \/ (i = Len(c) /\ j = 1)) => c[j] \in Dependencies(c[i])
                         /\ c # <<>> /\ \A i, j \in DOMAIN c : c[i] = c[j] => i = j
    /\ trail = <<>> /\ explored = Files =>
          \A f \in Files : DependsOn(f, f) =>
              \E c \in cycles : \A g \in ToSet(c) : DependsOn(f, g) /\ DependsOn(g, f)
=============================================================================
