--------------------------- MODULE IndexStoreProofs ---------------------------
(* The index of a project while passes run over a changing tree, for every   *)
(* number of files, names, edits and crashes.                                *)
EXTENDS IndexStore, TLAPS

-----------------------------------------------------------------------------
(* The inductive invariant.                                                  *)

Content == [ok : BOOLEAN, line : Nat, defs : SUBSET Names, calls : SUBSET Names]
Entry == [content : Content, stamp : Nat, read : Nat]
NodeId == [file : Files, name : Names \cup {"module"}, line : Nat]
Module == {ModuleNode(f) : f \in Files}
Function == [file : Files, name : Names, line : Nat]
Edge == [source : NodeId, target : NodeId, kind : {"contains", "calls"}]
Call == [source : Module, target : Function, kind : {"calls"}]
Ref == [from : Module, name : Names]

\* The phases with a file in hand: looking at it, storing it.
Looking == {"first", "second", "delete"}
Stored == {"edges", "relink", "refs", "row"}
Holding == Looking \cup {"nodes"} \cup Stored
Phase == {"idle", "scan", "resolve", "link", "resolved", "unresolved"} \cup Holding
PassType ==
  [at : Phase, kind : {"sync", "full"}, still : BOOLEAN, gone : SUBSET Files, todo : SUBSET Files,
   rows : [Files -> Entry], changed : SUBSET Files, file : Files \cup {"none"},
   stat : Nat, content : Content, read : Nat, in : SUBSET Edge, batch : SUBSET Ref, found : SUBSET Call]

Typed ==
  /\ tree \in [Files -> Entry] /\ files \in [Files -> Entry]
  /\ nodes \subseteq NodeId /\ edges \subseteq Edge /\ refs \subseteq Ref
  /\ pass \in PassType
  /\ edits \in Nat /\ torn \subseteq Files /\ settled \in BOOLEAN
  /\ links \subseteq Files \X Names \X Files

\* The foreign keys of schema.sql: the ends of an edge and the node of a reference
\* are rows of nodes.
KeysHold ==
  /\ \A e \in edges : e.source \in nodes /\ e.target \in nodes
  /\ \A r \in refs : r.from \in nodes

\* A file is in hand in the phases that need one; it has no row from the time its
\* nodes may be stored, and its nodes are there from the time they are.
InOrder ==
  /\ pass.at \in Holding <=> pass.file # "none"
  /\ pass.at # "scan" => pass.gone = {} /\ pass.todo = {}
  /\ pass.at \in Holding \cup {"scan"} \/ pass.changed = {}
  /\ pass.at \in {"delete", "nodes"} \cup Stored => pass.content.ok
  /\ pass.at \in {"nodes"} \cup Stored => Row = Absent
  /\ pass.at \in Stored => NodesOf(pass.file, pass.content) \subseteq nodes
  /\ pass.at = "link" => \A e \in pass.found : e.source \in nodes /\ e.target \in nodes

\* What vouches for the nodes of a file: the content being stored, or its row.
Vouched(f) ==
  IF f = pass.file /\ pass.at \in Stored THEN NodesOf(f, pass.content)
  ELSE IF files[f] = Absent THEN {} ELSE NodesOf(f, files[f].content)

OfFile(f) == {n \in nodes : n.file = f}

Matched == \A f \in Files : f \notin torn => OfFile(f) = Vouched(f)

\* A linked call is in the graph, or waits in the hands of the pass for the new
\* nodes of its target's file.
Linked(l, c) ==
  \E e \in edges : /\ e.kind = "calls" /\ e.source = ModuleNode(l[1])
                   /\ e.target \in Declared(l[3], c) /\ e.target.name = l[2]
Waits(l) ==
  /\ l[1] # l[3] /\ ModuleNode(l[1]) \in nodes
  /\ \E e \in pass.in : e.kind = "calls" /\ e.source = ModuleNode(l[1]) /\ e.target.name = l[2]

Waiting(l) == l[3] = pass.file /\ pass.at \in {"nodes", "edges", "relink"}
Current(f) == IF f = pass.file /\ pass.at \in Stored THEN pass.content ELSE files[f].content

Kept ==
  /\ pass.at = "delete" => pass.in = Incoming(pass.file)
  /\ \A l \in links : IF Waiting(l) THEN Waits(l) ELSE Linked(l, Current(l[3]))

\* What was read of a file under the stamp it has now is its content.
Seen(f, read, content) ==
  /\ read <= edits
  /\ tree[f] # Absent => /\ read <= tree[f].stamp
                         /\ read = tree[f].stamp => content = tree[f].content

Stamps ==
  /\ edits >= 1
  /\ \A f \in Files :
       /\ tree[f] # Absent => tree[f].stamp \in 1 .. edits
       /\ Seen(f, files[f].read, files[f].content)
  /\ IF pass.at \in Holding THEN Seen(pass.file, pass.read, pass.content) ELSE pass.read = 0

\* A sync over a still tree: a file agrees with its row, or its turn will come.
Turn(f) ==
  \/ f \in pass.gone /\ tree[f] = Absent
  \/ f \in pass.todo /\ files[f] = pass.rows[f]
  \/ f \in pass.changed
  \/ f = pass.file

Right(f) == Agrees(f) \/ Raced(f)

TurnsCome ==
  pass.still =>
    /\ pass.kind = "sync"
    /\ pass.gone = {} \/ pass.todo = Present(tree)
    /\ \A f \in pass.todo \cup pass.changed : tree[f] # Absent
    /\ pass.at \in Holding => tree[pass.file] # Absent
    /\ pass.at \in {"delete", "nodes"} \cup Stored => pass.content = tree[pass.file].content
    /\ \A f \in Files : Turn(f) \/ Right(f)

SettledRight == settled => pass.at = "idle" /\ \A f \in Files : Right(f)

IInv == Typed /\ KeysHold /\ InOrder /\ Matched /\ Kept /\ Stamps /\ TurnsCome /\ SettledRight

-----------------------------------------------------------------------------
(* Types.                                                                    *)

LEMMA Contented ==
  /\ NoContent \in Content /\ Absent \in Entry /\ NoContent.ok = FALSE
  /\ Absent.content = NoContent /\ Absent.read = 0 /\ Absent.stamp = 0 /\ NoContent.line = 0
  /\ NoContent.defs = {}
  /\ \A f \in Files : \A c \in Contents[f] : c \in Content /\ c.line # 0
BY StoreAssumption DEF Content, Entry, NoContent, Absent

LEMMA IdleFields ==
  /\ Idle \in PassType
  /\ Idle.at = "idle" /\ Idle.file = "none" /\ Idle.still = FALSE /\ Idle.gone = {} /\ Idle.todo = {}
  /\ Idle.changed = {} /\ Idle.kind = "sync"
BY Contented DEF Idle, PassType, Phase, Holding, Looking, Stored

LEMMA RowsOf ==
  ASSUME NEW f \in Files, NEW c \in Content
  PROVE  /\ ModuleNode(f) \in NodeId /\ ModuleNode(f) \in Module
         /\ Declared(f, c) \subseteq Function /\ NodesOf(f, c) \subseteq NodeId
         /\ \A n \in NodesOf(f, c) : n.file = f
         /\ \A n \in Declared(f, c) : n.file = f /\ n \in NodesOf(f, c)
         /\ ContainsOf(f, c) \subseteq Edge /\ RefsOf(f, c) \subseteq Ref
         /\ ModuleNode(f).file = f /\ ModuleNode(f).name = "module" /\ ModuleNode(f) \in NodesOf(f, c)
BY DEF ModuleNode, NodeId, Module, Declared, Function, NodesOf, ContainsOf, Edge, RefsOf, Ref, Content

LEMMA Calls == Call \subseteq Edge
<1>1. Module \subseteq NodeId /\ Function \subseteq NodeId
  BY DEF Module, ModuleNode, NodeId, Function
<1> QED BY <1>1 DEF Call, Edge

LEMMA RetargetedTyped ==
  ASSUME NEW e \in Edge, NEW n \in NodeId
  PROVE  /\ [e EXCEPT !.target = n] \in Edge
         /\ [e EXCEPT !.target = n].source = e.source /\ [e EXCEPT !.target = n].target = n
         /\ [e EXCEPT !.target = n].kind = e.kind
BY DEF Edge

LEMMA InitTyped == Init => Typed
<1> SUFFICES ASSUME Init PROVE Typed
  OBVIOUS
<1>1. tree \in [Files -> Entry]
  <2>1. tree \in [Files -> {Absent} \cup {[content |-> c, stamp |-> 1, read |-> 1] : c \in UNION {Contents[f] : f \in Files}}]
    BY DEF Init
  <2>2. {Absent} \cup {[content |-> c, stamp |-> 1, read |-> 1] : c \in UNION {Contents[f] : f \in Files}} \subseteq Entry
    BY Contented DEF Entry
  <2> QED BY <2>1, <2>2
<1>2. files \in [Files -> Entry]
  BY Contented DEF Init
<1> QED BY <1>1, <1>2, IdleFields DEF Init, Typed

\* Steps of the pass that leave the tables alone, and what they leave in hand.
LEMMA PassTyped ==
  ASSUME Typed, pass' \in PassType, UNCHANGED <<tree, edits, db, torn, links>>, settled' \in BOOLEAN
  PROVE  Typed'
BY DEF Typed, db

LEMMA FileTyped ==
  ASSUME Typed, NEW f \in Files,
         nodes' \subseteq nodes, edges' \subseteq edges, refs' \subseteq refs, links' \subseteq links,
         files' = [files EXCEPT ![f] = Absent], torn' \subseteq torn, pass' \in PassType,
         UNCHANGED <<tree, edits, settled>>
  PROVE  Typed'
<1>1. files' \in [Files -> Entry]
  BY Contented DEF Typed
<1> QED BY <1>1 DEF Typed

LEMMA EditEffect ==
  ASSUME NEW f \in Files, Edit(f)
  PROVE  /\ edits' = edits + 1 /\ settled' = FALSE /\ pass' = [pass EXCEPT !.still = FALSE]
         /\ UNCHANGED <<files, nodes, edges, refs, torn, links>>
         /\ \/ tree' = [tree EXCEPT ![f] = Absent]
            \/ \E c \in Contents[f] :
                 tree' = [tree EXCEPT ![f] = [content |-> c, stamp |-> edits + 1, read |-> edits + 1]]
BY Zenon DEF Edit, db

LEMMA NextTyped ==
  ASSUME Typed, InOrder, Next
  PROVE  Typed'
<1>1. ASSUME NEW f \in Files, Edit(f) PROVE Typed'
  <2>1. tree' \in [Files -> Entry]
    <3>1. CASE tree' = [tree EXCEPT ![f] = Absent]
      BY <3>1, Contented DEF Typed
    <3>2. CASE \E c \in Contents[f] : tree' = [tree EXCEPT ![f] = [content |-> c, stamp |-> edits + 1, read |-> edits + 1]]
      <4>1. PICK c \in Contents[f] : tree' = [tree EXCEPT ![f] = [content |-> c, stamp |-> edits + 1, read |-> edits + 1]]
        BY <3>2
      <4>2. [content |-> c, stamp |-> edits + 1, read |-> edits + 1] \in Entry
        BY Contented DEF Entry, Typed
      <4> QED BY <4>1, <4>2 DEF Typed
    <3> QED BY <1>1, <3>1, <3>2, EditEffect
  <2>2. pass' \in PassType
    BY <1>1, EditEffect DEF Typed, PassType
  <2>3. edits' = edits + 1 /\ UNCHANGED <<files, nodes, edges, refs, torn, links>>
    BY <1>1, EditEffect
  <2>4. settled' \in BOOLEAN
    BY <1>1, EditEffect, Zenon
  <2>5. edits' \in Nat
    BY <2>3 DEF Typed
  <2> QED BY <2>1, <2>2, <2>3, <2>4, <2>5 DEF Typed
<1>2. CASE BeginSync
  <2>1. pass' \in PassType
    BY <1>2, IdleFields DEF BeginSync, Step, Typed, PassType, Phase, Present
  <2> QED BY <1>2, <2>1, PassTyped DEF BeginSync, outside, tables
<1>3. CASE BeginFull
  <2>1. pass' \in PassType
    BY <1>3, IdleFields DEF BeginFull, Step, Typed, PassType, Phase, Present
  <2> QED BY <1>3, <2>1, PassTyped DEF BeginFull, outside, tables
<1>4. ASSUME NEW f \in Files, Prune(f) PROVE Typed'
  <2>1. pass' \in PassType
    BY <1>4 DEF Prune, Step, Typed, PassType
  <2>2. CASE f \notin pass.todo \/ tree[f] = Absent
    BY <1>4, <2>1, <2>2, FileTyped DEF Prune, DeleteFile, EdgesOff, RefsOff, outside
  <2>3. CASE ~(f \notin pass.todo \/ tree[f] = Absent)
    BY <1>4, <2>1, <2>3, PassTyped DEF Prune, outside, tables, Typed
  <2> QED BY <2>2, <2>3
<1>5. ASSUME NEW f \in Files, Compare(f) \/ Pick(f) PROVE Typed'
  <2>1. CASE Compare(f)
    <3>1. pass' \in PassType
      BY <2>1 DEF Compare, Step, Typed, PassType
    <3> QED BY <2>1, <3>1, PassTyped DEF Compare, outside, tables, Typed
  <2>2. CASE Pick(f)
    <3>1. pass' \in PassType
      BY <2>2 DEF Pick, Step, Typed, PassType, Phase, Holding, Looking
    <3> QED BY <2>2, <3>1, PassTyped DEF Pick, outside, tables, Typed
  <2> QED BY <1>5, <2>1, <2>2
<1>6. NextFile \in PassType
  BY Contented DEF NextFile, Typed, PassType, Phase
<1>7. pass.at \in Holding => pass.file \in Files
  BY DEF Typed, InOrder, PassType
<1>8. CASE Unreadable
  BY <1>6, <1>8, PassTyped DEF Unreadable, outside, tables, Typed
<1>9. ASSUME pass.file \in Files PROVE Stat \in PassType /\ Read \in PassType
  <2>1. tree[pass.file] \in Entry
    BY <1>9 DEF Typed
  <2>2. tree[pass.file].stamp \in Nat /\ tree[pass.file].content \in Content
    BY <2>1 DEF Entry
  <2> QED BY <2>2 DEF Stat, Read, Typed, PassType
<1>10. CASE LookFirst
  <2>1. pass.file \in Files
    BY <1>7, <1>10 DEF LookFirst, Holding, Looking
  <2>2. pass' \in PassType
    BY <1>9, <1>10, <2>1 DEF LookFirst, Step, PassType, Phase, Holding, Looking
  <2> QED BY <1>10, <2>2, PassTyped DEF LookFirst, outside, tables, Typed
<1>11. CASE LookSecond
  <2>1. pass.file \in Files
    BY <1>7, <1>11 DEF LookSecond, Holding, Looking
  <2>2. Incoming(pass.file) \subseteq Edge
    BY DEF Incoming, Typed
  <2>3. \A read \in PassType : ToStore(read) \in PassType
    BY <1>6, <2>2 DEF ToStore, PassType, Phase, Holding, Looking
  <2>4. pass' \in PassType
    BY <1>9, <1>11, <2>1, <2>3 DEF LookSecond, Step
  <2> QED BY <1>11, <2>4, PassTyped DEF LookSecond, outside, tables, Typed
<1>12. CASE StoreDelete
  <2>1. pass' \in PassType
    BY <1>12 DEF StoreDelete, Step, Typed, PassType, Phase, Holding
  <2>2. pass.file \in Files
    BY <1>7, <1>12 DEF StoreDelete, Step, Holding, Looking
  <2> QED BY <1>12, <2>1, <2>2, FileTyped DEF StoreDelete, DeleteFile, EdgesOff, RefsOff, outside
<1>13. ASSUME pass.at \in {"nodes"} \cup Stored PROVE pass.file \in Files /\ pass.content \in Content /\ pass.stat \in Nat /\ pass.read \in Nat
  BY <1>7, <1>13 DEF Typed, PassType, Holding
<1>14. CASE StoreNodes
  <2>1. pass' \in PassType
    BY <1>14 DEF StoreNodes, Step, Typed, PassType, Phase, Holding, Stored
  <2>2. NodesOf(pass.file, pass.content) \subseteq NodeId
    BY <1>13, <1>14, RowsOf DEF StoreNodes, Step
  <2> QED BY <1>14, <2>1, <2>2 DEF StoreNodes, InsertNodes, EdgesOff, RefsOff, outside, Typed
<1>15. CASE StoreEdges
  <2>1. pass' \in PassType
    BY <1>15 DEF StoreEdges, Step, Typed, PassType, Phase, Holding, Stored
  <2>2. ContainsOf(pass.file, pass.content) \subseteq Edge
    BY <1>13, <1>15, RowsOf DEF StoreEdges, Step, Stored
  <2> QED BY <1>15, <2>1, <2>2 DEF StoreEdges, WithEnds, outside, Typed
<1>16. CASE StoreIncoming
  <2>1. pass' \in PassType
    BY <1>16 DEF StoreIncoming, Step, Typed, PassType, Phase, Holding, Stored
  <2>2. WithEnds(Retargeted) \subseteq Edge
    <3> SUFFICES ASSUME NEW x \in WithEnds(Retargeted) PROVE x \in Edge
      OBVIOUS
    <3>1. PICK e \in pass.in, n \in Declared(pass.file, pass.content) : x = [e EXCEPT !.target = n]
      BY DEF WithEnds, Retargeted
    <3>2. e \in Edge
      BY DEF Typed, PassType
    <3>3. n \in NodeId
      <4>1. x.target \in nodes
        BY DEF WithEnds
      <4>2. x.target = n
        BY <3>1, <3>2 DEF Edge
      <4> QED BY <4>1, <4>2 DEF Typed
    <3> QED BY <3>1, <3>2, <3>3, RetargetedTyped
  <2> QED BY <1>16, <2>1, <2>2 DEF StoreIncoming, outside, Typed
<1>17. CASE StoreRefs
  <2>1. pass' \in PassType
    BY <1>17 DEF StoreRefs, Step, Typed, PassType, Phase, Holding, Stored
  <2>2. RefsOf(pass.file, pass.content) \subseteq Ref
    BY <1>13, <1>17, RowsOf DEF StoreRefs, Step, Stored
  <2> QED BY <1>17, <2>1, <2>2 DEF StoreRefs, outside, Typed
<1>18. CASE StoreRow
  <2>1. [content |-> pass.content, stamp |-> pass.stat, read |-> pass.read] \in Entry
    BY <1>13, <1>18 DEF StoreRow, Step, Stored, Entry
  <2> QED BY <1>6, <1>18, <2>1 DEF StoreRow, Step, outside, Typed
<1>19. CASE AllStored
  <2>1. pass' \in PassType
    BY <1>19 DEF AllStored, Step, Typed, PassType, Phase
  <2> QED BY <1>19, <2>1, PassTyped DEF AllStored, outside, tables, Typed
<1>20. CASE Batch
  <2>1. PICK batch \in SUBSET refs : \E target \in [Resolvable(batch) -> nodes] :
          /\ \A r \in Resolvable(batch) : target[r] \in Candidates(r)
          /\ Step("resolve", [pass EXCEPT
               !.at = "link", !.batch = batch,
               !.found = {[source |-> r.from, target |-> target[r], kind |-> "calls"] : r \in Resolvable(batch)}])
    BY <1>20 DEF Batch
  <2>2. PICK target \in [Resolvable(batch) -> nodes] :
          /\ \A r \in Resolvable(batch) : target[r] \in Candidates(r)
          /\ Step("resolve", [pass EXCEPT
               !.at = "link", !.batch = batch,
               !.found = {[source |-> r.from, target |-> target[r], kind |-> "calls"] : r \in Resolvable(batch)}])
    BY <2>1
  <2>3. ASSUME NEW r \in Resolvable(batch)
        PROVE  [source |-> r.from, target |-> target[r], kind |-> "calls"] \in Call
    <3>1. r \in Ref
      BY <2>1 DEF Resolvable, Typed
    <3>2. r.from \in Module /\ r.name \in Names
      BY <3>1 DEF Ref
    <3>3. target[r] \in nodes /\ target[r].name = r.name
      BY <2>2 DEF Candidates
    <3>4. target[r] \in Function
      BY <3>2, <3>3 DEF Typed, NodeId, Function
    <3> QED BY <3>2, <3>4 DEF Call
  <2>4. pass' \in PassType
    <3>1. {[source |-> r.from, target |-> target[r], kind |-> "calls"] : r \in Resolvable(batch)} \in SUBSET Call
      BY <2>3
    <3>2. batch \in SUBSET Ref
      BY <2>1 DEF Typed
    <3> QED BY <2>2, <3>1, <3>2 DEF Step, Typed, PassType, Phase
  <2>5. UNCHANGED <<outside, tables, settled>>
    BY <1>20 DEF Batch
  <2> QED BY <2>4, <2>5, PassTyped DEF outside, tables, Typed
<1>21. CASE Link
  <2>1. pass' \in PassType
    BY <1>21 DEF Link, Step, Typed, PassType, Phase
  <2>2. pass.found \subseteq Call
    BY DEF Typed, PassType
  <2>3. pass.found \subseteq Edge
    BY <2>2, Calls
  <2>4. \A e \in pass.found : <<e.source.file, e.target.name, e.target.file>> \in Files \X Names \X Files
    BY <2>2 DEF Call, Module, ModuleNode, Function
  <2>5. links' \subseteq Files \X Names \X Files
    BY <1>21, <2>4 DEF Link, Typed
  <2>6. edges' \subseteq Edge
    BY <1>21, <2>3 DEF Link, Typed, WithEnds
  <2> QED BY <1>21, <2>1, <2>5, <2>6 DEF Link, outside, Typed
<1>22. CASE DropResolved \/ DropUnresolved
  <2>1. {} \subseteq Ref /\ {} \subseteq Call
    OBVIOUS
  <2>2. CASE DropResolved
    <3>1. pass' \in PassType
      BY <2>1, <2>2 DEF DropResolved, Step, Typed, PassType, Phase
    <3> QED BY <2>2, <3>1 DEF DropResolved, outside, Typed
  <2>3. CASE DropUnresolved
    <3>1. pass' \in PassType
      BY <2>1, <2>3 DEF DropUnresolved, Step, Typed, PassType, Phase
    <3> QED BY <2>3, <3>1 DEF DropUnresolved, outside, Typed
  <2> QED BY <1>22, <2>2, <2>3
<1>23. CASE Finish
  <2>1. settled' \in BOOLEAN
    BY <1>23 DEF Finish, Typed, PassType
  <2> QED BY <1>23, <2>1, IdleFields, PassTyped DEF Finish, Step, outside, tables
<1>24. CASE Crash
  <2>1. torn' \subseteq Files
    BY <1>7, <1>24 DEF Crash, Typed, Holding, Stored
  <2> QED BY <1>24, <2>1, IdleFields DEF Crash, Typed, db
<1> QED BY <1>1, <1>2, <1>3, <1>4, <1>5, <1>8, <1>10, <1>11, <1>12, <1>14, <1>15, <1>16, <1>17, <1>18, <1>19,
           <1>20, <1>21, <1>22, <1>23, <1>24 DEF Next, PassStep

-----------------------------------------------------------------------------
(* The keys.                                                                 *)

LEMMA Unkeyed ==
  ASSUME KeysHold, UNCHANGED <<nodes, edges, refs>>
  PROVE  KeysHold'
BY DEF KeysHold

LEMMA FileGone ==
  ASSUME NEW f, KeysHold, DeleteFile(f)
  PROVE  /\ KeysHold'
         /\ nodes' = {n \in nodes : n.file # f}
         /\ edges' = {e \in edges : e.source.file # f /\ e.target.file # f}
<1>1. nodes' = {n \in nodes : n.file # f}
  BY DEF DeleteFile
<1>2. edges' = {e \in edges : e.source.file # f /\ e.target.file # f}
  BY DEF DeleteFile, EdgesOff, KeysHold
<1>3. KeysHold'
  BY DEF DeleteFile, EdgesOff, RefsOff, KeysHold
<1> QED BY <1>1, <1>2, <1>3

LEMMA NextKeys ==
  ASSUME IInv, Next
  PROVE  KeysHold'
<1>1. Typed /\ KeysHold /\ InOrder
  BY DEF IInv
<1>2. ASSUME NEW f \in Files, Edit(f) PROVE KeysHold'
  BY <1>1, <1>2, EditEffect, Unkeyed
<1>3. CASE BeginSync \/ BeginFull \/ Unreadable \/ LookFirst \/ LookSecond \/ AllStored \/ Batch \/ Finish
  BY <1>1, <1>3, Unkeyed DEF BeginSync, BeginFull, Unreadable, LookFirst, LookSecond, AllStored, Batch, Finish, tables, db
<1>4. ASSUME NEW f \in Files, Prune(f) \/ Compare(f) \/ Pick(f) PROVE KeysHold'
  <2>1. DeleteFile(f) \/ UNCHANGED <<nodes, edges, refs>>
    BY <1>4 DEF Prune, Compare, Pick, tables, db
  <2> QED BY <1>1, <2>1, FileGone, Unkeyed
<1>5. CASE StoreDelete
  BY <1>1, <1>5, FileGone DEF StoreDelete
<1>6. CASE StoreNodes
  BY <1>1, <1>6 DEF StoreNodes, InsertNodes, EdgesOff, RefsOff, KeysHold
<1>7. CASE StoreEdges \/ StoreIncoming \/ Link
  <2>1. \E new : edges' = edges \cup WithEnds(new)
    BY <1>7 DEF StoreEdges, StoreIncoming, Link
  <2>2. UNCHANGED <<nodes, refs>>
    BY <1>7 DEF StoreEdges, StoreIncoming, Link
  <2> QED BY <1>1, <2>1, <2>2 DEF WithEnds, KeysHold
<1>8. CASE StoreRefs
  <2>1. pass.at = "refs" /\ ModuleNode(pass.file) \in nodes
    BY <1>1, <1>8 DEF StoreRefs, Step, InOrder, Stored, NodesOf
  <2> QED BY <1>1, <1>8, <2>1 DEF StoreRefs, RefsOf, KeysHold
<1>9. CASE StoreRow \/ Crash
  BY <1>1, <1>9, Unkeyed DEF StoreRow, Crash, db
<1>10. CASE DropResolved \/ DropUnresolved
  BY <1>1, <1>10 DEF DropResolved, DropUnresolved, KeysHold
<1> QED BY <1>2, <1>3, <1>4, <1>5, <1>6, <1>7, <1>8, <1>9, <1>10 DEF Next, PassStep

-----------------------------------------------------------------------------
(* The order of a pass.                                                      *)

\* A step that ends with no file in hand, and that takes up no work.
LEMMA Unheld ==
  ASSUME pass' \in PassType, pass'.file = "none", pass'.at \notin Holding \cup {"link"},
         pass'.at # "scan" => pass'.gone = {} /\ pass'.todo = {} /\ pass'.changed = {}
  PROVE  InOrder'
BY DEF InOrder, Holding, Looking, Stored

LEMMA HeldFile ==
  ASSUME Typed, InOrder, pass.at \in Holding
  PROVE  /\ pass.file \in Files /\ pass.file # "none" /\ pass.gone = {} /\ pass.todo = {}
         /\ pass.content \in Content
BY DEF Typed, InOrder, PassType, Holding, Looking, Stored

\* What the second look ends in: the file is passed over, or about to be stored.
LEMMA LookEffect ==
  ASSUME Typed, InOrder, LookSecond
  PROVE  /\ pass.at = "second" /\ UNCHANGED <<tree, edits, files, nodes, edges, refs, torn, links, settled>>
         /\ pass.file \in Files /\ tree[pass.file] # Absent
         /\ \E read \in PassType :
              /\ read = IF pass.kind = "sync" THEN Read ELSE Stat
              /\ \/ /\ ~read.content.ok \/ Row.content = read.content
                    /\ pass' = NextFile
                 \/ /\ read.content.ok /\ Row.content # read.content
                    /\ pass' \in PassType
                    /\ pass'.at = IF Row = Absent THEN "nodes" ELSE "delete"
                    /\ pass'.at = "delete" => pass'.in = Incoming(pass.file)
                    /\ UNCHANGED <<pass.file, pass.kind, pass.still, pass.gone, pass.todo, pass.rows, pass.changed>>
                    /\ pass'.content = read.content /\ pass'.read = read.read /\ pass'.stat = read.stat
                    /\ pass'.at = "nodes" => pass'.in = pass.in
<1>1. pass.at = "second" /\ pass.file \in Files /\ tree[pass.file] # Absent /\ pass \in PassType
  BY HeldFile DEF LookSecond, Holding, Looking, Typed
<1>2. UNCHANGED <<tree, edits, files, nodes, edges, refs, torn, links, settled>>
  BY DEF LookSecond, outside, tables, db
<1>3. tree[pass.file] \in Entry
  BY <1>1 DEF Typed
<1>4. PICK read : read = IF pass.kind = "sync" THEN Read ELSE Stat
  OBVIOUS
<1>5. read \in PassType
  BY <1>1, <1>3, <1>4 DEF Stat, Read, PassType, Entry
<1>6. /\ read.file = pass.file /\ read.kind = pass.kind /\ read.still = pass.still /\ read.gone = pass.gone
      /\ read.todo = pass.todo /\ read.rows = pass.rows /\ read.changed = pass.changed /\ read.in = pass.in
  BY <1>1, <1>4 DEF Stat, Read, PassType
<1>7. pass' = ToStore(read)
  BY <1>4 DEF LookSecond, Step
<1>8. CASE ~read.content.ok \/ Row.content = read.content
  <2>1. pass' = NextFile
    BY <1>7, <1>8 DEF ToStore
  <2> QED BY <1>1, <1>2, <1>4, <1>5, <1>8, <2>1
<1>9. CASE read.content.ok /\ Row.content # read.content
  <2>1. pass' = IF Row = Absent THEN [read EXCEPT !.at = "nodes"]
                ELSE [read EXCEPT !.at = "delete", !.in = Incoming(pass.file)]
    BY <1>7, <1>9 DEF ToStore
  <2>2. Incoming(pass.file) \subseteq Edge
    BY DEF Incoming, Typed
  <2>3. pass' \in PassType
    BY <1>5, <2>1, <2>2 DEF PassType, Phase, Holding, Looking
  <2>4. pass'.at = IF Row = Absent THEN "nodes" ELSE "delete"
    BY <1>5, <2>1 DEF PassType
  <2>5. pass'.at = "delete" => pass'.in = Incoming(pass.file)
    BY <1>5, <2>1 DEF PassType
  <2>6. /\ UNCHANGED <<pass.file, pass.kind, pass.still, pass.gone, pass.todo, pass.rows, pass.changed>>
        /\ pass'.content = read.content /\ pass'.read = read.read /\ pass'.stat = read.stat
        /\ pass'.at = "nodes" => pass'.in = pass.in
    BY <1>5, <1>6, <2>1 DEF PassType
  <2> QED BY <1>1, <1>2, <1>4, <1>5, <1>9, <2>3, <2>4, <2>5, <2>6
<1> QED BY <1>8, <1>9

LEMMA NextInOrder ==
  ASSUME IInv, Next
  PROVE  InOrder'
<1>1. Typed /\ KeysHold /\ InOrder /\ pass \in PassType
  BY DEF IInv, Typed
<1>2. Typed'
  BY <1>1, NextTyped
<1>3. pass' \in PassType
  BY <1>2 DEF Typed
<1>4. ASSUME NEW f \in Files, Edit(f) PROVE InOrder'
  <2>1. pass' = [pass EXCEPT !.still = FALSE] /\ UNCHANGED <<files, nodes>>
    BY <1>4, EditEffect
  <2>2. UNCHANGED <<pass.at, pass.gone, pass.todo, pass.changed, pass.file, pass.content, pass.found>>
    BY <1>1, <2>1 DEF PassType
  <2> QED BY <1>1, <2>1, <2>2 DEF InOrder, Row
<1>5. CASE BeginSync \/ BeginFull
  <2>1. pass'.at = "scan" /\ pass'.file = "none"
    BY <1>5, IdleFields DEF BeginSync, BeginFull, Step, PassType
  <2> QED BY <1>3, <2>1, Unheld DEF Holding, Looking, Stored
<1>6. ASSUME NEW f \in Files, Prune(f) \/ Compare(f) PROVE InOrder'
  <2>1. pass.at = "scan" /\ pass'.at = "scan" /\ pass'.file = pass.file
    BY <1>1, <1>6 DEF Prune, Compare, Step, PassType
  <2>2. pass.file = "none"
    BY <1>1, <2>1 DEF InOrder, Holding, Looking, Stored
  <2> QED BY <1>3, <2>1, <2>2, Unheld DEF Holding, Looking, Stored
<1>7. ASSUME NEW f \in Files, Pick(f) PROVE InOrder'
  <2>1. pass'.at = "first" /\ pass'.file = f /\ pass'.gone = {} /\ pass'.todo = {}
    BY <1>1, <1>7 DEF Pick, Step, PassType
  <2> QED BY <2>1, StoreAssumption DEF InOrder, Holding, Looking, Stored
<1>8. NextFile.at = "scan" /\ NextFile.file = "none"
  BY <1>1 DEF NextFile, PassType
<1>9. CASE Unreadable \/ StoreRow
  <2>1. pass' = NextFile
    BY <1>9 DEF Unreadable, StoreRow, Step
  <2> QED BY <1>3, <1>8, <2>1, Unheld DEF Holding, Looking, Stored
<1>10. CASE LookFirst
  <2>1. pass.at = "first" /\ pass'.at = "second" /\ UNCHANGED <<pass.file, pass.gone, pass.todo>>
    BY <1>1, <1>10 DEF LookFirst, Step, Stat, Read, PassType
  <2>2. pass.file # "none" /\ pass.gone = {} /\ pass.todo = {}
    BY <1>1, <2>1, HeldFile DEF Holding, Looking
  <2> QED BY <2>1, <2>2 DEF InOrder, Holding, Looking, Stored
<1>11. CASE LookSecond
  <2>1. pass.at = "second" /\ UNCHANGED <<files, nodes>>
    BY <1>1, <1>11, LookEffect
  <2>2. pass.file # "none" /\ pass.gone = {} /\ pass.todo = {}
    BY <1>1, <2>1, HeldFile DEF Holding, Looking
  <2>3. CASE pass' = NextFile
    BY <1>3, <1>8, <2>3, Unheld DEF Holding, Looking, Stored
  <2>4. CASE pass' # NextFile
    <3>1. /\ pass'.at = (IF Row = Absent THEN "nodes" ELSE "delete") /\ pass'.content.ok
          /\ UNCHANGED <<pass.file, pass.gone, pass.todo>>
      BY <1>1, <1>11, <2>4, LookEffect
    <3>2. Row' = Row
      BY <2>1, <3>1 DEF Row
    <3> QED BY <2>2, <3>1, <3>2 DEF InOrder, Holding, Looking, Stored
  <2> QED BY <2>3, <2>4
<1>12. CASE StoreDelete
  <2>1. pass.at = "delete" /\ pass'.at = "nodes" /\ UNCHANGED <<pass.file, pass.gone, pass.todo, pass.content>>
    BY <1>1, <1>12 DEF StoreDelete, Step, PassType
  <2>2. pass.file \in Files /\ pass.file # "none" /\ pass.gone = {} /\ pass.todo = {}
    BY <1>1, <2>1, HeldFile DEF Holding, Looking
  <2>3. Row' = Absent
    BY <1>1, <1>12, <2>1, <2>2 DEF StoreDelete, DeleteFile, Row, Typed
  <2> QED BY <1>1, <2>1, <2>2, <2>3 DEF InOrder, Holding, Looking, Stored
<1>13. CASE StoreNodes \/ StoreEdges \/ StoreIncoming \/ StoreRefs
  <2>1. /\ pass.at \in {"nodes", "edges", "relink", "refs"} /\ pass'.at \in Stored
        /\ UNCHANGED <<pass.file, pass.gone, pass.todo, pass.content, files>>
    BY <1>1, <1>13 DEF StoreNodes, StoreEdges, StoreIncoming, StoreRefs, Step, PassType, Stored
  <2>2. pass.file # "none" /\ pass.gone = {} /\ pass.todo = {}
    BY <1>1, <2>1, HeldFile DEF Holding, Looking, Stored
  <2>3. pass.content.ok /\ Row = Absent
    BY <1>1, <2>1 DEF InOrder, Stored
  <2>4. NodesOf(pass.file, pass.content) \subseteq nodes'
    <3>1. CASE StoreNodes
      BY <3>1 DEF StoreNodes, InsertNodes
    <3>2. CASE StoreEdges \/ StoreIncoming \/ StoreRefs
      BY <1>1, <3>2 DEF StoreEdges, StoreIncoming, StoreRefs, Step, InOrder, Stored
    <3> QED BY <1>13, <3>1, <3>2
  <2>5. (NodesOf(pass.file, pass.content) \subseteq nodes)'
    BY <2>1, <2>4 DEF NodesOf, ModuleNode, Declared
  <2>6. Row' = Absent
    BY <2>1, <2>3 DEF Row
  <2> QED BY <2>1, <2>2, <2>3, <2>5, <2>6 DEF InOrder, Holding, Looking, Stored
<1>14. CASE AllStored
  <2>1. pass.at = "scan" /\ pass.gone = {} /\ pass.todo = {} /\ pass.changed = {}
    BY <1>14 DEF AllStored, Step
  <2>2. pass'.at = "resolve" /\ UNCHANGED <<pass.file, pass.gone, pass.todo, pass.changed>>
    BY <1>1, <1>14 DEF AllStored, Step, PassType
  <2>3. pass.file = "none"
    BY <1>1, <2>1 DEF InOrder, Holding, Looking, Stored
  <2> QED BY <1>3, <2>1, <2>2, <2>3, Unheld DEF Holding, Looking, Stored
<1>15. ASSUME pass.at \in {"resolve", "link", "resolved", "unresolved"}
       PROVE  pass.file = "none" /\ pass.gone = {} /\ pass.todo = {} /\ pass.changed = {}
  BY <1>1, <1>15 DEF InOrder, Holding, Looking, Stored
<1>16. CASE Batch
  <2>1. PICK batch \in SUBSET refs : \E target \in [Resolvable(batch) -> nodes] :
          Step("resolve", [pass EXCEPT
               !.at = "link", !.batch = batch,
               !.found = {[source |-> r.from, target |-> target[r], kind |-> "calls"] : r \in Resolvable(batch)}])
    BY <1>16 DEF Batch
  <2>2. PICK target \in [Resolvable(batch) -> nodes] :
          Step("resolve", [pass EXCEPT
               !.at = "link", !.batch = batch,
               !.found = {[source |-> r.from, target |-> target[r], kind |-> "calls"] : r \in Resolvable(batch)}])
    BY <2>1
  <2>3. pass'.at = "link" /\ UNCHANGED <<pass.file, pass.gone, pass.todo, pass.changed>>
    BY <1>1, <2>2 DEF Step, PassType
  <2>4. pass'.found = {[source |-> r.from, target |-> target[r], kind |-> "calls"] : r \in Resolvable(batch)}
    BY <1>1, <2>2 DEF Step, PassType
  <2>5. \A r \in Resolvable(batch) : r.from \in nodes /\ target[r] \in nodes
    BY <1>1, <2>1, <2>2 DEF Resolvable, KeysHold
  <2>6. \A e \in pass'.found : e.source \in nodes /\ e.target \in nodes
    BY <2>4, <2>5
  <2>7. nodes' = nodes
    BY <1>16 DEF Batch, tables, db
  <2>8. pass.at = "resolve"
    BY <2>2 DEF Step
  <2> QED BY <1>15, <2>3, <2>6, <2>7, <2>8 DEF InOrder, Holding, Looking, Stored
<1>17. CASE Link \/ DropResolved \/ DropUnresolved
  <2>1. /\ pass.at \in {"link", "resolved", "unresolved"} /\ pass'.at \in {"resolved", "unresolved", "resolve"}
        /\ UNCHANGED <<pass.file, pass.gone, pass.todo, pass.changed>>
    BY <1>1, <1>17 DEF Link, DropResolved, DropUnresolved, Step, PassType
  <2> QED BY <1>3, <1>15, <2>1, Unheld DEF Holding, Looking, Stored
<1>18. CASE Finish \/ Crash
  <2>1. pass' = Idle
    BY <1>18 DEF Finish, Crash, Step
  <2> QED BY <1>3, <2>1, IdleFields, Unheld DEF Holding, Looking, Stored
<1> QED BY <1>4, <1>5, <1>6, <1>7, <1>9, <1>10, <1>11, <1>12, <1>13, <1>14, <1>16, <1>17, <1>18 DEF Next, PassStep

-----------------------------------------------------------------------------
(* The nodes of a file and its row.                                          *)

\* Steps that leave nodes and rows alone, before or after the nodes are stored.
LEMMA Unmatched ==
  ASSUME Matched, UNCHANGED <<nodes, files, torn>>,
         \/ pass.at \notin Stored /\ pass'.at \notin Stored
         \/ pass.at \in Stored /\ pass'.at \in Stored /\ UNCHANGED <<pass.file, pass.content>>
  PROVE  Matched'
BY DEF Matched, OfFile, Vouched, NodesOf, ModuleNode, Declared

\* The phases a step goes from and to, for the steps that store no file.
LEMMA AwayFromStoring ==
  ASSUME Typed, InOrder,
         \/ BeginSync \/ BeginFull \/ \E f \in Files : Prune(f) \/ Compare(f) \/ Pick(f)
         \/ Unreadable \/ LookFirst \/ LookSecond \/ StoreDelete
         \/ AllStored \/ Batch \/ Link \/ DropResolved \/ DropUnresolved \/ Finish
  PROVE  pass.at \notin Stored /\ pass'.at \notin Stored
<1>1. pass \in PassType
  BY DEF Typed
<1>2. NextFile.at = "scan"
  BY <1>1 DEF NextFile, PassType
<1>3. CASE BeginSync \/ BeginFull
  BY <1>3, IdleFields DEF BeginSync, BeginFull, Step, PassType, Stored
<1>4. CASE \E f \in Files : Prune(f) \/ Compare(f) \/ Pick(f)
  BY <1>1, <1>4 DEF Prune, Compare, Pick, Step, PassType, Stored
<1>5. CASE Unreadable \/ LookFirst
  BY <1>1, <1>2, <1>5 DEF Unreadable, LookFirst, Step, Stat, Read, PassType, Stored
<1>6. CASE LookSecond
  <2>1. pass.at = "second" /\ (pass' = NextFile \/ pass'.at \in {"nodes", "delete"})
    BY <1>6, LookEffect
  <2> QED BY <1>2, <2>1 DEF Stored
<1>7. CASE StoreDelete \/ AllStored \/ Link \/ DropResolved \/ DropUnresolved
  BY <1>1, <1>7 DEF StoreDelete, AllStored, Link, DropResolved, DropUnresolved, Step, PassType, Stored
<1>8. CASE Batch
  <2>1. \E b, found : Step("resolve", [pass EXCEPT !.at = "link", !.batch = b, !.found = found])
    BY <1>8 DEF Batch
  <2> QED BY <1>1, <2>1 DEF Step, PassType, Stored
<1>9. CASE Finish
  BY <1>9, IdleFields DEF Finish, Step, Stored
<1> QED BY <1>3, <1>4, <1>5, <1>6, <1>7, <1>8, <1>9

LEMMA GoneMatched ==
  ASSUME NEW f \in Files, Typed, KeysHold, Matched, DeleteFile(f),
         pass.at \notin Stored, pass'.at \notin Stored
  PROVE  Matched'
<1> SUFFICES ASSUME NEW g \in Files, g \notin torn' PROVE OfFile(g)' = Vouched(g)'
  BY DEF Matched
<1>1. nodes' = {n \in nodes : n.file # f} /\ files' = [files EXCEPT ![f] = Absent] /\ torn' = torn \ {f}
  BY FileGone DEF DeleteFile
<1>2. CASE g = f
  BY <1>1, <1>2 DEF OfFile, Vouched, Typed
<1>3. CASE g # f
  <2>1. OfFile(g) = Vouched(g)
    BY <1>1, <1>3 DEF Matched
  <2>2. OfFile(g)' = OfFile(g)
    BY <1>1, <1>3 DEF OfFile
  <2>3. Vouched(g)' = Vouched(g)
    BY <1>1, <1>3 DEF Vouched, Typed, NodesOf, ModuleNode, Declared
  <2> QED BY <2>1, <2>2, <2>3
<1> QED BY <1>2, <1>3

LEMMA NextMatched ==
  ASSUME IInv, Next
  PROVE  Matched'
<1>1. Typed /\ KeysHold /\ InOrder /\ Matched /\ pass \in PassType
  BY DEF IInv, Typed
<1>2. ASSUME NEW f \in Files, Edit(f) PROVE Matched'
  <2>1. UNCHANGED <<nodes, files, torn, pass.at, pass.file, pass.content>>
    <3>1. pass' = [pass EXCEPT !.still = FALSE] /\ UNCHANGED <<nodes, files, torn>>
      BY <1>2, EditEffect
    <3> QED BY <1>1, <3>1 DEF PassType
  <2> QED BY <1>1, <2>1, Unmatched
<1>3. CASE BeginSync \/ BeginFull \/ Unreadable \/ LookFirst \/ LookSecond \/ AllStored \/ Batch
             \/ Link \/ DropResolved \/ DropUnresolved \/ Finish
  <2>1. UNCHANGED <<nodes, files, torn>>
    BY <1>3 DEF BeginSync, BeginFull, Unreadable, LookFirst, LookSecond, AllStored, Batch, Link, DropResolved,
                DropUnresolved, Finish, tables, db
  <2> QED BY <1>1, <1>3, <2>1, AwayFromStoring, Unmatched
<1>4. ASSUME NEW f \in Files, Prune(f) \/ Compare(f) \/ Pick(f) PROVE Matched'
  <2>1. DeleteFile(f) \/ UNCHANGED <<nodes, files, torn>>
    BY <1>4 DEF Prune, Compare, Pick, tables, db
  <2>2. pass.at \notin Stored /\ pass'.at \notin Stored
    BY <1>1, <1>4, AwayFromStoring
  <2> QED BY <1>1, <2>1, <2>2, GoneMatched, Unmatched
<1>5. CASE StoreDelete
  <2>1. pass.file \in Files
    BY <1>1, <1>5, HeldFile DEF StoreDelete, Step, Holding, Looking
  <2>2. DeleteFile(pass.file)
    BY <1>5 DEF StoreDelete
  <2> QED BY <1>1, <1>5, <2>1, <2>2, AwayFromStoring, GoneMatched
<1>6. CASE StoreNodes
  <2>1. /\ pass.at = "nodes" /\ pass'.at = "edges" /\ UNCHANGED <<pass.file, pass.content, files, torn>>
        /\ nodes' = nodes \cup NodesOf(pass.file, pass.content)
    BY <1>1, <1>6 DEF StoreNodes, Step, InsertNodes, PassType
  <2>2. pass.file \in Files /\ files[pass.file] = Absent /\ pass.content \in Content
    BY <1>1, <2>1, HeldFile DEF InOrder, Row, Holding
  <2>3. \A n \in NodesOf(pass.file, pass.content) : n.file = pass.file
    BY <2>2, RowsOf
  <2> SUFFICES ASSUME NEW g \in Files, g \notin torn' PROVE OfFile(g)' = Vouched(g)'
    BY DEF Matched
  <2>4. OfFile(g) = Vouched(g)
    BY <1>1, <2>1 DEF Matched
  <2>5. CASE g = pass.file
    <3>1. OfFile(g) = {}
      BY <2>1, <2>2, <2>4, <2>5 DEF Vouched, Stored
    <3>2. OfFile(g)' = NodesOf(pass.file, pass.content)
      BY <2>1, <2>3, <2>5, <3>1 DEF OfFile
    <3>3. Vouched(g)' = NodesOf(pass.file, pass.content)
      BY <2>1, <2>5 DEF Vouched, Stored, NodesOf, ModuleNode, Declared
    <3> QED BY <3>2, <3>3
  <2>6. CASE g # pass.file
    <3>1. OfFile(g)' = OfFile(g)
      BY <2>1, <2>3, <2>6 DEF OfFile
    <3>2. Vouched(g)' = Vouched(g)
      BY <2>1, <2>6 DEF Vouched, NodesOf, ModuleNode, Declared
    <3> QED BY <2>4, <3>1, <3>2
  <2> QED BY <2>5, <2>6
<1>7. CASE StoreEdges \/ StoreIncoming \/ StoreRefs
  <2>1. pass.at \in Stored /\ pass'.at \in Stored /\ UNCHANGED <<nodes, files, torn, pass.file, pass.content>>
    BY <1>1, <1>7 DEF StoreEdges, StoreIncoming, StoreRefs, Step, Stored, PassType
  <2> QED BY <1>1, <2>1, Unmatched
<1>8. CASE StoreRow
  <2>1. pass.at = "row" /\ pass'.at = "scan" /\ UNCHANGED <<nodes, torn>>
    BY <1>1, <1>8 DEF StoreRow, Step, NextFile, PassType
  <2>2. pass.file \in Files /\ pass.content.ok
    BY <1>1, <2>1, HeldFile DEF InOrder, Holding, Stored
  <2>3. files' = [files EXCEPT ![pass.file] = [content |-> pass.content, stamp |-> pass.stat, read |-> pass.read]]
    BY <1>8 DEF StoreRow
  <2> SUFFICES ASSUME NEW g \in Files, g \notin torn' PROVE OfFile(g)' = Vouched(g)'
    BY DEF Matched
  <2>4. OfFile(g)' = Vouched(g)
    BY <1>1, <2>1 DEF Matched, OfFile
  <2>5. CASE g = pass.file
    <3>1. files'[g].content = pass.content /\ files'[g] # Absent
      BY <1>1, <2>2, <2>3, <2>5, Contented DEF Typed
    <3>2. Vouched(g) = NodesOf(g, pass.content)
      BY <2>1, <2>5 DEF Vouched, Stored
    <3>3. Vouched(g)' = NodesOf(g, pass.content)
      BY <2>1, <3>1 DEF Vouched, Stored, NodesOf, ModuleNode, Declared
    <3> QED BY <2>4, <3>2, <3>3
  <2>6. CASE g # pass.file
    <3>1. files'[g] = files[g]
      BY <1>1, <2>2, <2>3, <2>6 DEF Typed
    <3>2. Vouched(g)' = Vouched(g)
      BY <2>1, <2>6, <3>1 DEF Vouched, Stored, NodesOf, ModuleNode, Declared
    <3> QED BY <2>4, <3>2
  <2> QED BY <2>5, <2>6
<1>9. CASE Crash
  <2>1. pass'.at = "idle" /\ UNCHANGED <<nodes, files>>
    BY <1>9, IdleFields DEF Crash, db
  <2>2. torn' = IF pass.at \in Stored THEN torn \cup {pass.file} ELSE torn
    BY <1>9 DEF Crash, Stored
  <2> SUFFICES ASSUME NEW g \in Files, g \notin torn' PROVE OfFile(g)' = Vouched(g)'
    BY DEF Matched
  <2>3. OfFile(g)' = Vouched(g) /\ ~(g = pass.file /\ pass.at \in Stored)
    BY <1>1, <2>1, <2>2 DEF Matched, OfFile
  <2>4. Vouched(g)' = Vouched(g)
    BY <2>1, <2>3 DEF Vouched, Stored, NodesOf, ModuleNode, Declared
  <2> QED BY <2>3, <2>4
<1> QED BY <1>2, <1>3, <1>4, <1>5, <1>6, <1>7, <1>8, <1>9 DEF Next, PassStep

-----------------------------------------------------------------------------
(* The links.                                                                *)

LEMMA LinkTyped ==
  ASSUME Typed, NEW l \in links
  PROVE  l[1] \in Files /\ l[2] \in Names /\ l[3] \in Files
BY DEF Typed

\* A link's edge stands while it is not deleted and its target's content stays.
LEMMA StaysLinked ==
  ASSUME Typed, NEW l \in links, Linked(l, Current(l[3])), Current(l[3])' = Current(l[3]),
         \A e \in edges : e.source.file = l[1] /\ e.target.file = l[3] => e \in edges'
  PROVE  Linked(l, Current(l[3]))'
<1>1. PICK c : c = Current(l[3])
  OBVIOUS
<1>2. PICK e \in edges : /\ e.kind = "calls" /\ e.source = ModuleNode(l[1])
                         /\ e.target \in Declared(l[3], c) /\ e.target.name = l[2]
  BY <1>1 DEF Linked
<1>3. e.source.file = l[1] /\ e.target.file = l[3]
  BY <1>2 DEF ModuleNode, Declared
<1>4. e \in edges'
  BY <1>3
<1>5. Linked(l, c)'
  BY <1>2, <1>4 DEF Linked, ModuleNode, Declared
<1> QED BY <1>1, <1>5 DEF Linked, Declared

\* Steps away from storing that only add edges.
LEMMA Unlinked ==
  ASSUME Typed, Kept, links' \subseteq links, edges \subseteq edges', files' = files, pass'.at # "delete",
         pass.at \notin {"nodes"} \cup Stored, pass'.at \notin {"nodes"} \cup Stored
  PROVE  Kept'
<1> SUFFICES ASSUME NEW l \in links' PROVE ~Waiting(l)' /\ Linked(l, Current(l[3]))'
  BY DEF Kept
<1>1. ~Waiting(l) /\ ~Waiting(l)' /\ Current(l[3])' = Current(l[3])
  BY DEF Waiting, Current, Stored
<1>2. Linked(l, Current(l[3]))
  BY <1>1 DEF Kept
<1> QED BY <1>1, <1>2, StaysLinked

\* What is left of a link's edges when a file's rows go.
LEMMA GoneLinked ==
  ASSUME NEW f \in Files, Typed, KeysHold, Kept, DeleteFile(f), NEW l \in links, l[1] # f, l[3] # f,
         pass.at \notin {"nodes"} \cup Stored, pass'.at \notin Stored
  PROVE  Linked(l, Current(l[3]))'
<1>1. edges' = {e \in edges : e.source.file # f /\ e.target.file # f}
  BY FileGone
<1>2. files'[l[3]] = files[l[3]]
  BY LinkTyped DEF DeleteFile, Typed
<1>3. ~Waiting(l) /\ Current(l[3])' = Current(l[3])
  BY <1>2 DEF Waiting, Current, Stored
<1>4. Linked(l, Current(l[3]))
  BY <1>3 DEF Kept
<1> QED BY <1>1, <1>3, <1>4, StaysLinked

LEMMA EditKept ==
  ASSUME IInv, NEW f \in Files, Edit(f)
  PROVE  Kept'
<1>1. pass \in PassType /\ Kept
  BY DEF IInv, Typed
<1>2. UNCHANGED <<nodes, edges, files, links>>
  BY EditEffect
<1>3. pass' = [pass EXCEPT !.still = FALSE]
  BY EditEffect
<1>4. UNCHANGED <<pass.at, pass.file, pass.content, pass.in>>
  BY <1>1, <1>3 DEF PassType
<1> QED BY <1>1, <1>2, <1>4 DEF Kept, Incoming, Waiting, Waits, Linked, Current, ModuleNode, Declared

LEMMA LookKept ==
  ASSUME IInv, LookSecond
  PROVE  Kept'
<1>1. Typed /\ InOrder /\ Kept /\ pass \in PassType
  BY DEF IInv, Typed
<1>2. pass.at = "second" /\ pass.file \in Files /\ UNCHANGED <<files, nodes, edges, links>>
  BY <1>1, LookEffect
<1>3. CASE pass' = NextFile
  <2>1. pass'.at = "scan"
    BY <1>1, <1>3 DEF NextFile, PassType
  <2> QED BY <1>1, <1>2, <2>1, Unlinked DEF Stored
<1>4. CASE pass' # NextFile
  <2>1. /\ pass'.at = (IF Row = Absent THEN "nodes" ELSE "delete") /\ pass'.file = pass.file
        /\ pass'.at = "delete" => pass'.in = Incoming(pass.file)
    BY <1>1, <1>4, LookEffect
  <2>2. (pass.at = "delete" => pass.in = Incoming(pass.file))'
    BY <1>2, <2>1 DEF Incoming
  <2> SUFFICES ASSUME NEW l \in links' PROVE ~Waiting(l)' /\ Linked(l, Current(l[3]))'
    BY <2>2 DEF Kept
  <2>3. Linked(l, Current(l[3])) /\ Current(l[3]) = files[l[3]].content
    BY <1>1, <1>2 DEF Kept, Waiting, Current, Stored
  <2>4. ~Waiting(l)'
    <3>1. CASE Row = Absent
      <4>1. Declared(pass.file, files[pass.file].content) = {}
        BY <3>1, Contented DEF Row, Declared
      <4>2. l[3] # pass.file
        BY <2>3, <4>1 DEF Linked
      <4> QED BY <2>1, <4>2 DEF Waiting
    <3>2. CASE Row # Absent
      BY <2>1, <3>2 DEF Waiting
    <3> QED BY <3>1, <3>2
  <2>5. Current(l[3])' = Current(l[3])
    BY <1>2, <2>1 DEF Current, Stored
  <2> QED BY <1>1, <1>2, <2>3, <2>4, <2>5, StaysLinked
<1> QED BY <1>3, <1>4

LEMMA DeleteKept ==
  ASSUME IInv, StoreDelete
  PROVE  Kept'
<1>1. Typed /\ KeysHold /\ InOrder /\ Kept /\ pass \in PassType
  BY DEF IInv, Typed
<1>2. pass.at = "delete" /\ pass'.at = "nodes" /\ UNCHANGED <<pass.file, pass.in>>
  BY <1>1 DEF StoreDelete, Step, PassType
<1>3. pass.file \in Files /\ pass.in = Incoming(pass.file)
  BY <1>1, <1>2, HeldFile DEF Kept, Holding, Looking
<1>4. DeleteFile(pass.file) /\ links' = {l \in links : l[1] # pass.file}
  BY DEF StoreDelete
<1> SUFFICES ASSUME NEW l \in links' PROVE IF Waiting(l)' THEN Waits(l)' ELSE Linked(l, Current(l[3]))'
  BY <1>2 DEF Kept
<1>5. l \in links /\ l[1] # pass.file
  BY <1>4
<1>6. CASE l[3] = pass.file
  <2>1. Linked(l, Current(l[3]))
    BY <1>1, <1>2, <1>5 DEF Kept, Waiting
  <2>2. PICK e \in edges : /\ e.kind = "calls" /\ e.source = ModuleNode(l[1])
                           /\ e.target \in Declared(l[3], Current(l[3])) /\ e.target.name = l[2]
    BY <2>1 DEF Linked
  <2>3. e.target.file = l[3] /\ e.source.file = l[1]
    BY <2>2 DEF Declared, ModuleNode
  <2>4. e \in pass'.in
    BY <1>2, <1>3, <1>5, <1>6, <2>2, <2>3 DEF Incoming
  <2>5. ModuleNode(l[1]) \in nodes'
    <3>1. ModuleNode(l[1]) \in nodes /\ ModuleNode(l[1]).file # pass.file
      BY <1>1, <1>5, <2>2, <2>3 DEF KeysHold
    <3> QED BY <1>1, <1>3, <1>4, <3>1, FileGone
  <2>6. Waits(l)'
    BY <1>5, <1>6, <2>2, <2>4, <2>5 DEF Waits, ModuleNode
  <2> QED BY <1>2, <1>6, <2>6 DEF Waiting
<1>7. CASE l[3] # pass.file
  <2>1. Linked(l, Current(l[3]))'
    BY <1>1, <1>2, <1>3, <1>4, <1>5, <1>7, GoneLinked DEF Stored
  <2> QED BY <1>2, <1>7, <2>1 DEF Waiting
<1> QED BY <1>6, <1>7

LEMMA NodesKept ==
  ASSUME IInv, StoreNodes
  PROVE  Kept'
<1>1. Typed /\ InOrder /\ Kept /\ pass \in PassType
  BY DEF IInv, Typed
<1>2. pass.at = "nodes" /\ pass'.at = "edges" /\ UNCHANGED <<pass.file, pass.in, pass.content, files>>
  BY <1>1 DEF StoreNodes, Step, PassType
<1>3. pass.file \in Files /\ pass.content \in Content
  BY <1>1, <1>2, HeldFile DEF Holding
<1>4. /\ InsertNodes(NodesOf(pass.file, pass.content)) /\ links' = {l \in links : l[1] # pass.file}
  BY DEF StoreNodes
<1> SUFFICES ASSUME NEW l \in links' PROVE IF Waiting(l)' THEN Waits(l)' ELSE Linked(l, Current(l[3]))'
  BY <1>2 DEF Kept
<1>5. l \in links /\ l[1] # pass.file
  BY <1>4
<1>6. CASE l[3] = pass.file
  <2>1. Waits(l)
    BY <1>1, <1>2, <1>5, <1>6 DEF Kept, Waiting
  <2>2. nodes \subseteq nodes'
    BY <1>4 DEF InsertNodes
  <2>3. Waits(l)'
    BY <1>2, <2>1, <2>2 DEF Waits, ModuleNode
  <2> QED BY <1>2, <1>6, <2>3 DEF Waiting
<1>7. CASE l[3] # pass.file
  <2>1. Linked(l, Current(l[3]))
    BY <1>1, <1>5, <1>7 DEF Kept, Waiting
  <2>2. \A n \in NodesOf(pass.file, pass.content) : n.file = pass.file
    BY <1>3, RowsOf
  <2>3. \A e \in edges : e.source.file = l[1] /\ e.target.file = l[3] => e \in edges'
    BY <1>4, <1>5, <1>7, <2>2 DEF InsertNodes, EdgesOff
  <2>4. Current(l[3])' = Current(l[3]) /\ ~Waiting(l)'
    BY <1>2, <1>7 DEF Current, Waiting
  <2> QED BY <1>1, <1>5, <2>1, <2>3, <2>4, StaysLinked
<1> QED BY <1>6, <1>7

\* Steps of storing that add edges, and leave the target's new nodes to be linked.
LEMMA StoringKept ==
  ASSUME IInv, StoreEdges \/ StoreRefs
  PROVE  Kept'
<1>1. Typed /\ InOrder /\ Kept /\ pass \in PassType
  BY DEF IInv, Typed
<1>2. /\ \/ pass.at = "edges" /\ pass'.at = "relink"
         \/ pass.at = "refs" /\ pass'.at = "row"
      /\ UNCHANGED <<pass.file, pass.in, pass.content, files, nodes, links>> /\ edges \subseteq edges'
  BY <1>1 DEF StoreEdges, StoreRefs, Step, PassType
<1> SUFFICES ASSUME NEW l \in links PROVE IF Waiting(l)' THEN Waits(l)' ELSE Linked(l, Current(l[3]))'
  BY <1>2 DEF Kept
<1>3. Waiting(l)' <=> Waiting(l)
  BY <1>2 DEF Waiting
<1>4. CASE Waiting(l)
  <2>1. Waits(l)
    BY <1>1, <1>4 DEF Kept
  <2>2. Waits(l)'
    BY <1>2, <2>1 DEF Waits, ModuleNode
  <2> QED BY <1>3, <1>4, <2>2
<1>5. CASE ~Waiting(l)
  <2>1. Linked(l, Current(l[3]))
    BY <1>1, <1>5 DEF Kept
  <2>2. Current(l[3])' = Current(l[3])
    BY <1>2 DEF Current, Stored
  <2>3. Linked(l, Current(l[3]))'
    BY <1>1, <1>2, <2>1, <2>2, StaysLinked
  <2> QED BY <1>3, <1>5, <2>3
<1> QED BY <1>4, <1>5

LEMMA RelinkKept ==
  ASSUME IInv, StoreIncoming
  PROVE  Kept'
<1>1. Typed /\ InOrder /\ Kept /\ pass \in PassType
  BY DEF IInv, Typed
<1>2. /\ pass.at = "relink" /\ pass'.at = "refs" /\ UNCHANGED <<pass.file, pass.content, files, nodes>>
      /\ edges' = edges \cup WithEnds(Retargeted)
      /\ links' = {l \in links : l[3] = pass.file => l[2] \in pass.content.defs}
  BY <1>1 DEF StoreIncoming, Step, PassType
<1>3. pass.file \in Files /\ pass.content \in Content
  BY <1>1, <1>2, HeldFile DEF Holding, Stored
<1> SUFFICES ASSUME NEW l \in links' PROVE ~Waiting(l)' /\ Linked(l, Current(l[3]))'
  BY <1>2 DEF Kept
<1>4. ~Waiting(l)' /\ l \in links
  BY <1>2 DEF Waiting
<1>5. CASE l[3] = pass.file
  <2>1. Waits(l)
    BY <1>1, <1>2, <1>4, <1>5 DEF Kept, Waiting
  <2>2. PICK e \in pass.in : e.kind = "calls" /\ e.source = ModuleNode(l[1]) /\ e.target.name = l[2]
    BY <2>1 DEF Waits
  <2>3. PICK n : n = [file |-> pass.file, name |-> l[2], line |-> pass.content.line]
    OBVIOUS
  <2>4. n \in Declared(pass.file, pass.content) /\ n.name = l[2]
    BY <1>2, <1>5, <2>3 DEF Declared
  <2>5. n \in nodes /\ n \in NodeId
    <3>1. NodesOf(pass.file, pass.content) \subseteq nodes
      BY <1>1, <1>2 DEF InOrder, Stored
    <3> QED BY <1>1, <2>4, <3>1 DEF NodesOf, Typed
  <2>6. PICK x : x = [e EXCEPT !.target = n]
    OBVIOUS
  <2>7. e \in Edge
    BY <1>1 DEF PassType
  <2>8. x.source = ModuleNode(l[1]) /\ x.target = n /\ x.kind = "calls"
    BY <2>2, <2>5, <2>6, <2>7, RetargetedTyped
  <2>9. x \in Retargeted
    BY <2>2, <2>4, <2>6 DEF Retargeted
  <2>10. x \in edges'
    BY <1>2, <2>1, <2>5, <2>8, <2>9 DEF WithEnds, Waits
  <2>11. Linked(l, pass.content)'
    BY <1>2, <1>5, <2>4, <2>8, <2>10 DEF Linked, Declared, ModuleNode
  <2>12. Current(l[3])' = pass'.content
    BY <1>2, <1>5 DEF Current, Stored
  <2> QED BY <1>4, <2>11, <2>12 DEF Linked, Declared
<1>6. CASE l[3] # pass.file
  <2>1. Linked(l, Current(l[3]))
    BY <1>1, <1>4, <1>6 DEF Kept, Waiting
  <2>2. Current(l[3])' = Current(l[3])
    BY <1>2, <1>6 DEF Current
  <2> QED BY <1>1, <1>2, <1>4, <2>1, <2>2, StaysLinked
<1> QED BY <1>5, <1>6

LEMMA RowKept ==
  ASSUME IInv, StoreRow
  PROVE  Kept'
<1>1. Typed /\ InOrder /\ Kept /\ pass \in PassType
  BY DEF IInv, Typed
<1>2. /\ pass.at = "row" /\ pass'.at = "scan" /\ UNCHANGED <<edges, links>>
      /\ files' = [files EXCEPT ![pass.file] = [content |-> pass.content, stamp |-> pass.stat, read |-> pass.read]]
  BY <1>1 DEF StoreRow, Step, NextFile, PassType
<1>3. pass.file \in Files
  BY <1>1, <1>2, HeldFile DEF Holding, Stored
<1> SUFFICES ASSUME NEW l \in links PROVE ~Waiting(l)' /\ Linked(l, Current(l[3]))'
  BY <1>2 DEF Kept
<1>4. l[3] \in Files
  BY <1>1, LinkTyped
<1>5. Linked(l, Current(l[3])) /\ ~Waiting(l)'
  BY <1>1, <1>2 DEF Kept, Waiting
<1>6. Current(l[3])' = Current(l[3])
  BY <1>1, <1>2, <1>3, <1>4 DEF Current, Stored, Typed
<1> QED BY <1>1, <1>2, <1>5, <1>6, StaysLinked

LEMMA LinkKept ==
  ASSUME IInv, Link
  PROVE  Kept'
<1>1. Typed /\ InOrder /\ Matched /\ Kept /\ pass \in PassType
  BY DEF IInv, Typed
<1>2. /\ pass.at = "link" /\ pass'.at = "resolved" /\ UNCHANGED <<files, nodes>>
      /\ edges' = edges \cup WithEnds(pass.found)
      /\ links' = links \cup {<<e.source.file, e.target.name, e.target.file>> :
                                e \in {x \in pass.found : x.target.file \notin torn}}
  BY <1>1 DEF Link, Step, PassType
<1> SUFFICES ASSUME NEW l \in links' PROVE ~Waiting(l)' /\ Linked(l, Current(l[3]))'
  BY <1>2 DEF Kept
<1>3. ~Waiting(l)' /\ Current(l[3])' = files[l[3]].content
  BY <1>2 DEF Waiting, Current, Stored
<1>4. CASE l \in links
  <2>1. Linked(l, Current(l[3])) /\ Current(l[3])' = Current(l[3])
    BY <1>1, <1>2, <1>4 DEF Kept, Waiting, Current, Stored
  <2> QED BY <1>1, <1>2, <1>3, <1>4, <2>1, StaysLinked
<1>5. CASE l \notin links
  <2>1. PICK e \in pass.found : e.target.file \notin torn /\ l = <<e.source.file, e.target.name, e.target.file>>
    BY <1>2, <1>5
  <2>2. e \in Call
    BY <1>1, <2>1 DEF PassType
  <2>3. e.kind = "calls" /\ e.source = ModuleNode(e.source.file) /\ e.target \in Function
    BY <2>2 DEF Call, Module, ModuleNode
  <2>4. e.source \in nodes /\ e.target \in nodes
    BY <1>1, <1>2, <2>1 DEF InOrder
  <2>5. e \in edges'
    BY <1>2, <2>1, <2>4 DEF WithEnds
  <2>6. PICK f \in Files : f = e.target.file
    BY <2>3 DEF Function
  <2>7. e.target \in Vouched(f)
    BY <1>1, <2>1, <2>4, <2>6 DEF Matched, OfFile
  <2>8. e.target \in NodesOf(f, files[f].content)
    BY <1>2, <2>7 DEF Vouched, Stored
  <2>9. e.target.name # "module"
    BY <2>3, StoreAssumption DEF Function
  <2>10. e.target \in Declared(f, files[f].content)
    BY <2>8, <2>9 DEF NodesOf, ModuleNode
  <2>11. l[1] = e.source.file /\ l[2] = e.target.name /\ l[3] = f
    BY <2>1, <2>6
  <2> QED BY <1>3, <2>3, <2>5, <2>10, <2>11 DEF Linked, Declared, ModuleNode
<1> QED BY <1>4, <1>5

LEMMA CrashKept ==
  ASSUME IInv, Crash
  PROVE  Kept'
<1>1. Typed /\ InOrder /\ Kept /\ pass \in PassType
  BY DEF IInv, Typed
<1>2. pass'.at = "idle" /\ UNCHANGED <<files, edges>>
  BY IdleFields DEF Crash, db
<1>3. links' = IF pass.at \in {"nodes"} \cup Stored THEN {l \in links : l[3] # pass.file} ELSE links
  BY DEF Crash, Stored
<1> SUFFICES ASSUME NEW l \in links' PROVE ~Waiting(l)' /\ Linked(l, Current(l[3]))'
  BY <1>2 DEF Kept
<1>4. l \in links /\ ~Waiting(l)
  BY <1>3 DEF Waiting, Stored
<1>5. Current(l[3])' = Current(l[3]) /\ ~Waiting(l)'
  BY <1>2, <1>3 DEF Current, Waiting, Stored
<1>6. Linked(l, Current(l[3]))
  BY <1>1, <1>4 DEF Kept
<1> QED BY <1>1, <1>2, <1>4, <1>5, <1>6, StaysLinked

LEMMA NextKept ==
  ASSUME IInv, Next
  PROVE  Kept'
<1>1. Typed /\ KeysHold /\ InOrder /\ Kept /\ pass \in PassType
  BY DEF IInv, Typed
<1>2. NextFile.at = "scan"
  BY <1>1 DEF NextFile, PassType
<1>3. CASE BeginSync \/ BeginFull \/ Finish
  <2>1. pass.at \in {"idle", "resolve"} /\ pass'.at \in {"scan", "idle"} /\ UNCHANGED <<links, edges, files>>
    BY <1>3, IdleFields DEF BeginSync, BeginFull, Finish, Step, PassType, tables, db
  <2> QED BY <1>1, <2>1, Unlinked DEF Stored
<1>4. ASSUME NEW f \in Files, Compare(f) \/ Pick(f) PROVE Kept'
  <2>1. pass.at = "scan" /\ pass'.at \in {"scan", "first"} /\ UNCHANGED <<links, edges, files>>
    BY <1>1, <1>4 DEF Compare, Pick, Step, PassType, tables, db
  <2> QED BY <1>1, <2>1, Unlinked DEF Stored
<1>5. ASSUME NEW f \in Files, Prune(f) PROVE Kept'
  <2>1. pass.at = "scan" /\ pass'.at = "scan"
    BY <1>1, <1>5 DEF Prune, Step, PassType
  <2>2. CASE f \notin pass.todo \/ tree[f] = Absent
    <3>1. DeleteFile(f) /\ links' = {l \in links : l[1] # f /\ l[3] # f}
      BY <1>5, <2>2 DEF Prune
    <3>2. \A l \in links' : Linked(l, Current(l[3]))'
      BY <1>1, <2>1, <3>1, GoneLinked DEF Stored
    <3> QED BY <2>1, <3>2 DEF Kept, Waiting
  <2>3. CASE ~(f \notin pass.todo \/ tree[f] = Absent)
    <3>1. UNCHANGED <<links, edges, files>>
      BY <1>5, <2>3 DEF Prune, tables, db
    <3> QED BY <1>1, <2>1, <3>1, Unlinked DEF Stored
  <2> QED BY <2>2, <2>3
<1>6. CASE Unreadable \/ LookFirst \/ AllStored
  <2>1. pass.at \in {"first", "second", "scan"} /\ pass'.at \in {"scan", "second", "resolve"}
    BY <1>1, <1>2, <1>6 DEF Unreadable, LookFirst, AllStored, Step, Stat, Read, PassType
  <2>2. UNCHANGED <<links, edges, files>>
    BY <1>6 DEF Unreadable, LookFirst, AllStored, tables, db
  <2> QED BY <1>1, <2>1, <2>2, Unlinked DEF Stored
<1>7. CASE Batch \/ DropResolved \/ DropUnresolved
  <2>1. UNCHANGED <<links, edges, files>>
    BY <1>7 DEF Batch, DropResolved, DropUnresolved, tables, db
  <2>2. pass.at \in {"resolve", "resolved", "unresolved"} /\ pass'.at \in {"link", "unresolved", "resolve"}
    <3>1. CASE Batch
      <4>1. \E b, found : Step("resolve", [pass EXCEPT !.at = "link", !.batch = b, !.found = found])
        BY <3>1 DEF Batch
      <4> QED BY <1>1, <4>1 DEF Step, PassType
    <3>2. CASE DropResolved \/ DropUnresolved
      BY <1>1, <3>2 DEF DropResolved, DropUnresolved, Step, PassType
    <3> QED BY <1>7, <3>1, <3>2
  <2> QED BY <1>1, <2>1, <2>2, Unlinked DEF Stored
<1> QED BY <1>3, <1>4, <1>5, <1>6, <1>7, EditKept, LookKept, DeleteKept, NodesKept, StoringKept, RelinkKept,
           RowKept, LinkKept, CrashKept DEF Next, PassStep

-----------------------------------------------------------------------------
(* The stamps.                                                               *)

LEMMA Unread ==
  ASSUME Typed, Stamps, NEW f \in Files, NEW c
  PROVE  Seen(f, 0, c)
BY DEF Stamps, Seen, Typed

\* Steps that read no file and store no row.
LEMMA Unstamped ==
  ASSUME Stamps, UNCHANGED <<tree, edits, files>>,
         IF pass'.at \in Holding THEN pass.at \in Holding /\ UNCHANGED <<pass.file, pass.read, pass.content>>
         ELSE pass'.read = 0
  PROVE  Stamps'
BY DEF Stamps, Seen

LEMMA GoneStamps ==
  ASSUME NEW f \in Files, Typed, Stamps, UNCHANGED <<tree, edits>>, DeleteFile(f),
         IF pass'.at \in Holding THEN pass.at \in Holding /\ UNCHANGED <<pass.file, pass.read, pass.content>>
         ELSE pass'.read = 0
  PROVE  Stamps'
<1>1. \A g \in Files : files'[g] = files[g] \/ (files'[g].read = 0 /\ g = f)
  BY Contented DEF DeleteFile, Typed
<1>2. \A g \in Files : Seen(g, files'[g].read, files'[g].content)
  BY <1>1, Unread DEF Stamps
<1> QED BY <1>2 DEF Stamps, Seen

\* What an edit leaves of what was seen before it.
LEMMA TreeAfter ==
  ASSUME Typed, NEW f \in Files, Edit(f), NEW g \in Files
  PROVE  tree'[g] = tree[g] \/ tree'[g] = Absent \/ tree'[g].stamp = edits + 1
<1>1. CASE tree' = [tree EXCEPT ![f] = Absent]
  BY <1>1 DEF Typed
<1>2. CASE \E c \in Contents[f] : tree' = [tree EXCEPT ![f] = [content |-> c, stamp |-> edits + 1, read |-> edits + 1]]
  <2>1. PICK x : x.stamp = edits + 1 /\ tree' = [tree EXCEPT ![f] = x]
    BY <1>2
  <2> QED BY <2>1 DEF Typed
<1> QED BY <1>1, <1>2, EditEffect

LEMMA SeenBefore ==
  ASSUME Typed, Stamps, NEW f \in Files, Edit(f), NEW g \in Files, NEW r \in Nat, NEW c, Seen(g, r, c)
  PROVE  Seen(g, r, c)'
<1>1. edits' = edits + 1 /\ edits \in Nat
  BY EditEffect DEF Typed
<1>2. r <= edits
  BY DEF Seen
<1>3. tree'[g] = tree[g] \/ tree'[g] = Absent \/ tree'[g].stamp = edits + 1
  BY TreeAfter
<1> QED BY <1>1, <1>2, <1>3 DEF Seen

LEMMA EditStamps ==
  ASSUME IInv, NEW f \in Files, Edit(f)
  PROVE  Stamps'
<1>1. Typed /\ InOrder /\ Stamps /\ pass \in PassType
  BY DEF IInv, Typed
<1>2. edits' = edits + 1 /\ edits \in Nat /\ files' = files
  BY <1>1, EditEffect DEF Typed
<1>3. pass' = [pass EXCEPT !.still = FALSE]
  BY EditEffect
<1>4. UNCHANGED <<pass.at, pass.file, pass.read, pass.content>>
  BY <1>1, <1>3 DEF PassType
<1>5. \A g \in Files : tree'[g] # Absent => tree'[g].stamp \in 1 .. edits'
  <2> SUFFICES ASSUME NEW g \in Files, tree'[g] # Absent PROVE tree'[g].stamp \in 1 .. edits'
    OBVIOUS
  <2>1. tree'[g] = tree[g] \/ tree'[g].stamp = edits + 1
    BY <1>1, TreeAfter
  <2> QED BY <1>1, <1>2, <2>1 DEF Stamps
<1>6. \A g \in Files : Seen(g, files[g].read, files[g].content)'
  <2> SUFFICES ASSUME NEW g \in Files PROVE Seen(g, files[g].read, files[g].content)'
    OBVIOUS
  <2>1. PICK r \in Nat, c \in Content : r = files[g].read /\ c = files[g].content
    BY <1>1 DEF Typed, Entry
  <2>2. Seen(g, r, c)'
    BY <1>1, <2>1, SeenBefore DEF Stamps
  <2> QED BY <1>2, <2>1, <2>2
<1>7. pass.at \in Holding => Seen(pass.file, pass.read, pass.content)'
  <2> SUFFICES ASSUME pass.at \in Holding PROVE Seen(pass.file, pass.read, pass.content)'
    OBVIOUS
  <2>1. PICK g \in Files, r \in Nat, c \in Content : g = pass.file /\ r = pass.read /\ c = pass.content
    BY <1>1, HeldFile DEF PassType
  <2>2. Seen(g, r, c)'
    BY <1>1, <2>1, SeenBefore DEF Stamps
  <2> QED BY <1>4, <2>1, <2>2
<1> QED BY <1>1, <1>2, <1>4, <1>5, <1>6, <1>7 DEF Stamps

\* What is read of a file is what is there.
LEMMA SeenNow ==
  ASSUME Typed, Stamps, pass.file \in Files, tree[pass.file] # Absent
  PROVE  /\ Read.content = tree[pass.file].content
         /\ Read.file = pass.file /\ Seen(pass.file, Read.read, Read.content)
         /\ Stat.file = pass.file /\ Stat.read = pass.read /\ Stat.content = pass.content
<1>1. Read.content = tree[pass.file].content /\ Read.read = tree[pass.file].stamp /\ Read.file = pass.file
  BY DEF Read, Typed, PassType
<1>2. tree[pass.file].stamp \in 1 .. edits /\ edits \in Nat
  BY DEF Stamps, Typed
<1>3. Seen(pass.file, Read.read, Read.content)
  BY <1>1, <1>2 DEF Seen
<1> QED BY <1>1, <1>3 DEF Stat, Typed, PassType

LEMMA NextStamps ==
  ASSUME IInv, Next
  PROVE  Stamps'
<1>1. Typed /\ KeysHold /\ InOrder /\ Stamps /\ pass \in PassType
  BY DEF IInv, Typed
<1>2. NextFile.at = "scan" /\ NextFile.read = 0
  BY <1>1 DEF NextFile, PassType
<1>3. Idle.read = 0
  BY DEF Idle
<1>4. CASE BeginSync \/ BeginFull \/ Finish \/ Crash
  <2>1. pass'.at \notin Holding /\ pass'.read = 0 /\ UNCHANGED <<tree, edits, files>>
    BY <1>3, <1>4, IdleFields DEF BeginSync, BeginFull, Finish, Crash, Step, PassType, outside, tables, db, Holding,
                                  Looking, Stored
  <2> QED BY <1>1, <2>1, Unstamped
<1>5. ASSUME NEW f \in Files, Compare(f) \/ Pick(f) PROVE Stamps'
  <2>1. pass.at = "scan" /\ pass'.at \in {"scan", "first"} /\ pass'.read = pass.read /\ UNCHANGED <<tree, edits, files>>
    BY <1>1, <1>5 DEF Compare, Pick, Step, PassType, outside, tables, db
  <2>2. pass'.read = 0
    BY <1>1, <2>1 DEF Stamps, Holding, Looking, Stored
  <2>3. CASE Compare(f)
    <3>1. pass'.at = "scan"
      BY <1>1, <2>3 DEF Compare, Step, PassType
    <3> QED BY <1>1, <2>1, <2>2, <3>1, Unstamped DEF Holding, Looking, Stored
  <2>4. CASE Pick(f)
    <3>1. pass'.at = "first" /\ pass'.file = f
      BY <1>1, <2>4 DEF Pick, Step, PassType
    <3>2. PICK c : c = pass'.content
      OBVIOUS
    <3>3. Seen(f, 0, c)
      BY <1>1, Unread
    <3> QED BY <1>1, <2>1, <2>2, <3>1, <3>2, <3>3 DEF Stamps, Seen, Holding, Looking
  <2> QED BY <1>5, <2>3, <2>4
<1>6. ASSUME NEW f \in Files, Prune(f) PROVE Stamps'
  <2>1. pass.at = "scan" /\ pass'.at = "scan" /\ pass'.read = pass.read /\ UNCHANGED <<tree, edits>>
    BY <1>1, <1>6 DEF Prune, Step, PassType, outside
  <2>2. pass'.read = 0 /\ pass'.at \notin Holding
    BY <1>1, <2>1 DEF Stamps, Holding, Looking, Stored
  <2>3. DeleteFile(f) \/ UNCHANGED files
    BY <1>6 DEF Prune, tables, db
  <2> QED BY <1>1, <2>1, <2>2, <2>3, GoneStamps, Unstamped
<1>7. CASE Unreadable
  <2>1. pass'.at \notin Holding /\ pass'.read = 0 /\ UNCHANGED <<tree, edits, files>>
    BY <1>2, <1>7 DEF Unreadable, outside, tables, db, Holding, Looking, Stored
  <2> QED BY <1>1, <2>1, Unstamped
<1>8. CASE LookFirst
  <2>1. pass.at = "first" /\ tree[pass.file] # Absent /\ UNCHANGED <<tree, edits, files>>
    BY <1>8 DEF LookFirst, outside, tables, db
  <2>2. pass.file \in Files /\ pass.at \in Holding
    BY <1>1, <2>1, HeldFile DEF Holding, Looking
  <2>3. PICK read \in {Stat, Read} : pass' = [read EXCEPT !.at = "second"]
    BY <1>8 DEF LookFirst, Step
  <2>4. /\ pass'.at = "second" /\ pass'.file = read.file
        /\ pass'.read = read.read /\ pass'.content = read.content
    BY <1>1, <2>3 DEF Stat, Read, PassType
  <2>5. Seen(pass.file, read.read, read.content) /\ read.file = pass.file
    BY <1>1, <2>1, <2>2, <2>3, SeenNow DEF Stamps
  <2> QED BY <1>1, <2>1, <2>4, <2>5 DEF Stamps, Seen, Holding, Looking
<1>9. CASE LookSecond
  <2>1. pass.at = "second" /\ tree[pass.file] # Absent /\ pass.file \in Files /\ UNCHANGED <<tree, edits, files>>
    BY <1>1, <1>9, LookEffect
  <2>2. CASE pass' = NextFile
    BY <1>1, <1>2, <2>1, <2>2, Unstamped DEF Holding, Looking, Stored
  <2>3. CASE pass' # NextFile
    <3>1. PICK read \in {Stat, Read} : /\ pass'.at \in {"nodes", "delete"} /\ pass'.file = pass.file
                                      /\ pass'.read = read.read /\ pass'.content = read.content
      BY <1>1, <1>9, <2>3, LookEffect
    <3>2. Seen(pass.file, read.read, read.content)
      BY <1>1, <2>1, <3>1, SeenNow DEF Stamps, Holding, Looking
    <3> QED BY <1>1, <2>1, <3>1, <3>2 DEF Stamps, Seen, Holding, Looking
  <2> QED BY <2>2, <2>3
<1>10. CASE StoreDelete
  <2>1. /\ pass.at = "delete" /\ pass'.at = "nodes" /\ DeleteFile(pass.file)
        /\ UNCHANGED <<tree, edits, pass.file, pass.read, pass.content>>
    BY <1>1, <1>10 DEF StoreDelete, Step, PassType, outside
  <2>2. pass.file \in Files
    BY <1>1, <2>1, HeldFile DEF Holding, Looking
  <2> QED BY <1>1, <2>1, <2>2, GoneStamps DEF Holding, Looking
<1>11. CASE StoreNodes \/ StoreEdges \/ StoreIncoming \/ StoreRefs
  <2>1. /\ pass.at \in {"nodes"} \cup Stored /\ pass'.at \in Stored
        /\ UNCHANGED <<tree, edits, files, pass.file, pass.read, pass.content>>
    BY <1>1, <1>11 DEF StoreNodes, StoreEdges, StoreIncoming, StoreRefs, Step, PassType, outside, Stored
  <2> QED BY <1>1, <2>1, Unstamped DEF Holding
<1>12. CASE StoreRow
  <2>1. /\ pass.at = "row" /\ pass' = NextFile /\ UNCHANGED <<tree, edits>>
        /\ files' = [files EXCEPT ![pass.file] = [content |-> pass.content, stamp |-> pass.stat, read |-> pass.read]]
    BY <1>12 DEF StoreRow, Step, outside
  <2>2. pass.file \in Files /\ Seen(pass.file, pass.read, pass.content)
    BY <1>1, <2>1, HeldFile DEF Stamps, Holding, Stored
  <2>3. \A g \in Files : Seen(g, files'[g].read, files'[g].content)
    BY <1>1, <2>1, <2>2 DEF Stamps, Typed
  <2> QED BY <1>1, <1>2, <2>1, <2>3 DEF Stamps, Seen, Holding, Looking, Stored
<1>13. CASE AllStored \/ Batch \/ Link \/ DropResolved \/ DropUnresolved
  <2>1. UNCHANGED <<tree, edits, files>>
    BY <1>13 DEF AllStored, Batch, Link, DropResolved, DropUnresolved, outside, tables, db
  <2>2. pass.at \notin Holding /\ pass'.at \notin Holding /\ pass'.read = pass.read
    <3>1. CASE Batch
      <4>1. \E b, found : Step("resolve", [pass EXCEPT !.at = "link", !.batch = b, !.found = found])
        BY <3>1 DEF Batch
      <4> QED BY <1>1, <4>1 DEF Step, PassType, Holding, Looking, Stored
    <3>2. CASE AllStored \/ Link \/ DropResolved \/ DropUnresolved
      BY <1>1, <3>2 DEF AllStored, Link, DropResolved, DropUnresolved, Step, PassType, Holding, Looking, Stored
    <3> QED BY <1>13, <3>1, <3>2
  <2> QED BY <1>1, <2>1, <2>2, Unstamped DEF Stamps
<1> QED BY <1>4, <1>5, <1>6, <1>7, <1>8, <1>9, <1>10, <1>11, <1>12, <1>13, EditStamps DEF Next, PassStep

-----------------------------------------------------------------------------
(* The turns of a sync.                                                      *)

LEMMA RightStays ==
  ASSUME NEW f, tree'[f] = tree[f], files'[f] = files[f], Right(f)
  PROVE  Right(f)'
BY DEF Right, Agrees, Raced

\* Steps that leave the loops alone, and no row but that of the file in hand.
LEMMA TurnsStay ==
  ASSUME TurnsCome, tree' = tree, \A f \in Files : f # pass.file => files'[f] = files[f],
         UNCHANGED <<pass.kind, pass.still, pass.gone, pass.todo, pass.rows, pass.changed, pass.file>>,
         pass.file \in Files => pass.gone = {} /\ pass.todo = {},
         pass'.at \in Holding => pass.at \in Holding,
         pass'.still /\ pass'.at \in {"delete", "nodes"} \cup Stored => pass'.content = tree[pass.file].content
  PROVE  TurnsCome'
<1> SUFFICES ASSUME pass'.still PROVE TurnsCome'
  BY DEF TurnsCome
<1>1. pass.still
  OBVIOUS
<1>2. \A f \in Files : Turn(f)' \/ Right(f)'
  <2> SUFFICES ASSUME NEW f \in Files PROVE Turn(f)' \/ Right(f)'
    OBVIOUS
  <2>1. Turn(f) \/ Right(f)
    BY <1>1 DEF TurnsCome
  <2>2. CASE f = pass.file
    BY <2>2 DEF Turn
  <2>3. CASE f # pass.file
    BY <2>1, <2>3, RightStays DEF Turn
  <2> QED BY <2>2, <2>3
<1> QED BY <1>1, <1>2 DEF TurnsCome, Present

LEMMA PruneTurns ==
  ASSUME IInv, NEW f \in Files, Prune(f)
  PROVE  TurnsCome'
<1>1. Typed /\ InOrder /\ TurnsCome /\ pass \in PassType
  BY DEF IInv, Typed
<1>2. /\ pass.at = "scan" /\ pass'.at = "scan" /\ f \in pass.gone /\ pass'.gone = pass.gone \ {f} /\ tree' = tree
      /\ UNCHANGED <<pass.kind, pass.still, pass.todo, pass.rows, pass.changed, pass.file>>
  BY <1>1 DEF Prune, Step, PassType, outside
<1> SUFFICES ASSUME pass'.still PROVE TurnsCome'
  BY DEF TurnsCome
<1>3. pass.todo = Present(tree) /\ pass.still
  BY <1>1, <1>2 DEF TurnsCome
<1>4. \A g \in Files : Turn(g)' \/ Right(g)'
  <2> SUFFICES ASSUME NEW g \in Files PROVE Turn(g)' \/ Right(g)'
    OBVIOUS
  <2>1. Turn(g) \/ Right(g)
    BY <1>1, <1>3 DEF TurnsCome
  <2>2. CASE tree[f] = Absent
    <3>1. files' = [files EXCEPT ![f] = Absent]
      BY <2>2 DEF Prune, DeleteFile
    <3>2. CASE g = f
      BY <1>1, <1>2, <2>2, <3>1, <3>2 DEF Right, Agrees, Typed
    <3>3. CASE g # f
      <4>1. files'[g] = files[g]
        BY <1>1, <3>1, <3>3 DEF Typed
      <4> QED BY <1>2, <2>1, <3>3, <4>1, RightStays DEF Turn
    <3> QED BY <3>2, <3>3
  <2>3. CASE tree[f] # Absent
    <3>1. f \in pass.todo
      BY <1>3, <2>3 DEF Present
    <3>2. files' = files
      BY <2>3, <3>1 DEF Prune, tables, db
    <3> QED BY <1>2, <2>1, <2>3, <3>2, RightStays DEF Turn
  <2> QED BY <2>2, <2>3
<1> QED BY <1>1, <1>2, <1>3, <1>4 DEF TurnsCome, Present, Holding, Looking, Stored

\* A file that the stat pre-filter or its content lets pass agrees with its row.
LEMMA CompareTurns ==
  ASSUME IInv, NEW f \in Files, Compare(f)
  PROVE  TurnsCome'
<1>1. Typed /\ InOrder /\ Stamps /\ TurnsCome /\ pass \in PassType
  BY DEF IInv, Typed
<1>2. /\ pass.at = "scan" /\ pass'.at = "scan" /\ f \in pass.todo /\ pass.gone = {} /\ pass'.gone = {}
      /\ pass'.todo = pass.todo \ {f} /\ UNCHANGED <<tree, files>>
      /\ UNCHANGED <<pass.kind, pass.still, pass.rows, pass.file>>
  BY <1>1 DEF Compare, Step, PassType, outside, tables, db
<1>3. pass'.changed = IF /\ tree[f] # Absent /\ ~Same(f)
                         /\ pass.rows[f] = Absent \/ pass.rows[f].content # tree[f].content
                      THEN pass.changed \cup {f} ELSE pass.changed
  BY <1>1 DEF Compare, Step, PassType
<1> SUFFICES ASSUME pass'.still PROVE TurnsCome'
  BY DEF TurnsCome
<1>4. pass.still /\ pass.file = "none" /\ tree[f] # Absent /\ Present(tree)' = Present(tree)
  BY <1>1, <1>2 DEF TurnsCome, InOrder, Holding, Looking, Stored, Present
<1>5. Turn(f)' \/ Right(f)'
  <2>1. CASE f \in pass.changed \/ Right(f)
    BY <1>2, <1>3, <2>1, RightStays DEF Turn
  <2>2. CASE f \notin pass.changed /\ ~Right(f)
    <3>1. files[f] = pass.rows[f]
      BY <1>1, <1>2, <1>4, <2>2, StoreAssumption DEF TurnsCome, Turn
    <3>2. CASE Same(f)
      <4>1. tree[f].stamp = files[f].stamp
        BY <3>1, <3>2 DEF Same
      <4>2. files[f].read <= tree[f].stamp /\ (files[f].read = tree[f].stamp => files[f].content = tree[f].content)
        BY <1>1, <1>4 DEF Stamps, Seen
      <4>3. files[f].read \in Nat /\ files[f].stamp \in Nat
        BY <1>1 DEF Typed, Entry
      <4>4. files[f].read = tree[f].stamp
        BY <2>2, <4>1, <4>2, <4>3 DEF Right, Raced
      <4> QED BY <1>4, <2>2, <4>2, <4>4 DEF Right, Agrees
    <3>3. CASE pass.rows[f] # Absent /\ pass.rows[f].content = tree[f].content
      BY <1>4, <2>2, <3>1, <3>3 DEF Right, Agrees
    <3>4. CASE ~Same(f) /\ (pass.rows[f] = Absent \/ pass.rows[f].content # tree[f].content)
      BY <1>3, <1>4, <3>4 DEF Turn
    <3> QED BY <3>2, <3>3, <3>4
  <2> QED BY <2>1, <2>2
<1>6. \A g \in Files : Turn(g)' \/ Right(g)'
  <2> SUFFICES ASSUME NEW g \in Files, g # f PROVE Turn(g)' \/ Right(g)'
    BY <1>5
  <2>1. Turn(g) \/ Right(g)
    BY <1>1, <1>4 DEF TurnsCome
  <2> QED BY <1>2, <1>3, <2>1, RightStays DEF Turn
<1>7. \A g \in pass'.todo \cup pass'.changed : tree'[g] # Absent
  BY <1>1, <1>2, <1>3, <1>4 DEF TurnsCome
<1> QED BY <1>1, <1>2, <1>4, <1>6, <1>7 DEF TurnsCome, Holding, Looking, Stored

LEMMA PickTurns ==
  ASSUME IInv, NEW f \in Files, Pick(f)
  PROVE  TurnsCome'
<1>1. Typed /\ InOrder /\ TurnsCome /\ pass \in PassType
  BY DEF IInv, Typed
<1>2. /\ pass.at = "scan" /\ pass'.at = "first" /\ f \in pass.changed /\ pass'.changed = pass.changed \ {f}
      /\ pass'.file = f /\ pass'.gone = {} /\ pass'.todo = {} /\ pass.gone = {} /\ pass.todo = {}
      /\ UNCHANGED <<tree, files, pass.kind, pass.still, pass.rows>>
  BY <1>1 DEF Pick, Step, PassType, outside, tables, db
<1> SUFFICES ASSUME pass'.still PROVE TurnsCome'
  BY DEF TurnsCome
<1>3. pass.still /\ pass.file = "none" /\ tree[f] # Absent
  BY <1>1, <1>2 DEF TurnsCome, InOrder, Holding, Looking, Stored
<1>4. \A g \in Files : Turn(g)' \/ Right(g)'
  <2> SUFFICES ASSUME NEW g \in Files PROVE Turn(g)' \/ Right(g)'
    OBVIOUS
  <2>1. Turn(g) \/ Right(g)
    BY <1>1, <1>3 DEF TurnsCome
  <2>2. g # pass.file
    BY <1>3, StoreAssumption
  <2> QED BY <1>2, <2>1, <2>2, RightStays DEF Turn
<1> QED BY <1>1, <1>2, <1>3, <1>4 DEF TurnsCome, Holding, Looking, Stored

\* A file whose turn ends agrees with its row, and no other turn is lost.
LEMMA TurnEnds ==
  ASSUME Typed, InOrder, TurnsCome, tree' = tree, pass.at \in Holding, pass' = NextFile,
         \A f \in Files : f # pass.file => files'[f] = files[f],
         pass.still => \A f \in Files : f = pass.file => Right(f)'
  PROVE  TurnsCome'
<1>1. pass \in PassType /\ pass.file \in Files /\ pass.gone = {} /\ pass.todo = {}
  BY HeldFile DEF Typed
<1>2. /\ pass'.at = "scan" /\ pass'.file = "none"
      /\ UNCHANGED <<pass.kind, pass.still, pass.gone, pass.todo, pass.rows, pass.changed>>
  BY <1>1 DEF NextFile, PassType
<1> SUFFICES ASSUME pass'.still PROVE TurnsCome'
  BY DEF TurnsCome
<1>3. pass.still
  BY <1>2
<1>4. \A g \in Files : Turn(g)' \/ Right(g)'
  <2> SUFFICES ASSUME NEW g \in Files, g # pass.file PROVE Turn(g)' \/ Right(g)'
    BY <1>3
  <2>1. Turn(g) \/ Right(g)
    BY <1>3 DEF TurnsCome
  <2> QED BY <1>2, <2>1, RightStays DEF Turn
<1> QED BY <1>1, <1>2, <1>3, <1>4 DEF TurnsCome, Holding, Looking, Stored

LEMMA LookTurns ==
  ASSUME IInv, LookSecond
  PROVE  TurnsCome'
<1>1. Typed /\ InOrder /\ Stamps /\ TurnsCome /\ pass \in PassType
  BY DEF IInv, Typed
<1>2. pass.at = "second" /\ UNCHANGED <<tree, files>> /\ pass.file \in Files /\ tree[pass.file] # Absent
  BY <1>1, LookEffect
<1>3. pass.gone = {} /\ pass.todo = {} /\ pass.at \in Holding
  BY <1>1, <1>2, HeldFile DEF Holding, Looking
<1>4. pass.still => pass.kind = "sync"
  BY <1>1 DEF TurnsCome
<1>5. Read.content = tree[pass.file].content
  BY <1>1, <1>2, SeenNow
<1>6. CASE pass' = NextFile
  <2>1. ASSUME pass.still PROVE Right(pass.file)
    <3>1. CASE ~Read.content.ok \/ Row.content = Read.content
      BY <1>2, <1>5, <3>1 DEF Right, Agrees, Row
    <3>2. CASE Read.content.ok /\ Row.content # Read.content
      <4>1. pass'.at \in {"nodes", "delete"}
        BY <1>1, <1>4, <2>1, <3>2, LookEffect
      <4>2. NextFile.at = "scan"
        BY <1>1 DEF NextFile, PassType
      <4> QED BY <1>6, <4>1, <4>2
    <3> QED BY <3>1, <3>2
  <2>2. pass.still => \A f \in Files : f = pass.file => Right(f)'
    BY <1>2, <2>1, RightStays
  <2> QED BY <1>1, <1>2, <1>3, <1>6, <2>2, TurnEnds
<1>7. CASE pass' # NextFile
  <2>1. /\ UNCHANGED <<pass.file, pass.kind, pass.still, pass.gone, pass.todo, pass.rows, pass.changed>>
        /\ pass.kind = "sync" => pass'.content = Read.content
    BY <1>1, <1>7, LookEffect
  <2>2. pass'.still => pass'.content = tree[pass.file].content
    BY <1>4, <1>5, <2>1
  <2> QED BY <1>1, <1>2, <1>3, <2>1, <2>2, TurnsStay
<1> QED BY <1>6, <1>7

LEMMA RowTurns ==
  ASSUME IInv, StoreRow
  PROVE  TurnsCome'
<1>1. Typed /\ InOrder /\ TurnsCome /\ pass \in PassType
  BY DEF IInv, Typed
<1>2. /\ pass.at = "row" /\ pass' = NextFile /\ tree' = tree
      /\ files' = [files EXCEPT ![pass.file] = [content |-> pass.content, stamp |-> pass.stat, read |-> pass.read]]
  BY DEF StoreRow, Step, outside
<1>3. pass.at \in Holding /\ pass.file \in Files
  BY <1>1, <1>2, HeldFile DEF Holding, Stored
<1>4. ASSUME pass.still PROVE \A f \in Files : f = pass.file => Right(f)'
  <2>1. pass.content = tree[pass.file].content /\ tree[pass.file] # Absent
    BY <1>1, <1>2, <1>3, <1>4 DEF TurnsCome, Stored
  <2>2. files'[pass.file].content = pass.content
    BY <1>1, <1>2, <1>3 DEF Typed
  <2> QED BY <1>2, <2>1, <2>2 DEF Right, Agrees
<1>5. \A f \in Files : f # pass.file => files'[f] = files[f]
  BY <1>1, <1>2 DEF Typed
<1> QED BY <1>1, <1>2, <1>3, <1>4, <1>5, TurnEnds

LEMMA NextTurns ==
  ASSUME IInv, Next
  PROVE  TurnsCome'
<1>1. Typed /\ KeysHold /\ InOrder /\ Stamps /\ TurnsCome /\ pass \in PassType
  BY DEF IInv, Typed
<1>2. ASSUME NEW f \in Files, Edit(f) PROVE TurnsCome'
  <2>1. pass' = [pass EXCEPT !.still = FALSE]
    BY <1>2, EditEffect
  <2>2. ~pass'.still
    BY <1>1, <2>1 DEF PassType
  <2> QED BY <2>2 DEF TurnsCome
<1>3. CASE BeginSync
  <2>1. /\ pass'.at = "scan" /\ pass'.kind = "sync" /\ pass'.gone = Present(files) /\ pass'.todo = Present(tree)
        /\ pass'.rows = files /\ pass'.changed = {} /\ pass'.file = "none"
    BY <1>3, IdleFields DEF BeginSync, Step, PassType
  <2>2. UNCHANGED <<tree, files>>
    BY <1>3 DEF BeginSync, outside, tables, db
  <2>3. \A f \in Files : Turn(f)' \/ Right(f)'
    BY <2>1, <2>2 DEF Turn, Right, Agrees, Present
  <2> QED BY <2>1, <2>2, <2>3 DEF TurnsCome, Present, Holding, Looking, Stored
<1>4. CASE BeginFull \/ Finish \/ Crash
  <2>1. ~pass'.still
    BY <1>4, IdleFields DEF BeginFull, Finish, Crash, Step, PassType
  <2> QED BY <2>1 DEF TurnsCome
<1>5. CASE Unreadable
  <2>1. pass.at \in Holding /\ tree[pass.file] = Absent /\ pass' = NextFile
    BY <1>5 DEF Unreadable, Holding, Looking
  <2>2. ~pass.still
    BY <1>1, <2>1 DEF TurnsCome
  <2>3. ~pass'.still
    BY <1>1, <2>1, <2>2 DEF NextFile, PassType
  <2> QED BY <2>3 DEF TurnsCome
<1>6. CASE LookFirst
  <2>1. /\ pass.at = "first" /\ pass'.at = "second" /\ UNCHANGED <<tree, files>>
        /\ UNCHANGED <<pass.kind, pass.still, pass.gone, pass.todo, pass.rows, pass.changed, pass.file>>
    BY <1>1, <1>6 DEF LookFirst, Step, Stat, Read, PassType, outside, tables, db
  <2>2. pass.gone = {} /\ pass.todo = {}
    BY <1>1, <2>1, HeldFile DEF Holding, Looking
  <2> QED BY <1>1, <2>1, <2>2, TurnsStay DEF Holding, Looking, Stored
<1>7. CASE StoreDelete \/ StoreNodes \/ StoreEdges \/ StoreIncoming \/ StoreRefs
  <2>1. /\ pass.at \in {"delete", "nodes"} \cup Stored /\ tree' = tree
        /\ UNCHANGED <<pass.kind, pass.still, pass.gone, pass.todo, pass.rows, pass.changed, pass.file, pass.content>>
    BY <1>1, <1>7 DEF StoreDelete, StoreNodes, StoreEdges, StoreIncoming, StoreRefs, Step, PassType, outside, Stored
  <2>2. \A f \in Files : f # pass.file => files'[f] = files[f]
    BY <1>1, <1>7 DEF StoreDelete, DeleteFile, StoreNodes, StoreEdges, StoreIncoming, StoreRefs, Typed
  <2>3. pass.gone = {} /\ pass.todo = {} /\ pass.at \in Holding
    BY <1>1, <2>1, HeldFile DEF Holding, Looking
  <2>4. pass.still => pass.content = tree[pass.file].content
    BY <1>1, <2>1 DEF TurnsCome
  <2> QED BY <1>1, <2>1, <2>2, <2>3, <2>4, TurnsStay
<1>8. CASE AllStored \/ Batch \/ Link \/ DropResolved \/ DropUnresolved
  <2>1. UNCHANGED <<tree, files>>
    BY <1>8 DEF AllStored, Batch, Link, DropResolved, DropUnresolved, outside, tables, db
  <2>2. /\ pass.at \notin Holding /\ pass'.at \notin Holding
        /\ UNCHANGED <<pass.kind, pass.still, pass.gone, pass.todo, pass.rows, pass.changed, pass.file>>
    <3>1. CASE Batch
      <4>1. \E b, found : Step("resolve", [pass EXCEPT !.at = "link", !.batch = b, !.found = found])
        BY <3>1 DEF Batch
      <4> QED BY <1>1, <4>1 DEF Step, PassType, Holding, Looking, Stored
    <3>2. CASE AllStored \/ Link \/ DropResolved \/ DropUnresolved
      BY <1>1, <3>2 DEF AllStored, Link, DropResolved, DropUnresolved, Step, PassType, Holding, Looking, Stored
    <3> QED BY <1>8, <3>1, <3>2
  <2>3. pass.file = "none"
    BY <1>1, <2>2 DEF InOrder
  <2> QED BY <1>1, <2>1, <2>2, <2>3, TurnsStay, StoreAssumption DEF Holding, Looking
<1> QED BY <1>2, <1>3, <1>4, <1>5, <1>6, <1>7, <1>8, PruneTurns, CompareTurns, PickTurns, LookTurns, RowTurns
        DEF Next, PassStep

-----------------------------------------------------------------------------
(* A sync that has ended.                                                    *)

LEMMA NextSettled ==
  ASSUME IInv, Next
  PROVE  SettledRight'
<1>1. Typed /\ InOrder /\ TurnsCome /\ SettledRight
  BY DEF IInv
<1>2. ASSUME NEW f \in Files, Edit(f) PROVE ~settled'
  BY <1>2, EditEffect, Zenon
<1>3. CASE BeginSync \/ BeginFull
  BY <1>3, Zenon DEF BeginSync, BeginFull, SettledRight
<1>4. CASE Finish
  <2> SUFFICES ASSUME settled' PROVE pass'.at = "idle" /\ \A f \in Files : Right(f)'
    BY DEF SettledRight
  <2>1. pass.still
    BY <1>4, Zenon DEF Finish
  <2>2. pass.at = "resolve" /\ pass' = Idle
    BY <1>4 DEF Finish, Step
  <2>3. pass.gone = {} /\ pass.todo = {} /\ pass.changed = {} /\ pass.file = "none"
    BY <1>1, <2>2 DEF InOrder, Holding, Looking, Stored
  <2>4. \A f \in Files : Right(f)
    BY <1>1, <2>1, <2>3, StoreAssumption DEF TurnsCome, Turn
  <2>5. UNCHANGED <<tree, files>>
    BY <1>4 DEF Finish, outside, tables, db
  <2> QED BY <2>2, <2>4, <2>5, IdleFields, RightStays
<1>5. ASSUME pass.at # "idle", settled' = settled PROVE SettledRight'
  <2>1. ~settled
    BY <1>1, <1>5 DEF SettledRight
  <2> QED BY <1>5, <2>1, Zenon DEF SettledRight
<1>6. ASSUME NEW f \in Files, Prune(f) \/ Compare(f) \/ Pick(f) PROVE pass.at # "idle" /\ settled' = settled
  BY <1>6 DEF Prune, Compare, Pick, Step
<1>7. CASE Unreadable \/ LookFirst \/ LookSecond \/ StoreDelete \/ StoreNodes \/ StoreEdges \/ StoreIncoming
             \/ StoreRefs \/ StoreRow \/ AllStored \/ Link \/ DropResolved \/ DropUnresolved \/ Crash
  <2>1. pass.at # "idle" /\ settled' = settled
    BY <1>7 DEF Unreadable, LookFirst, LookSecond, StoreDelete, StoreNodes, StoreEdges, StoreIncoming, StoreRefs,
                StoreRow, AllStored, Link, DropResolved, DropUnresolved, Crash, Step
  <2> QED BY <1>5, <2>1
<1>8. CASE Batch
  <2>1. pass.at # "idle" /\ settled' = settled
    BY <1>8 DEF Batch, Step
  <2> QED BY <1>5, <2>1
<1>9. ASSUME NEW f \in Files, Edit(f) PROVE SettledRight'
  BY <1>2, <1>9, Zenon DEF SettledRight
<1>10. ASSUME NEW f \in Files, Prune(f) \/ Compare(f) \/ Pick(f) PROVE SettledRight'
  BY <1>5, <1>6, <1>10
<1> QED BY <1>3, <1>4, <1>7, <1>8, <1>9, <1>10 DEF Next, PassStep

-----------------------------------------------------------------------------
(* The theorems.                                                             *)

LEMMA InitIInv == Init => IInv
<1> SUFFICES ASSUME Init PROVE IInv
  OBVIOUS
<1>1. Typed
  BY InitTyped
<1>2. pass = Idle /\ nodes = {} /\ edges = {} /\ refs = {} /\ links = {} /\ edits = 1
  BY DEF Init
<1>3. KeysHold /\ InOrder
  BY <1>2, IdleFields DEF KeysHold, InOrder, Holding, Looking, Stored
<1>4. \A f \in Files : files[f] = Absent
  BY DEF Init
<1>5. Matched
  BY <1>2, <1>4, IdleFields DEF Matched, OfFile, Vouched, Stored
<1>6. Kept
  BY <1>2, IdleFields DEF Kept
<1>7. Stamps
  <2>1. \A f \in Files : tree[f] = Absent \/ tree[f].stamp = 1
    <3>1. tree \in [Files -> {Absent} \cup {[content |-> c, stamp |-> 1, read |-> 1] : c \in UNION {Contents[f] : f \in Files}}]
      BY DEF Init
    <3> QED BY <3>1
  <2>2. \A f \in Files : files[f].read = 0
    BY <1>4, Contented
  <2>3. pass.read = 0 /\ pass.at \notin Holding
    BY <1>2, IdleFields DEF Idle, Holding, Looking, Stored
  <2> QED BY <1>2, <2>1, <2>2, <2>3 DEF Stamps, Seen
<1>8. TurnsCome
  BY <1>2, IdleFields DEF TurnsCome
<1>9. SettledRight
  BY Zenon DEF Init, SettledRight
<1> QED BY <1>1, <1>3, <1>5, <1>6, <1>7, <1>8, <1>9 DEF IInv

LEMMA StutterIInv == IInv /\ UNCHANGED vars => IInv'
<1> SUFFICES ASSUME IInv, UNCHANGED vars PROVE IInv'
  OBVIOUS
<1>1. Typed' /\ KeysHold' /\ InOrder' /\ Matched'
  BY DEF IInv, vars, Typed, KeysHold, InOrder, Row, Matched, OfFile, Vouched, NodesOf, ModuleNode, Declared
<1>2. Kept'
  BY DEF IInv, vars, Kept, Incoming, Waiting, Waits, Linked, Current, ModuleNode, Declared
<1>3. Stamps'
  BY DEF IInv, vars, Stamps, Seen
<1>4. TurnsCome'
  BY DEF IInv, vars, TurnsCome, Present, Turn, Right, Agrees, Raced
<1>5. SettledRight'
  BY DEF IInv, vars, SettledRight, Right, Agrees, Raced
<1> QED BY <1>1, <1>2, <1>3, <1>4, <1>5 DEF IInv

LEMMA Inductive == Spec => []IInv
<1>1. Init => IInv
  BY InitIInv
<1>2. IInv /\ [Next]_vars => IInv'
  <2>1. ASSUME IInv, Next PROVE IInv'
    <3>1. Typed /\ InOrder
      BY <2>1 DEF IInv
    <3>2. Typed'
      BY <2>1, <3>1, NextTyped
    <3> QED BY <2>1, <3>2, NextKeys, NextInOrder, NextMatched, NextKept, NextStamps, NextTurns, NextSettled DEF IInv
  <2> QED BY <2>1, StutterIInv
<1> QED BY <1>1, <1>2, PTL DEF Spec

\* The tables, the tree and the pass hold what they are declared to hold, and the
\* foreign keys of schema.sql stand between any two statements.
THEOREM TypeCorrect == Spec => [](Typed /\ KeysHold)
<1>1. IInv => Typed /\ KeysHold
  BY DEF IInv
<1> QED BY <1>1, Inductive, PTL

\* The nodes of a file are those its row vouches for, through every order of
\* storeExtractionResult's statements, edits and crashes, but for torn files.
THEOREM NodesCorrect == Spec => []NodesMatchRows
<1>1. IInv => NodesMatchRows
  BY DEF IInv, NodesMatchRows, Matched, OfFile, Vouched, InHand
<1> QED BY <1>1, Inductive, PTL

\* A call linked to a declaration of another file survives every new parse of that
\* file that keeps the name (storeExtractionResult's incoming edges, issue #899).
THEOREM LinksCorrect == Spec => []LinksKept
<1>1. ASSUME IInv PROVE LinksKept
  <2> SUFFICES ASSUME NEW l \in links, ~InHand(l[3])
               PROVE  \E e \in edges : /\ e.kind = "calls" /\ e.source = ModuleNode(l[1])
                                       /\ e.target \in Declared(l[3], files[l[3]].content) /\ e.target.name = l[2]
    BY DEF LinksKept
  <2>1. ~Waiting(l) /\ Current(l[3]) = files[l[3]].content
    BY DEF InHand, Waiting, Current
  <2> QED BY <1>1, <2>1 DEF IInv, Kept, Linked
<1> QED BY <1>1, Inductive, PTL

\* A sync over a tree nobody edits leaves every file agreeing with its row, but for
\* a row a full pass wrote of a file that changed between its read and its stat.
THEOREM SyncCorrect == Spec => []SyncFindsAll
<1>1. IInv => SyncFindsAll
  BY DEF IInv, SettledRight, SyncFindsAll, Right
<1> QED BY <1>1, Inductive, PTL

=============================================================================
