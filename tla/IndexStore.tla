------------------------------ MODULE IndexStore ------------------------------
(***************************************************************************)
(* The index of a project, .codegraph/codegraph.db, and the pass of the    *)
(* engine over a working tree that others keep editing: the full pass      *)
(* (indexAll) or the incremental one (sync) of extraction/index.ts, then   *)
(* resolveAndPersistBatched of resolution/index.ts, over the tables of     *)
(* db/queries.ts and db/schema.sql.                                        *)
(*                                                                         *)
(* Each statement or transaction that commits is a step, and so is each    *)
(* look at the file system: between any two of them a file may change, and *)
(* the process may die, keeping what was committed.                        *)
(*                                                                         *)
(* A file's content is reduced to the names it declares, the line they are *)
(* on and the names it calls, all from its module level.  A declaration's  *)
(* id contains its line, as generateNodeId's does.  A stamp stands for a   *)
(* file's size and mtime: every write gives a new one (the code documents  *)
(* that a write which changes neither goes unseen).                        *)
(***************************************************************************)
EXTENDS Naturals, FiniteSets

CONSTANTS
  Files,       \* paths in the project
  Names,       \* names of functions
  Chained,     \* the names called as `f().m`, for the conformance pass
  Contents,    \* the contents each file may have
  BatchSize,   \* batchSize of resolveAndPersistBatched
  MaxEdits,    \* bound: writes and removals of files
  MaxCrashes   \* bound: deaths of the process

ASSUME StoreAssumption ==
  /\ Chained \subseteq Names
  /\ Contents \in [Files -> SUBSET [ok : BOOLEAN, line : Nat \ {0},
                                     defs : SUBSET Names, calls : SUBSET Names]]
  /\ BatchSize \in Nat \ {0} /\ MaxEdits \in Nat /\ MaxCrashes \in Nat
  /\ "module" \notin Names /\ "none" \notin Files

VARIABLES
  tree,      \* the working tree: a content and a stamp, or Absent
  files,     \* table files: the content stored (its hash) and its stamp, or Absent
  nodes,     \* table nodes, by id
  edges,     \* table edges
  refs,      \* table unresolved_refs
  deferred,  \* deferredChainRefs, in the memory of the process
  pass,      \* the pass under way
  edits,     \* edits so far
  crashes,   \* deaths so far
  torn,      \* history: files whose store was cut since they were last deleted
  links,     \* history: calls linked by name, <<caller's file, name, callee's file>>, but
             \* to a torn file
  settled    \* history: the last sync ended, and no file changed since it began

db == <<files, nodes, edges, refs>>

vars == <<tree, files, nodes, edges, refs, deferred, pass, edits, crashes, torn, links, settled>>

-----------------------------------------------------------------------------
(* Rows                                                                    *)

NoContent == [ok |-> FALSE, line |-> 0, defs |-> {}, calls |-> {}]

\* read is history: the stamp the content was read under.
Absent == [content |-> NoContent, stamp |-> 0, read |-> 0]

Present(table) == {f \in Files : table[f] # Absent}

ModuleNode(f) == [file |-> f, name |-> "module", line |-> 1]

Declared(f, c) == {[file |-> f, name |-> n, line |-> c.line] : n \in c.defs}

NodesOf(f, c) == {ModuleNode(f)} \cup Declared(f, c)

ContainsOf(f, c) == {[source |-> ModuleNode(f), target |-> n, kind |-> "contains"] : n \in Declared(f, c)}

RefsOf(f, c) == {[from |-> ModuleNode(f), name |-> n] : n \in c.calls}

\* Deleting a node deletes its edges and its references (ON DELETE CASCADE).
EdgesOff(dead, table) == {e \in table : e.source \notin dead /\ e.target \notin dead}

RefsOff(dead, table) == {r \in table : r.from \notin dead}

\* deletes the row alone
BadDeleteFile(f) ==
  /\ files' = [files EXCEPT ![f] = Absent]
  /\ torn' = torn \ {f}
  /\ UNCHANGED <<nodes, edges, refs>>

\* deleteFile: the file's nodes and its row, in one transaction.
DeleteFile(f) ==
  LET dead == {n \in nodes : n.file = f} IN
  /\ nodes' = nodes \ dead
  /\ edges' = EdgesOff(dead, edges)
  /\ refs' = RefsOff(dead, refs)
  /\ files' = [files EXCEPT ![f] = Absent]
  /\ torn' = torn \ {f}

\* insertNodes: INSERT OR REPLACE, and what is replaced is deleted first.
InsertNodes(new) ==
  LET dead == nodes \cap new IN
  /\ nodes' = nodes \cup new
  /\ edges' = EdgesOff(dead, edges)
  /\ refs' = RefsOff(dead, refs)

\* insertEdges drops the edges one end of which is not in the table; the index
\* on (source, target, kind, line, col) makes the table a set.
WithEnds(new) == {e \in new : e.source \in nodes /\ e.target \in nodes}

\* getCrossFileIncomingEdgesWithTarget: the calls into the file from others.
Incoming(f) == {e \in edges : e.target.file = f /\ e.source.file # f /\ e.kind # "contains"}

-----------------------------------------------------------------------------
(* The working tree                                                        *)

\* A write or a removal by anyone: git, an editor, a build.
Edit(f) ==
  /\ edits < MaxEdits
  /\ edits' = edits + 1
  /\ tree' \in {[tree EXCEPT ![f] = [content |-> c, stamp |-> edits + 1, read |-> edits + 1]] :
                  c \in Contents[f]}
                 \cup {[tree EXCEPT ![f] = Absent]}
  /\ tree' # tree
  /\ settled' = FALSE
  /\ pass' = [pass EXCEPT !.still = FALSE]
  /\ UNCHANGED <<db, deferred, crashes, torn, links>>

-----------------------------------------------------------------------------
(* A pass finds the files to index                                         *)

\* still: no file changed since it began; gone, todo, rows, changed: what is left
\* of the loops of sync; file, stat, content, in: the file in hand, what was read
\* of it, and its incoming calls; batch, found: references in hand, their edges.
Idle == [at |-> "idle", kind |-> "sync", still |-> FALSE, gone |-> {}, todo |-> {},
         rows |-> [f \in Files |-> Absent], changed |-> {}, file |-> "none",
         stat |-> 0, content |-> NoContent, read |-> 0, in |-> {}, batch |-> {}, found |-> {}]

outside == <<tree, edits, crashes>>

tables == <<db, torn, links>>

Step(from, to) ==
  /\ pass.at = from
  /\ pass' = to

\* sync: the scan, the snapshot of the table, and the removals it calls for.
BeginSync ==
  /\ Step("idle", [Idle EXCEPT !.at = "scan", !.still = TRUE,
                               !.gone = Present(files), !.todo = Present(tree), !.rows = files])
  /\ settled' = FALSE
  /\ UNCHANGED <<outside, tables, deferred>>

\* indexAll: every file of the scan is read, nothing is removed.
BeginFull ==
  /\ Step("idle", [Idle EXCEPT !.at = "scan", !.kind = "full", !.changed = Present(tree)])
  /\ settled' = FALSE
  /\ UNCHANGED <<outside, tables, deferred>>

\* The removals loop: tracked, and not in the scan or not on disk any more.
Prune(f) ==
  /\ f \in pass.gone
  /\ Step("scan", [pass EXCEPT !.gone = @ \ {f}])
  /\ IF f \notin pass.todo \/ tree[f] = Absent
       THEN /\ DeleteFile(f)
            /\ links' = {l \in links : l[1] # f /\ l[3] # f}
       ELSE UNCHANGED tables
  /\ UNCHANGED <<outside, deferred, settled>>

\* trusts the snapshot's stamp without a look at the file
BadSame(f) == pass.rows[f] # Absent

\* The stat pre-filter, against the snapshot of the table.
Same(f) == pass.rows[f] # Absent /\ tree[f].stamp = pass.rows[f].stamp

\* The adds and modifications loop.  A file that cannot be read is skipped.
Compare(f) ==
  /\ pass.gone = {} /\ f \in pass.todo
  /\ Step("scan", [pass EXCEPT
       !.todo = @ \ {f},
       !.changed = IF /\ tree[f] # Absent
                      /\ ~Same(f)
                      /\ pass.rows[f] = Absent \/ pass.rows[f].content # tree[f].content
                   THEN @ \cup {f} ELSE @])
  /\ UNCHANGED <<outside, tables, deferred, settled>>

-----------------------------------------------------------------------------
(* A file is read and stored                                               *)

Stat == [pass EXCEPT !.stat = tree[pass.file].stamp]

Read == [pass EXCEPT !.content = tree[pass.file].content, !.read = tree[pass.file].stamp]

Pick(f) ==
  /\ pass.gone = {} /\ pass.todo = {} /\ f \in pass.changed
  /\ Step("scan", [pass EXCEPT !.changed = @ \ {f}, !.file = f, !.at = "first"])
  /\ UNCHANGED <<outside, tables, deferred, settled>>

NextFile == [pass EXCEPT !.at = "scan", !.file = "none", !.stat = 0, !.content = NoContent,
                         !.read = 0, !.in = {}]

\* tries again until the file can be read
BadUnreadable ==
  /\ pass.at \in {"first", "second"}
  /\ tree[pass.file] = Absent
  /\ pass' = [pass EXCEPT !.at = IF @ = "first" THEN "second" ELSE "first"]
  /\ UNCHANGED <<outside, tables, deferred, settled>>

\* The file has gone since the scan: read_error, and nothing is stored.
Unreadable ==
  /\ pass.at \in {"first", "second"}
  /\ tree[pass.file] = Absent
  /\ pass' = NextFile
  /\ UNCHANGED <<outside, tables, deferred, settled>>

\* indexFile of a sync has the stat first; indexAll's batch reader the content.
LookFirst ==
  /\ pass.at = "first" /\ tree[pass.file] # Absent
  /\ Step("first", [(IF pass.kind = "sync" THEN Stat ELSE Read) EXCEPT !.at = "second"])
  /\ UNCHANGED <<outside, tables, deferred, settled>>

Row == files[pass.file]

\* Not stored: no node and some error, or the content of the row.  Otherwise
\* the incoming calls of a tracked file are noted, and its rows deleted.
ToStore(read) ==
  IF ~read.content.ok \/ Row.content = read.content THEN NextFile
  ELSE IF Row = Absent THEN [read EXCEPT !.at = "nodes"]
  ELSE [read EXCEPT !.at = "delete", !.in = Incoming(pass.file)]

LookSecond ==
  /\ pass.at = "second" /\ tree[pass.file] # Absent
  /\ Step("second", ToStore(IF pass.kind = "sync" THEN Read ELSE Stat))
  /\ UNCHANGED <<outside, tables, deferred, settled>>

StoreDelete ==
  /\ Step("delete", [pass EXCEPT !.at = "nodes"])
  /\ DeleteFile(pass.file)
  /\ links' = {l \in links : l[1] # pass.file}
  /\ UNCHANGED <<outside, deferred, settled>>

StoreNodes ==
  /\ Step("nodes", [pass EXCEPT !.at = "edges"])
  /\ InsertNodes(NodesOf(pass.file, pass.content))
  /\ links' = {l \in links : l[1] # pass.file}
  /\ UNCHANGED <<outside, files, deferred, torn, settled>>

StoreEdges ==
  /\ Step("edges", [pass EXCEPT !.at = "relink"])
  /\ edges' = edges \cup WithEnds(ContainsOf(pass.file, pass.content))
  /\ UNCHANGED <<outside, files, nodes, refs, deferred, torn, links, settled>>

\* puts the calls back by the id their target had
BadRetargeted == pass.in

\* The incoming calls, to the new ids: by kind and name, for the line may differ.
Retargeted ==
  UNION {{[e EXCEPT !.target = n] :
            n \in {d \in Declared(pass.file, pass.content) : d.name = e.target.name}} : e \in pass.in}

StoreIncoming ==
  /\ Step("relink", [pass EXCEPT !.at = "refs"])
  /\ edges' = edges \cup WithEnds(Retargeted)
  /\ links' = {l \in links : l[3] = pass.file => l[2] \in pass.content.defs}
  /\ UNCHANGED <<outside, files, nodes, refs, deferred, torn, settled>>

StoreRefs ==
  /\ Step("refs", [pass EXCEPT !.at = "row"])
  /\ refs' = refs \cup RefsOf(pass.file, pass.content)
  /\ UNCHANGED <<outside, files, nodes, edges, deferred, torn, links, settled>>

StoreRow ==
  /\ Step("row", NextFile)
  /\ files' = [files EXCEPT ![pass.file] =
       [content |-> pass.content, stamp |-> pass.stat, read |-> pass.read]]
  /\ UNCHANGED <<outside, nodes, edges, refs, deferred, torn, links, settled>>

-----------------------------------------------------------------------------
(* Resolution, in batches of references                                    *)

AllStored ==
  /\ pass.gone = {} /\ pass.todo = {} /\ pass.changed = {}
  /\ Step("scan", [pass EXCEPT !.at = "resolve"])
  /\ UNCHANGED <<outside, tables, deferred, settled>>

\* The nodes the first resolution pass may link a reference to: which of several
\* is the matter of the name matcher.
Candidates(r) == IF r.name \in Chained THEN {} ELSE {n \in nodes : n.name = r.name}

Resolvable(batch) == {r \in batch : Candidates(r) # {}}

Lesser(m, n) == IF m < n THEN m ELSE n

\* The rows a batch reads are the first the table yields.  A chained call that
\* does not resolve is kept in memory.
Batch ==
  \E batch \in SUBSET refs :
    /\ refs # {}
    /\ Cardinality(batch) = Lesser(BatchSize, Cardinality(refs))
    /\ \E target \in [Resolvable(batch) -> nodes] :
         /\ \A r \in Resolvable(batch) : target[r] \in Candidates(r)
         /\ Step("resolve", [pass EXCEPT
              !.at = "link", !.batch = batch,
              !.found = {[source |-> r.from, target |-> target[r], kind |-> "calls"] :
                           r \in Resolvable(batch)}])
    /\ deferred' = deferred \cup {r \in batch : r.name \in Chained}
    /\ UNCHANGED <<outside, tables, settled>>

Link ==
  /\ Step("link", [pass EXCEPT !.at = "resolved"])
  /\ edges' = edges \cup WithEnds(pass.found)
  /\ links' = links \cup 
       {<<e.source.file, e.target.name, e.target.file>> :
          e \in {x \in pass.found : x.target.file \notin torn}}
  /\ UNCHANGED <<outside, files, nodes, refs, deferred, torn, settled>>

DropResolved ==
  /\ Step("resolved", [pass EXCEPT !.at = "unresolved", !.found = {}])
  /\ refs' = refs \ Resolvable(pass.batch)
  /\ UNCHANGED <<outside, files, nodes, edges, deferred, torn, links, settled>>

\* References that did not resolve are deleted too, so the table shrinks, and
\* the guard against a batch that makes no progress does not strike.
DropUnresolved ==
  /\ Step("unresolved", [pass EXCEPT !.at = "resolve", !.batch = {}])
  /\ refs' = refs \ pass.batch
  /\ UNCHANGED <<outside, files, nodes, edges, deferred, torn, links, settled>>

\* The engine is closed after a pass; the deferred calls go with it.
Finish ==
  /\ refs = {}
  /\ Step("resolve", Idle)
  /\ settled' = (pass.kind = "sync" /\ pass.still)
  /\ UNCHANGED <<outside, tables, deferred>>

-----------------------------------------------------------------------------

\* The process dies, or the resolution throws: what was committed stays.
Crash ==
  /\ pass.at # "idle"
  /\ crashes < MaxCrashes
  /\ crashes' = crashes + 1
  /\ pass' = Idle
  /\ deferred' = {}
  /\ torn' = IF pass.at \in {"edges", "relink", "refs", "row"} THEN torn \cup {pass.file} ELSE torn
  /\ links' = IF pass.at \in {"nodes", "edges", "relink", "refs", "row"}
                THEN {l \in links : l[3] # pass.file} ELSE links
  /\ UNCHANGED <<tree, edits, db, settled>>

Init ==
  /\ tree \in [Files -> {Absent} \cup
                 {[content |-> c, stamp |-> 1, read |-> 1] : c \in UNION {Contents[f] : f \in Files}}]
  /\ \A f \in Files : tree[f] = Absent \/ tree[f].content \in Contents[f]
  /\ files = [f \in Files |-> Absent]
  /\ nodes = {} /\ edges = {} /\ refs = {} /\ deferred = {}
  /\ pass = Idle
  /\ edits = 1 /\ crashes = 0
  /\ torn = {} /\ links = {} /\ settled = FALSE

PassStep ==
  \/ \E f \in Files : Prune(f) \/ Compare(f) \/ Pick(f)
  \/ Unreadable \/ LookFirst \/ LookSecond
  \/ StoreDelete \/ StoreNodes \/ StoreEdges \/ StoreIncoming \/ StoreRefs \/ StoreRow
  \/ AllStored \/ Batch \/ Link \/ DropResolved \/ DropUnresolved \/ Finish

Next ==
  \/ \E f \in Files : Edit(f)
  \/ BeginSync \/ BeginFull
  \/ PassStep
  \/ Crash

\* A pass goes on while its process lives; polling and webhooks ask for syncs for
\* ever, among other passes.
Fairness == WF_vars(PassStep) /\ SF_vars(BeginSync)

Spec == Init /\ [][Next]_vars /\ Fairness

-----------------------------------------------------------------------------

InHand(f) == f = pass.file

\* The nodes of a file are those of the content its row vouches for, whatever the
\* order of statements and crashes, unless a crash has cut its store: then it has
\* nodes of a content no row knows of, which no later store deletes.
NodesMatchRows ==
  \A f \in Files : f \notin torn /\ ~InHand(f) =>
    {n \in nodes : n.file = f} =
      IF files[f] = Absent THEN {} ELSE NodesOf(f, files[f].content)

\* A call that was linked is still in the graph, to the id its target has now,
\* as long as the caller and the name are: storing the callee again, with its
\* lines shifted, costs its callers no edge (issue #899).
LinksKept ==
  \A l \in links : ~InHand(l[3]) =>
    \E e \in edges : /\ e.kind = "calls" /\ e.source = ModuleNode(l[1])
                     /\ e.target \in Declared(l[3], files[l[3]].content)
                     /\ e.target.name = l[2]

\* Each file is absent on both sides or has its content in its row; a content
\* that does not parse leaves the row as it was.
Agrees(f) ==
  IF tree[f] = Absent THEN files[f] = Absent
  ELSE tree[f].content.ok => files[f].content = tree[f].content

Raced(f) == files[f].read < files[f].stamp

\* A sync that ends with no file changed since it began leaves a row per file of
\* the tree, with its content; except those whose row has a stamp younger than its
\* content, which a full pass writes of a file that changes as it is read.
SyncFindsAll == settled => \A f \in Files : Agrees(f) \/ Raced(f)

\* However often the process dies and files change, the index comes to agree with
\* the tree once both stop, whatever passes ran in between.
CatchesUp == <>[](\A f \in Files : Agrees(f) \/ Raced(f))

=============================================================================
