----------------------------- MODULE Synthesizer -----------------------------
(* The rounds of edge synthesis (synthesizeCallbackEdges, called at the end   *)
(* of every index and sync job by resolveAndPersistBatched) over a graph that *)
(* is indexed again file by file.  A round inserts the members of Go types,   *)
(* then the interfaces they satisfy, then runs 36 passes with a yield after   *)
(* each, and inserts what they found in one transaction at the end.  A pass   *)
(* that throws ends the round without an error; a crash ends the job.         *)
EXTENDS SynthTables

CONSTANTS Projects,    \* [rows, text, links] of small projects, every file as first written
          MaxShift,    \* how many lines are added above a file
          Removable    \* rows a commit takes out, and another puts back

VARIABLES proj,        \* the project under index
          disk,        \* [shift, cut] of each file: lines added above it, rows taken out
          stored,      \* what each file was when it was stored, Never before
          rows, links, \* the nodes and edges tables
          refs,        \* files whose references wait to be resolved
          phase,       \* of the job: "idle", "store", "resolve", "contains", ...
          pass,        \* the pass that runs next
          found,       \* edges the passes of this round found
          complete,    \* the last job's round reached its end
          unasked      \* history: references whose target was not there when they were resolved, or has gone since

vars == <<proj, disk, stored, rows, links, refs, phase, pass, found, complete, unasked>>

FileSet == DOMAIN proj.text
Never == [shift |-> -1, cut |-> {}]
Cuts == ToSet(proj.rows) \cap Removable
\* What is written inside a row goes with it; its lines stay, empty.
Kept(f, from, to) == \A c \in disk[f].cut : ~(c.from <= from /\ to <= c.to)
Parsed(f) ==
    LET own == SelectSeq(proj.rows, LAMBDA n : n.file = f /\ Kept(f, n.from, n.to)) d == disk[f].shift
    IN  [i \in DOMAIN own |-> [own[i] EXCEPT !.from = @ + d, !.to = @ + d]]
Text == [f \in FileSet |->
    LET own == SelectSeq(proj.text[f], LAMBDA m : Kept(f, m.at, m.at)) d == disk[f].shift
    IN  [i \in DOMAIN own |-> [own[i] EXCEPT !.at = @ + d]]]
\* Where an edge of the project lies now: those within a file the extractor finds,
\* the others are references, each to that target or to none.
MovedId(id) == <<id[1], id[2], id[3], id[4] + disk[id[1]].shift>>
Placed(es) == [i \in DOMAIN es |->
    [es[i] EXCEPT !.source = MovedId(@), !.target = MovedId(@), !.line = @ + disk[es[i].source[1]].shift]]
Extracted(f) == Placed(SelectSeq(proj.links, LAMBDA e : e.source[1] = f /\ e.kind = "contains"))
Referenced(fs) == SelectSeq(proj.links, LAMBDA e : e.source[1] \in fs /\ e.kind # "contains")
Absent(id) == \E c \in disk[id[1]].cut : \E n \in ToSet(proj.rows) : Id(n) = id /\ c.from <= n.from /\ n.to <= c.to

\* The passes read the tables and the text on disk of the files in the tables.
Seen(rs, ls) == [rows |-> rs, links |-> ls, text |-> Text]

Passes == 36
Result(k, p) ==
    CASE k = 1 -> FieldChannel(p)     [] k = 2 -> ClosureCollection(p) [] k = 3 -> EventEmitter(p)
      [] k = 4 -> ReactRender(p)      [] k = 5 -> JsxChild(p)          [] k = 6 -> VueTemplate(p)
      [] k = 7 -> SvelteLoad(p)       [] k = 8 -> PascalForm(p)        [] k = 9 -> FlutterBuild(p)
      [] k = 10 -> ArkuiState(p)      [] k = 11 -> ArkuiEmitter(p)     [] k = 12 -> ArkuiRouter(p)
      [] k = 13 -> CppOverride(p)     [] k = 14 -> InterfaceOverride(p) [] k = 15 -> ExpectActual(p)
      [] k = 16 -> GrpcStub(p)        [] k = 17 -> RnEvent(p)          [] k = 18 -> FabricNative(p)
      [] k = 19 -> ExpoPlatforms(p)   [] k = 20 -> NativePlatforms(p)  [] k = 21 -> Mybatis(p)
      [] k = 22 -> GinChain(p)        [] k = 23 -> ReduxThunk(p)       [] k = 24 -> ObjectRegistry(p)
      [] k = 25 -> RtkQuery(p)        [] k = 26 -> PiniaStore(p)       [] k = 27 -> Vuex(p)
      [] k = 28 -> Celery(p)          [] k = 29 -> Spring(p)           [] k = 30 -> Mediatr(p)
      [] k = 31 -> Sidekiq(p)         [] k = 32 -> Erlang(p)           [] k = 33 -> Laravel(p)
      [] k = 34 -> FnPointers(p)      [] k = 35 -> GoframeRoute(p)     [] k = 36 -> NixOptions(p)

\* INSERT OR IGNORE of the edges whose ends exist.
Key(e) == <<e.source, e.target, e.kind, e.line>>
Insert(rs, ls, es) ==
    LET ids == {Id(n) : n \in ToSet(rs)}
    IN  ls \o NewBy(Key, SelectSeq(es, LAMBDA e : {e.source, e.target} \subseteq ids), ls)

-----------------------------------------------------------------------------
Init ==
    /\ proj \in Projects
    /\ disk = [f \in FileSet |-> [shift |-> 0, cut |-> {}]]
    /\ stored = [f \in FileSet |-> Never]
    /\ rows = <<>> /\ links = <<>> /\ refs = {}
    /\ phase = "idle" /\ pass = 1 /\ found = <<>> /\ complete = FALSE /\ unasked = {}

\* Between two jobs a commit adds a line above a file, takes a symbol out of it or
\* puts one back: what is renamed is one symbol out and another in.
Edit(f) ==
    /\ phase = "idle"
    /\ \/ disk[f].shift < MaxShift /\ disk' = [disk EXCEPT ![f].shift = @ + 1]
       \/ \E c \in Cuts : c.file = f /\ disk' = [disk EXCEPT ![f].cut = IF c \in @ THEN @ \ {c} ELSE @ \cup {c}]
    /\ UNCHANGED <<proj, stored, rows, links, refs, phase, pass, found, complete, unasked>>

Sync ==
    /\ phase = "idle"
    /\ phase' = "store" /\ complete' = FALSE
    /\ UNCHANGED <<proj, disk, stored, rows, links, refs, pass, found, unasked>>

\* storeExtractionResult: the file's nodes go with their edges; the edges other
\* files had into it come back to the last new node of the same kind and name.
SameSymbol(f, old) ==
    Final(SelectSeq(Parsed(f), LAMBDA n : <<n.kind, n.name>> = <<old[2], old[3]>>))
BadRetargeted(f) == <<>>
Retargeted(f) ==
    Each(SelectSeq(links, LAMBDA e : e.target[1] = f /\ e.source[1] # f), LAMBDA e :
        Each(SameSymbol(f, e.target), LAMBDA n : <<[e EXCEPT !.target = Id(n)]>>))
BadSurviving(f) ==
    Each(SelectSeq(links, LAMBDA e : e.target[1] # f), LAMBDA e :
        IF e.source[1] # f THEN <<e>> ELSE Each(SameSymbol(f, e.source), LAMBDA n : <<[e EXCEPT !.source = Id(n)]>>))
Surviving(f) == SelectSeq(links, LAMBDA e : e.target[1] # f /\ e.source[1] # f)
Pending == SelectSeq(Sorted, LAMBDA f : f \in FileSet /\ stored[f] # disk[f])
StoreFile(f) ==
    /\ phase = "store" /\ <<f>> = First(Pending)
    /\ rows' = SelectSeq(rows, LAMBDA n : n.file # f) \o Parsed(f)
    /\ links' = Insert(rows', Surviving(f), Extracted(f) \o Retargeted(f))
    /\ stored' = [stored EXCEPT ![f] = disk[f]]
    /\ refs' = refs \cup {f}
    /\ unasked' = unasked \cup {e \in ToSet(Referenced(FileSet)) : e.target[1] = f /\ Absent(e.target)}
    /\ UNCHANGED <<proj, disk, phase, pass, found, complete>>

\* A reference is resolved against the rows there are and deleted, answered or not.
Resolve ==
    /\ phase = "store" /\ Pending = <<>>
    /\ links' = Insert(rows, links, Placed(Referenced(refs)))
    /\ refs' = {}
    /\ LET asked == ToSet(Referenced(refs)) IN unasked' = (unasked \ asked) \cup {e \in asked : Absent(e.target)}
    /\ phase' = "contains"
    /\ UNCHANGED <<proj, disk, stored, rows, pass, found, complete>>

\* The next two stand in the tables before anything reads them.
BadContains(rs, ls) == ls
Contained(rs, ls) == Insert(rs, ls, GoContains(Seen(rs, ls)))
Implemented(rs, ls) == Insert(rs, ls, GoImplements(Seen(rs, ls)))
ContainsStep ==
    /\ phase = "contains"
    /\ links' = Contained(rows, links)
    /\ phase' = "implements"
    /\ UNCHANGED <<proj, disk, stored, rows, refs, pass, found, complete, unasked>>
ImplementsStep ==
    /\ phase = "implements"
    /\ links' = Implemented(rows, links)
    /\ phase' = "passes" /\ pass' = 1 /\ found' = <<>>
    /\ UNCHANGED <<proj, disk, stored, rows, refs, complete, unasked>>

PassStep ==
    /\ phase = "passes" /\ pass <= Passes
    /\ found' = found \o Result(pass, Seen(rows, links))
    /\ pass' = pass + 1
    /\ UNCHANGED <<proj, disk, stored, rows, links, refs, phase, complete, unasked>>

\* The first edge found between two nodes is the one that is kept.
Merged(es) == All(es)
Merge ==
    /\ phase = "passes" /\ pass > Passes
    /\ links' = Insert(rows, links, Merged(found))
    /\ phase' = "idle" /\ pass' = 1 /\ found' = <<>> /\ complete' = TRUE
    /\ UNCHANGED <<proj, disk, stored, rows, refs, unasked>>

Abandon ==
    /\ phase' = "idle" /\ pass' = 1 /\ found' = <<>>
    /\ UNCHANGED <<proj, disk, stored, rows, links, refs, complete, unasked>>
Throw == phase \in {"contains", "implements", "passes"} /\ Abandon
Crash == phase # "idle" /\ Abandon

Next ==
    \/ \E f \in FileSet : Edit(f) \/ StoreFile(f)
    \/ Sync \/ Resolve \/ ContainsStep \/ ImplementsStep \/ PassStep \/ Merge
    \/ Throw \/ Crash

Spec == Init /\ [][Next]_vars

-----------------------------------------------------------------------------
\* A job has ended well and every file is as it was read.
Current == phase = "idle" /\ complete /\ stored = disk
Between(es) == {Pair(e) : e \in ToSet(es)}

\* The graph has every edge that one undisturbed job would give an empty index
\* of the same files, without the references of unchanged files to a symbol that
\* came later or has been away: their rows are deleted once resolved, and what
\* follows from them is lost with them.  Jobs that crashed, rounds that threw and
\* files parsed again lose no other (resolveAndPersistBatched, storeExtractionResult).
Complete ==
    Current =>
        LET known == SelectSeq(proj.links, LAMBDA e : e \notin unasked)
            base == Implemented(rows, Contained(rows, Insert(rows, <<>>, Placed(known))))
            all == FlattenSeq([k \in 1..Passes |-> Result(k, Seen(rows, base))])
        IN  Between(base \o all) \subseteq Between(links)

\* A call of a method of a Go interface reaches the method of every struct whose
\* methods cover the interface, wherever in its package each is declared, as long
\* as the fan-out of the pass stays below its cap (Cap.channel).
GoDispatch ==
    Current =>
        LET go(kind) == {n \in ToSet(rows) : n.lang = "go" /\ n.kind = kind}
            has(t, m) == m.path = <<t.name>> /\ Dir[m.file] = Dir[t.file]
            methods(t) == {m \in go("method") : has(t, m)}
        IN  \A i \in go("interface"), s \in go("struct") :
                LET covered == methods(i) # {} /\ {m.name : m \in methods(i)} \subseteq {m.name : m \in methods(s)}
                IN  covered => \A a \in methods(i), b \in methods(s) :
                        a.name = b.name => <<Id(a), Id(b)>> \in Between(links)

\* The passes that refuse to guess between several candidates answer the same
\* whatever order the table gives its rows in.
NoGuess ==
    Current => \A k \in {12, 21, 28, 31, 32, 35, 36} :
        Cardinality({Between(Result(k, Seen(rs, links))) : rs \in {rows, Reverse(rows)}}) = 1

\* The line of a synthesized edge lies in the node the edge leaves, after any
\* number of parses of either end: it is where explore prints the call.
SitesInside ==
    \A e \in ToSet(links) : e.by # "" /\ e.line # 0 => \E n \in ToSet(Row([rows |-> rows], e.source)) : Spans(n, e.line)
=============================================================================
