----------------------------- MODULE SynthGraph -----------------------------
(* Edge synthesis (callback-synthesizer.ts): what the passes share, and the   *)
(* passes that read the graph alone.  A project p holds the rows of the nodes *)
(* table, the edges table (links) and the text of its indexed files: for each *)
(* one the sequence of its marks [at, form, a, b, dead], a form of statement  *)
(* that some pass looks for, with its line, its two operands, and whether a   *)
(* comment holds it.  A pass answers with its edges in the order it finds     *)
(* them; the sequence of at most one element stands for a node or null.       *)
EXTENDS Integers, Sequences, SequencesExt, FiniteSets, FiniteSetsExt

CONSTANTS Sorted,      \* every path, in the order of getAllFiles
          Dir, Ext,    \* directory and extension of each path
          Scope,       \* workspace package a path lies in, "" for none
          Segs,        \* the directories of a path, and its name without extension
          Beside,      \* paths a framework pairs with a path by name, in its order
          Generated,   \* paths isGeneratedFile accepts
          Stem,        \* names of Objective-C selectors, cut at the first colon
          Suffixed,    \* a Fabric component's name with each native suffix
          Cap          \* fan-out limits: [channel, event, jsx, field, emitter, ...]

\* Nodes are identified by file, kind, name and line (generateNodeId).
Id(n) == <<n.file, n.kind, n.name, n.from>>
Site(n) == <<n.file, n.from>>
NoSite == <<>>
Pair(e) == <<e.source, e.target>>

First(s) == IF s = <<>> THEN <<>> ELSE <<Head(s)>>
Final(s) == IF s = <<>> THEN <<>> ELSE <<s[Len(s)]>>
Each(s, F(_)) == FlattenSeq([i \in DOMAIN s |-> F(s[i])])
Singles(s) == [i \in DOMAIN s |-> <<s[i]>>]
\* A Set or a Map of the program: its elements in the order they came first.
AddNew(s, xs) == FoldLeft(LAMBDA acc, x : IF Contains(acc, x) THEN acc ELSE Append(acc, x), s, xs)

Files(p) == SelectSeq(Sorted, LAMBDA f : f \in DOMAIN p.text)
FilesOf(p, exts) == SelectSeq(Files(p), LAMBDA f : Ext[f] \in exts)
Kind(p, k) == SelectSeq(p.rows, LAMBDA n : n.kind = k)
Named(p, x) == SelectSeq(p.rows, LAMBDA n : n.name = x)
Row(p, id) == SelectSeq(p.rows, LAMBDA n : Id(n) = id)
InFile(p, f) == SortSeq(SelectSeq(p.rows, LAMBDA n : n.file = f), LAMBDA m, n : m.from < n.from)

Callable == {"function", "method"}
FnKinds == Callable \cup {"component"}
MethodsAndFunctions(p) == Kind(p, "method") \o Kind(p, "function")

Spans(n, line) == n.from <= line /\ line <= n.to
Marks(p, f, form) == SelectSeq(p.text[f], LAMBDA m : m.form = form)
Code(p, f, form) == SelectSeq(p.text[f], LAMBDA m : m.form = form /\ ~m.dead)
Body(p, n, form) == SelectSeq(Marks(p, n.file, form), LAMBDA m : Spans(n, m.at))

\* The innermost function around a line is the one that starts last.
Enclosing(p, f, line) ==
    Final(SelectSeq(InFile(p, f), LAMBDA n : n.kind \in FnKinds /\ Spans(n, line)))

Out(p, n, kinds) == SelectSeq(p.links, LAMBDA e : e.source = Id(n) /\ e.kind \in kinds)
In(p, n, kinds) == SelectSeq(p.links, LAMBDA e : e.target = Id(n) /\ e.kind \in kinds)
Children(p, n) == Each(Out(p, n, {"contains"}), LAMBDA e : Row(p, e.target))
Members(p, n) == SelectSeq(Children(p, n), LAMBDA m : m.kind = "method")
Names(ms) == {ms[i].name : i \in DOMAIN ms}

\* No pass links a node to itself.
Link(by, s, t, kind, line, site) ==
    IF Id(s) = Id(t) THEN <<>>
    ELSE <<[source |-> Id(s), target |-> Id(t), kind |-> kind, line |-> line, by |-> by, site |-> site]>>
Calls(by, s, t, line, site) == Link(by, s, t, "calls", line, site)

NewBy(Key(_), es, out) ==
    FoldLeft(LAMBDA acc, e : IF \E x \in ToSet(out \o acc) : Key(x) = Key(e) THEN acc ELSE Append(acc, e), <<>>, es)

\* `seen` and `added`: a pair is linked once in a pass; a scope of the pass takes
\* the next group of edges while it has added fewer than its cap.
GatherBy(Key(_), scopes, cap) ==
    FoldLeft(LAMBDA out, groups :
        FoldLeft(LAMBDA st, g :
                     IF st.added >= cap THEN st
                     ELSE LET new == NewBy(Key, g, st.out) IN [out |-> st.out \o new, added |-> st.added + Len(new)],
                 [out |-> out, added |-> 0], groups).out, <<>>, scopes)
Gather(scopes, cap) == GatherBy(Pair, scopes, cap)
All(es) == NewBy(Pair, es, <<>>)

-----------------------------------------------------------------------------
TypeKinds == {"struct", "class", "interface", "enum", "type_alias"}

\* A Go method whose receiver type is declared in another file of its directory.
GoContains(p) ==
    All(Each(Kind(p, "method"), LAMBDA m :
        IF \/ m.lang # "go" \/ Len(m.path) # 1
           \/ \E e \in ToSet(In(p, m, {"contains"})) : \E n \in ToSet(p.rows) : Id(n) = e.source /\ n.kind \in TypeKinds
        THEN <<>>
        ELSE Each(First(SelectSeq(Named(p, m.path[1]), LAMBDA t :
                      t.lang = "go" /\ t.kind \in TypeKinds /\ Dir[t.file] = Dir[m.file])),
                  LAMBDA t : Link("", t, m, "contains", m.from, NoSite))))

\* A struct satisfies every interface whose method names it covers.
GoImplements(p) ==
    LET go(k) == SelectSeq(Kind(p, k), LAMBDA n : n.lang = "go")
        satisfied(i) == LET want == Names(Members(p, i)) IN
            IF want = {} THEN <<>>
            ELSE SelectSeq(go("struct"), LAMBDA s : want \subseteq Names(Members(p, s)))
    IN  Gather([k \in DOMAIN go("interface") |->
                   LET i == go("interface")[k] IN
                   Singles(Each(satisfied(i), LAMBDA s : Link("go-implements", s, i, "implements", s.from, Site(s))))],
               Cap.channel)

\* From the method of a base to the one that overrides it.
Overrides(by, base, own) ==
    Each(base, LAMBDA b : Each(SelectSeq(own, LAMBDA m : m.name = b.name), LAMBDA m : Calls(by, b, m, b.from, Site(m))))

CppOverride(p) ==
    LET cpp(ms) == SelectSeq(ms, LAMBDA n : n.lang = "cpp")
        \* a map by name: of two methods of the base the later one is kept
        kept(ms) == SelectSeq(ms, LAMBDA m : m = Final(SelectSeq(ms, LAMBDA x : x.name = m.name))[1])
    IN  Gather(Each(Kind(p, "class"), LAMBDA c : Each(Out(p, c, {"extends"}), LAMBDA e :
            Each(SelectSeq(cpp(Row(p, e.target)), LAMBDA b : Id(b) # Id(c)), LAMBDA b : <<Singles(
                Each(cpp(Members(p, c)), LAMBDA m : Overrides("cpp-override", kept(Members(p, b)), <<m>>)))>>))), Cap.channel)

OverrideLangs == {"java", "kotlin", "csharp", "typescript", "javascript", "swift", "scala", "go", "rust", "arkts"}
InterfaceOverride(p) ==
    LET known(ms) == SelectSeq(ms, LAMBDA n : n.lang \in OverrideLangs)
    IN  Gather(Each(Kind(p, "class") \o Kind(p, "struct"), LAMBDA c : Each(Out(p, c, {"implements", "extends"}), LAMBDA e :
            Each(known(Row(p, e.target)), LAMBDA b :
                IF Id(b) = Id(c) THEN <<>>
                ELSE <<Singles(Overrides("interface-impl", Members(p, b), known(Members(p, c))))>>))), Cap.channel)

\* Kotlin: from the expected declaration to each actual one, of the same name in
\* another file.
ExpectActual(p) ==
    LET like(a, b) == a = b \/ {a, b} \subseteq TypeKinds
    IN  Gather([i \in DOMAIN p.rows |->
            LET a == p.rows[i] IN
            IF a.lang # "kotlin" \/ "actual" \notin a.tags THEN <<>>
            ELSE Singles(Each(SelectSeq(p.rows, LAMBDA c :
                     /\ c.lang = "kotlin" /\ c.name = a.name /\ c.path = a.path /\ like(c.kind, a.kind)
                     /\ c.file # a.file /\ "actual" \notin c.tags),
                     LAMBDA c : Calls("kotlin-expect-actual", c, a, c.from, Site(a))))], Cap.channel)

\* From the empty methods of generated gRPC servers to every struct written by
\* hand that has all of them.
GrpcStub(p) ==
    LET go == SelectSeq(Kind(p, "struct"), LAMBDA n : n.lang = "go")
        rpcs(s) == SelectSeq(Members(p, s), LAMBDA m : "internal" \notin m.tags)
        stubs == SelectSeq(go, LAMBDA s : "stub" \in s.tags /\ s.file \in Generated /\ rpcs(s) # <<>>)
        impls(s) == SelectSeq(go, LAMBDA c : /\ Id(c) # Id(s) /\ c.file \notin Generated
                                             /\ Names(rpcs(s)) \subseteq Names(Members(p, c)))
    IN  Gather(Each(stubs, LAMBDA s : Each(impls(s), LAMBDA c :
            <<Singles(Overrides("go-grpc-stub-impl", rpcs(s), Members(p, c)))>>)), Cap.channel)

\* Expo modules: the two implementations of a module's method.
ExpoPlatforms(p) ==
    LET expo == SelectSeq(Kind(p, "method"), LAMBDA m : "expo" \in m.tags)
    IN  All(Each(expo, LAMBDA a : Each(SelectSeq(expo, LAMBDA b : b.name = a.name /\ b.path = a.path /\ b.lang # a.lang),
            LAMBDA b : Calls("expo-cross-platform", a, b, a.from, NoSite))))

\* React Native: a native method some JavaScript calls, and its siblings.
Infra == {"addListener", "removeListeners", "getConstants", "constantsToExport", "getName", "invalidate", "initialize",
          "getDefaultEventTypes", "supportedEvents", "requiresMainQueueSetup", "methodQueue"}
StemOf(x) == IF x \in DOMAIN Stem THEN Stem[x] ELSE x
NativePlatforms(p) ==
    LET native == SelectSeq(Kind(p, "method"), LAMBDA m :
            m.lang \in {"java", "kotlin", "objc", "cpp"} /\ StemOf(m.name) \notin Infra)
        bridged(m) == \E e \in ToSet(In(p, m, {"calls"})) : \E n \in ToSet(Row(p, e.source)) :
                          n.lang \in {"typescript", "tsx", "javascript", "jsx"}
        siblings(m) == SelectSeq(native, LAMBDA s : StemOf(s.name) = StemOf(m.name) /\ s.lang # m.lang)
    IN  All(Each(SelectSeq(native, bridged), LAMBDA m : Each(siblings(m), LAMBDA s :
            Calls("rn-cross-platform", m, s, m.from, NoSite) \o Calls("rn-cross-platform", s, m, s.from, NoSite))))

\* Fabric: a component and the native classes of its name with a known suffix.
FabricNative(p) ==
    LET components == SelectSeq(Kind(p, "component"), LAMBDA n : "fabric" \in n.tags)
        natives(x) == SelectSeq(Kind(p, "class"), LAMBDA n : n.lang \in {"objc", "kotlin", "java", "cpp"} /\ n.name = x)
    IN  All(Each(components, LAMBDA c : Each(Suffixed[c.name], LAMBDA x : Each(natives(x), LAMBDA n :
            Calls("fabric-native-impl", c, n, 0, NoSite)))))

\* MyBatis: the statement of a mapper's XML and the only method of its class and name.
Mybatis(p) ==
    All(Each(SelectSeq(Kind(p, "method"), LAMBDA x : x.lang = "xml"), LAMBDA x :
        LET ms == SelectSeq(Kind(p, "method"), LAMBDA m :
                m.lang \in {"java", "kotlin"} /\ m.path # <<>> /\ m.name = x.name /\ Final(m.path) = Final(x.path))
        IN  IF Len(ms) # 1 THEN <<>> ELSE Calls("mybatis-java-xml", ms[1], x, ms[1].from, Site(x))))
=============================================================================
