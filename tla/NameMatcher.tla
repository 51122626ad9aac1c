----------------------------- MODULE NameMatcher -----------------------------
(* The name-matching strategies of reference resolution (name-matcher.ts).   *)
(* A name is the sequence of its words (MyLog is <<"My", "Log">>), a path the *)
(* sequence of its directories and its file.  A reference is what the         *)
(* extractor wrote down: a name, its receiver (a sequence of names), and the  *)
(* separator between the two; its receiver may be a call.  A strategy returns *)
(* the sequence of at most one match, so a ladder of strategies is a          *)
(* concatenation and its answer the head.                                     *)
EXTENDS ImportMappings, FiniteSets, FiniteSetsExt

CONSTANTS Upper,      \* words with their first letter raised
          Lower,      \* words in lower case
          Family,     \* language families: "jvm", "web", ..., "none"
          Decls,      \* what the lines of a file declare: [file, line, var, type, init]
          Ceiling     \* AMBIGUOUS_NAME_CEILING, 500 by default

VARIABLES nodes,      \* the nodes table in the order of its rows
          edges       \* what earlier batches resolved: [ref, target, kind, conf]

Named(n) == SelectSeq(nodes, LAMBDA m : m.name = n)
OfFile(f) == LET rows == SetToSortSeq({i \in DOMAIN nodes : nodes[i].file = f}, LAMBDA i, j :
                           nodes[i].line < nodes[j].line \/ (nodes[i].line = nodes[j].line /\ i < j))
             IN  [k \in DOMAIN rows |-> nodes[rows[k]]]
Path(m) == Append(m.scope, m.name)
LowerCase(n) == [i \in DOMAIN n |-> Lower[n[i]]]

Found(ms, conf) == IF ms = <<>> THEN <<>> ELSE <<[to |-> Head(ms), conf |-> conf]>>
First(s) == IF s = <<>> THEN <<>> ELSE <<Head(s)>>
Unique(s) == IF Len(s) = 1 THEN s ELSE <<>>
After(s, k) == SubSeq(s, k + 1, Len(s))

\* The first of the elements with the highest score.
Best(s, Score(_)) ==
    LET top == {i \in DOMAIN s : \A j \in DOMAIN s : Score(s[j]) <= Score(s[i])}
    IN  IF s = <<>> THEN <<>> ELSE <<s[Min(top)]>>

\* The first by line, for same-named definitions in one file.
Topmost(s) == Best(s, LAMBDA m : -m.line)

Known(l) == Family[l] # "none"
SameFamily(a, b) == a = b \/ (Known(a) /\ Family[a] = Family[b])
CrossesKnown(a, b) == Known(a) /\ Known(b) /\ ~SameFamily(a, b)

Gate(ms, r) ==
    SelectSeq(ms, LAMBDA m : /\ r.kind \in {"references", "function_ref"} => SameFamily(m.lang, r.lang)
                             /\ r.kind = "imports" => ~CrossesKnown(m.lang, r.lang))

\* Directories shared from the root on; 15 for each and 80 at most.
SharedDirs(f, g) == Cardinality({k \in 1..Min({Len(f), Len(g)}) - 1 : SubSeq(f, 1, k) = SubSeq(g, 1, k)})
Proximity(f, g) == Min({15 * SharedDirs(f, g), 80})

BadPreferFile(ms, f) == ms
PreferFile(ms, f) == IF Len(ms) < 2 THEN ms
                     ELSE SelectSeq(ms, LAMBDA m : m.file = f) \o SelectSeq(ms, LAMBDA m : m.file # f)

Callable == {"function", "method"}
Typed == {"class", "struct", "interface"}

-----------------------------------------------------------------------------
\* matchByFilePath, of a path or a file's bare name with an extension of at most
\* four letters: the file of this path, else the closest one whose path ends with
\* it, else the only file of this name.
Closest(ms, r) ==
    LET here == SelectSeq(ms, LAMBDA m : Front(m.file) = Front(r.file))
    IN  Best(IF here = <<>> THEN ms ELSE here,
             LAMBDA m : Proximity(r.file, m.file) + IF SameFamily(m.lang, r.lang) THEN 5 ELSE 0)

PathLike(r) == r.sep = "/" \/ (r.recv = <<>> /\ Len(r.name) > 1 /\ Len(Last(r.name)) <= 5)
ByFilePath(r) ==
    LET files == IF ~PathLike(r) THEN <<>> ELSE SelectSeq(Named(r.name), LAMBDA m : m.kind = "file")
        path == Append(r.recv, r.name)
    IN  Found(SelectSeq(files, LAMBDA m : m.file = path), 95)
        \o Found(Closest(SelectSeq(files, LAMBDA m : IsSuffix(path, m.file)), r), 85)
        \o Found(Unique(files), 70)

\* qualifiedName.endsWith(referenceName) compares text: the first of the
\* reference's names may end inside a longer name.
EndsWith(path, ref) ==
    \/ IsSuffix(ref, path)
    \/ /\ Len(ref) <= Len(path)
       /\ IsSuffix(Head(ref), path[Len(path) - Len(ref) + 1])
       /\ IsSuffix(Tail(ref), path)

\* Qualified names are joined by "::", the keys of configuration files by ".".
SepOf(m) == IF m.lang \in {"yaml", "properties"} THEN "." ELSE "::"

\* matchByQualifiedName: the only definition of the whole name, or the one in
\* the file of the reference, else the first that ends with it.
ByQualifiedName(r) ==
    LET path == Append(r.recv, r.name)
        kept == SelectSeq(nodes, LAMBDA m : SepOf(m) = r.sep /\ ~(r.kind = "calls" /\ m.kind = "constant" /\ r.sep = "."))
        exact == SelectSeq(kept, LAMBDA m : Path(m) = path)
        here == SelectSeq(exact, LAMBDA m : m.file = r.file)
        ending == SelectSeq(kept, LAMBDA m : m.name = r.name /\ EndsWith(Path(m), path))
    IN  IF r.call \/ r.recv = <<>> THEN <<>>
        ELSE Found(IF Len(exact) = 1 THEN exact ELSE here, 95)
             \o Found(PreferFile(ending, r.file), 85)

-----------------------------------------------------------------------------
(* Methods of a type.                                                        *)

\* getSupertypes: the names of what the type's definitions extend or implement,
\* by the edges there are: none of this batch, whose edges are inserted after it.
Bearing == {"class", "struct", "interface", "trait", "protocol", "enum"}
Supertypes(t, lang) ==
    LET ids == {m.id : m \in {n \in ToSet(nodes) : n.name = t /\ n.kind \in Bearing /\ n.lang = lang}}
        up == SetToSortSeq({e \in edges : e.ref.from \in ids /\ e.kind \in {"implements", "extends"}},
                           LAMBDA d, e : d.ref.line < e.ref.line)
        above == FlattenSeq([i \in DOMAIN up |-> SelectSeq(nodes, LAMBDA m : m.id = up[i].target)])
    IN  SelectSeq([i \in DOMAIN above |-> above[i].name], LAMBDA s : s # t)

\* The file a file's import of this type names (importedFqnOf), or none.
Imported(t, r) == First(SelectSeq(Imports(r.file), LAMBDA i : i.local = t))

MethodsOf(t, r) ==
    SelectSeq(Named(r.name), LAMBDA m : m.kind = "method" /\ m.lang = r.lang /\ IsSuffix(<<t, r.name>>, Path(m)))

\* resolveMethodOnType: the type's own method, the imported one first and then
\* the one in the reference's file, else that of a supertype, four levels up.
RECURSIVE OnType(_, _, _, _)
OnType(t, r, fqn, depth) ==
    LET ms == MethodsOf(t, r)
        pinned == SelectSeq(ms, LAMBDA m : fqn # <<>> /\ Len(ms) > 1 /\ IsSuffix(fqn[1].source, m.file))
        above == Supertypes(t, r.lang)
    IN  IF ms # <<>> THEN First(pinned \o PreferFile(ms, r.file))
        ELSE IF depth = 4 THEN <<>>
        ELSE First(FlattenSeq([i \in DOMAIN above |-> OnType(above[i], r, fqn, depth + 1)]))

\* lookupCalleeReturnType: of the method of a class, written in full or in part,
\* or of a free function; the first definition that has one.
ReturnType(cls, callee, r) ==
    LET want == Append(cls, callee)
        ms == SelectSeq(Named(callee), LAMBDA m : m.kind \in Callable /\ m.lang = r.lang /\ m.ret # <<>>)
        of == IF cls = <<>> THEN SelectSeq(ms, LAMBDA m : m.kind = "function")
              ELSE SelectSeq(ms, LAMBDA m : IsSuffix(want, Path(m)) \/ IsSuffix(Path(m), want))
    IN  [i \in DOMAIN First(of) |-> First(of)[i].ret]

IsType(n, r) == \E i \in DOMAIN nodes : nodes[i].name = n /\ nodes[i].kind \in {"class", "struct"} /\ nodes[i].lang = r.lang

\* The scope a local variable is looked for in: the innermost function around
\* the reference.
ScopeStart(r) ==
    Max({1} \cup {m.line : m \in {n \in ToSet(OfFile(r.file)) : /\ n.kind \in Callable /\ n.lang = r.lang
                                                               /\ n.line <= r.line /\ r.line <= n.last}})

DeclsOf(file, var) == {d \in Decls : d.file = file /\ d.var = var}
Nearest(ds) == IF ds = {} THEN <<>> ELSE <<CHOOSE d \in ds : \A e \in ds : e.line <= d.line>>

\* inferLocalReceiverType: the last declaration above the reference within its
\* function.  CFML names the scope of a variable: a component's own is looked for
\* from the top of the file, and below the reference too.
CfmlScoped(r, words) == /\ r.lang \in {"cfml", "cfscript"} /\ Len(r.recv) > 1
                        /\ LowerCase(r.recv[1]) \in {<<w>> : w \in words}
LocalType(r) ==
    LET scoped == CfmlScoped(r, {"variables", "this"})
        ds == DeclsOf(r.file, IF scoped \/ CfmlScoped(r, {"local", "arguments"}) THEN Tail(r.recv) ELSE r.recv)
        above == Nearest({d \in ds : d.line <= r.line /\ (scoped \/ ScopeStart(r) <= d.line)})
        below == {d \in ds : scoped /\ d.line > r.line}
    IN  [i \in DOMAIN above |-> above[i].type]
        \o IF below = {} THEN <<>> ELSE <<(CHOOSE d \in below : \A e \in below : d.line <= e.line).type>>

\* inferCppReceiverType, resolveCppCallResultType: the last declaration above,
\* back to the top of the file, else one in the file's header; "auto" takes the
\* type its initializer returns: of a callee, of a receiver's method, or the
\* class it constructs ("new" stands for make_unique and make_shared too).
RECURSIVE CppTypes(_, _, _), CppResult(_, _, _)
CppTypes(recv, r, depth) ==
    LET header == Append(Front(r.file), <<"header">>)
        here == SetToSortSeq({d \in DeclsOf(r.file, recv) : d.line <= r.line}, LAMBDA d, e : d.line > e.line)
        there == SetToSortSeq({d \in DeclsOf(header, recv) : header # r.file /\ d.type # <<"auto">>},
                              LAMBDA d, e : d.line < e.line)
        of(d) == IF d.type # <<"auto">> THEN <<d.type>> ELSE CppResult(d.init, r, depth + 1)
    IN  First(FlattenSeq([i \in DOMAIN here |-> of(here[i])]) \o [i \in DOMAIN there |-> there[i].type])

CppResult(inner, r, depth) ==
    CASE depth > 3 -> <<>>
      [] inner.sep = "new" -> <<inner.name>>
      [] inner.sep = "." -> IF Len(inner.recv) # 1 THEN <<>>
                            ELSE FlattenSeq([i \in DOMAIN CppTypes(inner.recv, r, depth + 1) |->
                                     ReturnType(<<CppTypes(inner.recv, r, depth + 1)[i]>>, inner.name, r)])
      [] OTHER -> LET ret == ReturnType(inner.recv, inner.name, r)
                  IN  IF ret # <<>> THEN ret
                      ELSE IF IsType(inner.name, r) THEN <<inner.name>> ELSE <<>>

\* inferJavaFieldReceiverType: the declared type of the field of the innermost
\* class around the reference.
FieldType(r) ==
    LET around == SelectSeq(OfFile(r.file), LAMBDA m : /\ m.kind \in {"class", "interface"} /\ m.lang = r.lang
                                                       /\ m.line <= r.line /\ r.line <= m.last)
        inner == Best(Reverse(around), LAMBDA m : m.line)
        fields == SelectSeq(OfFile(r.file), LAMBDA m : /\ m.kind = "field" /\ <<m.name>> = r.recv /\ m.lang = r.lang
                                                       /\ inner[1].line <= m.line /\ m.last <= inner[1].last)
    IN  IF inner = <<>> THEN <<>> ELSE [i \in DOMAIN First(fields) |-> First(fields)[i].ret]

-----------------------------------------------------------------------------
(* Calls on the result of a call: r.recv is what is called, written with     *)
(* r.sep, and r.name the method called on what it returns.                    *)

Capitalised(n) == Upper[n[1]] = n[1]
Callee(r) == Last(r.recv)
Factory(r) == Front(r.recv)

\* matchCppCallChain
CppChain(r) ==
    LET ts == CppResult([recv |-> Factory(r), name |-> Callee(r), sep |-> r.sep], r, 0)
    IN  IF ts = <<>> THEN <<>> ELSE Found(OnType(ts[1], r, <<>>, 0), 85)

\* matchScopedCallChain: "self" is the class of the factory.
ScopedChain(r) ==
    LET ret == ReturnType(Factory(r), Callee(r), r)
    IN  IF r.sep # "::" \/ ret = <<>> THEN <<>>
        ELSE Found(OnType(IF ret[1] = <<"self">> THEN Last(Factory(r)) ELSE ret[1], r, <<>>, 0), 85)

OnImported(t, r, conf) == Found(OnType(t, r, Imported(t, r), 0), conf)

\* matchFunctionRef's and the exact strategies' pieces are below; a Go chain
\* whose factory has no known type falls back on them.
BestScore(r, m) ==
    (IF m.file = r.file THEN 1000 + Max({0, 200 - Max({m.line - r.line, r.line - m.line})}) ELSE 0)
    + 10 * Proximity(r.file, m.file) + (IF m.lang = r.lang THEN 500 ELSE -800)
    + (IF r.kind \in {"calls", "decorates"} /\ m.kind \in Callable THEN 250 ELSE 0)
    + (IF r.kind = "instantiates" /\ m.kind \in Typed THEN 250 ELSE 0)
    + (IF r.kind = "decorates" /\ m.kind \in {"class", "interface"} THEN 150 ELSE 0)
    + (IF m.exported THEN 100 ELSE 0)

\* findBestMatch, in tenths of a point: only candidates of the reference's
\* language when there are any, and none whose score is -1 or less.
BestMatch(r, ms) ==
    LET same == SelectSeq(ms, LAMBDA m : m.lang = r.lang)
    IN  Best(SelectSeq(IF same = <<>> THEN ms ELSE same, LAMBDA m : BestScore(r, m) > -10),
             LAMBDA m : BestScore(r, m))

\* matchByExactName: the only definition, else the best of not too many.
ByExactName(name, r) ==
    LET ms == SelectSeq(Gate(Named(name), r), LAMBDA m : m.kind # "import")
        best == BestMatch(r, ms)
    IN  IF Len(ms) = 1 THEN Found(ms, IF ms[1].lang = r.lang THEN 90 ELSE 50)
        ELSE IF ms = <<>> \/ Len(ms) > Ceiling THEN <<>>
        ELSE Found(best, IF best # <<>> /\ Proximity(r.file, best[1].file) >= 30 THEN 70 ELSE 40)

\* matchFuzzy: the only callable of this name but for its case.
ByFuzzyName(name, r) ==
    LET ms == Gate(SelectSeq(nodes, LAMBDA m : m.kind \in Callable \cup {"class"}
                                               /\ LowerCase(m.name) = LowerCase(name)), r)
        same == SelectSeq(ms, LAMBDA m : m.lang = r.lang)
    IN  IF same # <<>> THEN Found(Unique(same), 50) ELSE Found(Unique(ms), 30)

\* matchDottedCallChain: a constructor or a function called bare, or a factory
\* method; a class message without a known type yields the class (Objective-C,
\* Pascal).
Constructs == {"kotlin", "swift", "scala", "dart", "pascal"}
DottedChain(r) ==
    LET bare == Len(r.recv) = 1
        cls == Last(Factory(r))
        ret == ReturnType(IF bare THEN <<>> ELSE <<cls>>, Callee(r), r)
    IN  CASE bare /\ r.lang = "go" ->
                IF ret # <<>> THEN OnImported(ret[1], r, 85)
                ELSE First(ByExactName(r.name, r) \o ByFuzzyName(r.name, r))
          [] bare -> IF r.lang \in Constructs /\ Capitalised(Callee(r)) THEN OnImported(Callee(r), r, 85) ELSE <<>>
          [] ret # <<>> -> OnImported(ret[1], r, 85)
          [] OTHER -> IF \/ r.lang = "objc" /\ Capitalised(cls)
                         \/ r.lang = "pascal" /\ cls[1] \in {"T", "I"}
                      THEN OnImported(cls, r, 80) ELSE <<>>

-----------------------------------------------------------------------------
\* matchMethodCall.  Strategies: the declared type of the receiver; a field's;
\* the class of the receiver's name, or of that name capitalised; the only
\* method of this name; the one whose class shares most words with the receiver.
InClass(n, r) ==
    LET classes == SelectSeq(PreferFile(Named(n), r.file), LAMBDA m : m.kind \in Typed /\ m.lang = r.lang)
        methods(c) == SelectSeq(OfFile(c.file), LAMBDA m : /\ m.kind = "method" /\ m.name = r.name
                                                           /\ \E s \in ToSet(Path(m)) : n \in SubSeqs(s))
    IN  FlattenSeq([i \in DOMAIN classes |-> First(methods(classes[i]))])

Words(names) == {Lower[w] : w \in UNION {ToSet(n) : n \in names}}

ByWords(r) ==
    LET methods == SelectSeq(Named(r.name), LAMBDA m : m.kind = "method")
        same == SelectSeq(methods, LAMBDA m : m.lang = r.lang)
        ms == IF same = <<>> THEN methods ELSE same
        score(m) == Cardinality(Words(ToSet(r.recv)) \cap Words(ToSet(Path(m)))) + IF m.lang = r.lang THEN 1 ELSE 0
        best == Best(PreferFile(ms, r.file), score)
    IN  IF Len(Named(r.name)) > Ceiling THEN <<>>
        ELSE IF Len(ms) = 1 THEN Found(same, 70)
        ELSE Found(SelectSeq(best, LAMBDA m : score(m) >= 2), 65)

ByMethodCall(r) ==
    LET type == IF r.sep = "::" THEN <<>> ELSE IF r.lang = "cpp" THEN CppTypes(r.recv, r, 0) ELSE LocalType(r)
        field == IF r.lang \in {"java", "kotlin"} /\ r.sep = "." THEN FieldType(r) ELSE <<>>
        on(ts) == IF ts = <<>> THEN <<>>
                  ELSE Found(OnType(ts[1], r, IF r.lang \in {"java", "kotlin"} THEN Imported(ts[1], r) ELSE <<>>, 0), 90)
        object == r.recv[1]
        raised == [object EXCEPT ![1] = Upper[@]]
    IN  IF r.call \/ r.recv = <<>> \/ r.sep = "/" \/ (r.sep = "::" /\ Len(r.recv) > 1) THEN <<>>
        ELSE on(type) \o on(field)
             \o (IF Len(r.recv) > 1 THEN <<>>
                 ELSE Found(InClass(object, r), 85)
                      \o (IF raised = object THEN <<>> ELSE Found(InClass(raised, r), 80)))
             \o ByWords(r)

-----------------------------------------------------------------------------
\* matchFunctionRef: a function used as a value.  A qualified one is that of its
\* class, in this file or nowhere else twice; a bare one a function (or a
\* method, where the language passes methods bare) in this file, else the only
\* one there is.  Never the function itself.
BareFunctions == {"typescript", "tsx", "javascript", "jsx", "arkts", "cpp", "python", "php"}

OwnType(m, r) ==
    \E f \in ToSet(nodes) : /\ f.id = r.from /\ f.scope # <<>> /\ m.scope # <<>>
                            /\ IsSuffix(f.scope, m.scope) \/ IsSuffix(m.scope, f.scope)

ScopedFunction(r) ==
    LET ms == SelectSeq(Named(r.name), LAMBDA m : /\ m.kind \in Callable /\ SameFamily(m.lang, r.lang) /\ m.id # r.from
                                                  /\ IsSuffix(Append(r.recv, r.name), Path(m)))
        here == SelectSeq(ms, LAMBDA m : m.file = r.file)
    IN  IF here # <<>> THEN Found(Topmost(here), 90) ELSE Found(Unique(ms), 90)

BareFunction(r) ==
    LET ms == SelectSeq(Named(r.name), LAMBDA m :
                  /\ m.kind = "function" \/ (m.kind = "method" /\ r.lang \notin BareFunctions)
                  /\ SameFamily(m.lang, r.lang) /\ m.id # r.from
                  /\ r.lang = "swift" /\ m.kind = "method" => OwnType(m, r))
        here == SelectSeq(ms, LAMBDA m : m.file = r.file)
    IN  IF here = <<>> THEN Found(Unique(ms), 80)
        ELSE IF r.lang = "swift" /\ Len(here) > 1 /\ \A m \in ToSet(here) : m.kind = "method" THEN <<>>
        ELSE Found(Topmost(here), IF Len(here) = 1 THEN 95 ELSE 90)

MatchFunctionRef(r) == IF r.recv = <<<<"this">>>> THEN <<>>
                       ELSE IF r.sep = "::" THEN ScopedFunction(r) ELSE BareFunction(r)

\* An ArkTS attribute resolves to its only decorated helper.
ArkAttribute(r) ==
    LET ms == SelectSeq(Named(r.name), LAMBDA m : m.lang = "arkts" /\ m.kind = "function" /\ "Extend" \in m.marks)
    IN  Found(Unique(ms), 85)

\* A behaviour and whatever an application's resource file names is a module.
IsAppFile(f) == Last(Last(f)) = ".app" \/ IsSuffix(<<".app", ".src">>, Last(f))
ErlangModule(r) ==
    Found(PreferFile(SelectSeq(Named(r.name), LAMBDA m : m.lang = "erlang" /\ m.kind = "namespace"), r.file), 90)

\* matchReference: the ladder.
Dotted == {"java", "kotlin", "csharp", "swift", "go", "scala", "dart", "objc", "pascal"}
MatchReference(r) ==
    IF r.kind = "function_ref" THEN MatchFunctionRef(r)
    ELSE IF r.sep = "attribute" THEN ArkAttribute(r)
    ELSE IF r.lang = "erlang" /\ (r.kind = "implements" \/ IsAppFile(r.file)) THEN ErlangModule(r)
    ELSE First(ByFilePath(r) \o ByQualifiedName(r)
               \o (CASE ~r.call -> <<>>
                     [] r.lang \in {"c", "cpp"} -> CppChain(r)
                     [] r.lang \in {"php", "rust"} -> ScopedChain(r)
                     [] r.lang \in Dotted -> DottedChain(r)
                     [] OTHER -> <<>>)
               \o ByMethodCall(r)
               \o (IF r.recv = <<>> /\ r.sep # "/" THEN ByExactName(r.name, r) \o ByFuzzyName(r.name, r) ELSE <<>>))
=============================================================================
