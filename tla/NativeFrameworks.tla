-------------------------- MODULE NativeFrameworks --------------------------
(* The framework resolvers of native and infrastructure code                  *)
(* (resolution/frameworks/: swift, swift-objc, react-native, expo-modules,    *)
(* fabric, cics, terraform).  An Objective-C selector is a name some of whose *)
(* words are ":".                                                             *)
EXTENDS ServerFrameworks

CONSTANTS Exposed,   \* Swift declarations marked @objc, by id
          Transids   \* the transaction identifiers that COBOL data items hold, by id

-----------------------------------------------------------------------------
(* swift                                                                     *)

SwiftUI(r) ==
    First(Chosen(r, Ends(r.name, {"View"}) /\ Capitalised(r.name), {"struct", "component"}, {"Views", "View", "Screens", "Components", "UI"}, 85)
          \o Chosen(r, Ends(r.name, {"Store", "Manager"}) \/ IsSuffix(<<"View", "Model">>, r.name), {"class"},
                    {"ViewModels", "ViewModel", "Stores", "Managers", "Services"}, 85)
          \o Chosen(r, Pascal(r), {"struct", "class"}, {"Models", "Model", "Entities", "Domain"}, 70))
UIKit(r) ==
    First(Chosen(r, IsSuffix(<<"View", "Controller">>, r.name), {"class"}, {"ViewControllers", "ViewController", "Controllers", "Screens"}, 85)
          \o Chosen(r, Ends(r.name, {"View"}), {"class"}, {"Views", "View", "UI", "Components"}, 80)
          \o Chosen(r, Ends(r.name, {"Cell"}), {"class"}, {"Cells", "Cell", "Views", "TableViewCells", "CollectionViewCells"}, 85)
          \o Chosen(r, Ends(r.name, {"Delegate"}) \/ IsSuffix(<<"Data", "Source">>, r.name), {"protocol"}, {}, 80))
Vapor(r) ==
    First(Chosen(r, Ends(r.name, {"Controller"}), {"class", "struct"}, {"Controllers", "Controller", "Routes"}, 85)
          \o Chosen(r, Pascal(r), {"class"}, {"Models", "Model", "Entities", "Database"}, 75)
          \o Chosen(r, Ends(r.name, {"Middleware"}), {"class", "struct"}, {"Middleware", "Middlewares"}, 80))

\* A declaration found by its text: views and applications, controllers.
Declares(f, forms, kind, lang) ==
    LET ms == MarksOf(f, forms)
        node(m) == [Added(kind, f, lang, m.line, "", <<m.name>>) EXCEPT !.name = m.name]
    IN  Extracted([i \in DOMAIN ms |-> node(ms[i])], <<>>)
SwiftUIExtract(f) == Join(<<Declares(f, {"View"}, "component", "swift"), Declares(f, {"App"}, "class", "swift")>>)
UIKitExtract(f) == Join(<<Declares(f, {"UIViewController"}, "class", "swift"), Declares(f, {"UIView"}, "class", "swift")>>)

\* The prefixes of groups: those of grouped() first, then those of group()
\* closures; each takes its receiver's prefix as it is when it is met.
GroupPrefix(f) ==
    LET of(groups, var) == IF var \in DOMAIN groups THEN groups[var] ELSE <<>>
        add(groups, m) == (m.var :> of(groups, m.recv) \o m.path) @@ groups
    IN  FoldLeft(add, <<>>, MarksOf(f, {"grouped"}) \o MarksOf(f, {"group"}))
VaporExtract(f) ==
    LET ms == MarksOf(f, {"use"})
        prefix(m) == IF m.recv \in DOMAIN GroupPrefix(f) THEN GroupPrefix(f)[m.recv] ELSE <<>>
    IN  Join([i \in DOMAIN ms |-> RouteTo(f, ms[i], Upper[ms[i].verb], prefix(ms[i]) \o ms[i].path, <<ms[i].handler>>)])

-----------------------------------------------------------------------------
(* swift-objc: calls across the bridge                                       *)

Colons(sel) == {i \in DOMAIN sel : sel[i] = ":"}
FirstKeyword(sel) == IF Colons(sel) = {} THEN sel ELSE SubSeq(sel, 1, Min(Colons(sel)) - 1)
Prepositions == {"With", "For", "By", "In", "On", "At", "From", "To", "Of", "As"}

\* swiftBaseNamesForObjcSelector: the first keyword, init, what stands before a
\* preposition, the property of a setter.
SwiftBases(sel) ==
    LET key == FirstKeyword(sel)
        at == {i \in 2..Len(key) - 1 : key[i] \in Prepositions}
    IN  FirstOf(<<key>> \o Rule(Len(key) > 1 /\ IsPrefix(<<"init", "With">>, key), <<<<"init">>>>)
                \o Rule(at # {}, <<SubSeq(key, 1, Min(at) - 1)>>)
                \o Rule(Cardinality(Colons(sel)) = 1 /\ Last(sel) = ":" /\ key[1] = "set" /\ Len(key) > 1,
                        <<[Tail(key) EXCEPT ![1] = Lower[@]]>>))

\* buildObjcMap leaves out names that say nothing, and a method's own name.
GenericNames == {<<"init">>, <<"description">>, <<"hash">>, <<"copy">>, <<"count">>, <<"value">>, <<"name">>, <<"data">>, <<"add">>, <<"remove">>,
                 <<"update">>, <<"load">>, <<"save">>, <<"cancel">>, <<"start">>, <<"stop">>, <<"close">>, <<"open">>, <<"show">>, <<"hide">>}
ToObjc(name) ==
    SelectSeq(nodes, LAMBDA m : /\ m.kind = "method" /\ m.lang = "objc" /\ name \notin GenericNames
                                /\ name \in ToSet(SwiftBases(m.name)) /\ (name = m.name => Colons(m.name) # {}))
ToSwift(sel) ==
    Each(SwiftBases(sel), LAMBDA base : SelectSeq(OfKind(base, Callable), LAMBDA m : m.lang = "swift" /\ m.id \in Exposed))
SwiftObjcClaims(r) == r.sep \in {":", "::", "cics-transid:", "module:"} \/ Colons(r.name) # {}
SwiftObjc(r) ==
    CASE r.lang = "swift" -> Found(ToObjc(r.name), 60)
      [] r.lang = "objc" -> Rule(Colons(r.name) # {}, Found(ToSwift(r.name), 60))
      [] OTHER -> <<>>

-----------------------------------------------------------------------------
(* react-native, expo-modules, fabric                                        *)

\* The exports of a file: macros of Objective-C, annotated methods of the JVM,
\* and the methods of a specification, which may be native on either side.
EmitterBuiltins == {<<"add", "Listener">>, <<"remove", "Listeners">>, <<"remove">>, <<"invalidate">>, <<"start", "Observing">>, <<"stop", "Observing">>}
ObjcExports(f) == MarksOf(f, {"RCT_EXPORT_METHOD"}) \o MarksOf(f, {"RCT_REMAP_METHOD"})
HasModule(f) == MarksOf(f, {"RCT_EXPORT_MODULE", "@implementation"}) # <<>>
NativeMethods(langs, name) == SelectSeq(nodes, LAMBDA m : m.kind = "method" /\ m.lang \in langs /\ FirstKeyword(m.name) = name)
HereFirst(f, ms) == First(SelectSeq(ms, LAMBDA m : m.file = f) \o ms)
Jvm == {"java", "kotlin"}
NativeOf(f, name) ==
    LET named(ms) == SelectSeq(ms, LAMBDA m : m.name = name)
        objc == IF HasModule(f) THEN named(ObjcExports(f)) ELSE <<>>
    IN  Each(objc, LAMBDA m : HereFirst(f, NativeMethods({"objc"}, m.native)))
        \o Each(named(MarksOf(f, {"@ReactMethod"})), LAMBDA m : HereFirst(f, NativeMethods(Jvm, m.name)))
        \o Each(named(MarksOf(f, {"TurboModule"})), LAMBDA m : NativeMethods({"objc"}, m.name) \o NativeMethods(Jvm, m.name))
ReactNative(r) ==
    LET entries == IF r.name \in EmitterBuiltins THEN <<>> ELSE Each(Sorted, LAMBDA f : NativeOf(f, r.name))
    IN  Rule(r.lang \in {"javascript", "typescript", "tsx", "jsx"},
             Found(SelectSeq(entries, LAMBDA m : m.lang = "objc") \o entries, 60))

\* A node for each exported name, once.
NewNamed(ms) == LET first == {i \in DOMAIN ms : \A j \in 1..i - 1 : ms[j].name # ms[i].name}
                IN  [k \in 1..Cardinality(first) |-> ms[SetToSortSeq(first, <)[k]]]
Exports(f, ms, kind, lang) ==
    LET node(m) == [Added(kind, f, lang, m.line, "", <<m.name>>) EXCEPT !.name = m.name, !.exported = TRUE]
    IN  Extracted([i \in DOMAIN ms |-> node(ms[i])], <<>>)
ReactNativeExtract(f) ==
    IF Ext(f) \in {".m", ".mm"} /\ MarksOf(f, {"RCT_EXPORT_MODULE"}) # <<>> THEN Exports(f, NewNamed(ObjcExports(f)), "method", "objc") ELSE Nothing

\* One export for a name and line.
ExpoExtract(f) ==
    LET ms == MarksOf(f, {"Function", "AsyncFunction", "Property", "Constants"})
        first == {i \in DOMAIN ms : \A j \in 1..i - 1 : ms[j].name # ms[i].name \/ ms[j].line # ms[i].line}
    IN  IF MarksOf(f, {": Module"}) = <<>> THEN Nothing
        ELSE Exports(f, [k \in 1..Cardinality(first) |-> ms[SetToSortSeq(first, <)[k]]], "method", LangIf(f, ".kt", "kotlin", "swift"))

\* deriveComponentNameFromManager, and the view managers of both platforms: a
\* component and its properties; a specification declares both itself.
ComponentName(cls) ==
    LET name == IF cls[1] = "RCT" THEN Tail(cls) ELSE cls
    IN  IF IsSuffix(<<"View", "Manager">>, name) THEN Front(Front(name)) ELSE IF Last(name) = "Manager" THEN Front(name) ELSE name
Managed(f, manager, props, lang) ==
    LET cls == First(MarksOf(f, {manager}))
        name == ComponentName(cls[1].name)
        known == cls # <<>> /\ Ends(cls[1].name, {"Manager"}) /\ cls[1].name # <<"RCT">>
    IN  IF props = <<>> \/ ~known THEN Nothing
        ELSE IF name = <<>> THEN Nothing
        ELSE Join(<<Exports(f, <<[line |-> cls[1].line, name |-> name]>>, "component", lang), Exports(f, NewNamed(props), "property", lang)>>)
FabricExtract(f) ==
    LET spec == MarksOf(f, {"codegenNativeComponent"})
        ts == LangIf(f, ".tsx", "tsx", "typescript")
    IN  CASE Ext(f) \in {".ts", ".tsx"} -> IF spec = <<>> THEN Nothing
                ELSE Join(<<Exports(f, spec, "component", ts), Exports(f, MarksOf(f, {"NativeProps"}), "property", ts)>>)
          [] Ext(f) \in {".m", ".mm"} -> Managed(f, "@implementation", MarksOf(f, {"VIEW_PROPERTY"}), "objc")
          [] Ext(f) \in {".java", ".kt"} -> Managed(f, "class", MarksOf(f, {"@ReactProp"}), LangIf(f, ".kt", "kotlin", "java"))
          [] OTHER -> Nothing

-----------------------------------------------------------------------------
(* cics and terraform                                                        *)

\* The module of the first data item with this transaction identifier whose file
\* has one; variables come before fields, these before constants.
CicsClaims(r) == r.sep = "cics-transid:"
Cics(r) ==
    LET holds(kind) == SelectSeq(nodes, LAMBDA m : /\ m.kind = kind /\ m.lang = "cobol" /\ m.id \in DOMAIN Transids /\ Transids[m.id] = r.name)
        modules == Each(holds("variable") \o holds("field") \o holds("constant"),
                        LAMBDA m : InFile(m.file, LAMBDA n : n.kind = "module" /\ n.lang = "cobol"))
    IN  Rule(CicsClaims(r), Found(modules, 85))

\* A scoped reference names a call of a module (recv[2]) and what it means there.
TerraformClaims(r) == r.sep = "module:"
InDir(ms, d) == SelectSeq(ms, LAMBDA m : Front(m.file) = d)
Qualified(path) == SelectSeq(nodes, LAMBDA m : m.lang = "terraform" /\ Path(m) = path)
Attr(decl, name) ==
    LET ms == SelectSeq(MarksOf(decl.file, {name}), LAMBDA m : decl.line <= m.line /\ m.line <= decl.last)
    IN  [i \in DOMAIN First(ms) |-> ms[1].value]

\* readModuleAttr: the component a remote state names, in full or by the default
\* of the only variable of the directory.
ComponentOf(decl) ==
    LET var == Each(Attr(decl, "component = var"), LAMBDA v : Unique(InDir(Qualified(<<<<"var">>, v>>), Front(decl.file))))
    IN  IF Attr(decl, "component") # <<>> THEN Attr(decl, "component") ELSE Each(var, LAMBDA v : Attr(v, "default"))
RemoteOutput(decl, name) ==
    LET outs == Each(ComponentOf(decl), LAMBDA c : SelectSeq(Qualified(<<<<"output">>, name>>), LAMBDA m : IsSuffix(c, Front(m.file))))
    IN  IF Cardinality({Front(m.file) : m \in ToSet(outs)}) > 1 THEN <<>> ELSE outs

EntryFile(d) ==
    LET files == SelectSeq(Sorted, LAMBDA f : Front(f) = d /\ Ext(f) \in {".tf", ".tofu"})
    IN  First(SelectSeq(files, LAMBDA f : Last(f) = <<"main", ".tf">>) \o files)

\* The call in the directory of the reference, else the only one.
ModuleCall(r) ==
    LET decls == SelectSeq(Qualified(SubSeq(r.recv, 1, 2)), LAMBDA m : m.kind = "module")
    IN  First(InDir(decls, Front(r.file)) \o Unique(decls))
BadScoped(r, decl, source) ==
    Found(Qualified(After(RefPath(r), 2)), 95)
Scoped(r, decl, source) ==
    LET child == After(RefPath(r), 2)
        dir == Resolve(Front(decl.file), source)
    IN  IF child[1] = <<"remote-output">>
        THEN IF <<"remote-state">> \in ToSet(Tail(source)) THEN Found(RemoteOutput(decl, r.name), 90) ELSE <<>>
        ELSE IF ~IsRelative(source) \/ dir = <<>> THEN <<>>
        ELSE IF child = <<<<"file">>>> THEN Found(Each(EntryFile(dir[1]), LAMBDA f : InFile(f, LAMBDA m : m.kind = "file")), 95)
        ELSE Found(InDir(Qualified(child), dir[1]), 95)

\* The nearest directory above.
Above(ms, d) == Each([k \in 1..Len(d) |-> SubSeq(d, 1, Len(d) - k)], LAMBDA up : InDir(ms, up))
Terraform(r) ==
    LET ms == Qualified(RefPath(r))
        d == Front(r.file)
        calls == ModuleCall(r)
        provider == r.recv # <<>> /\ r.recv[1] = <<"provider">>
        tfvars == Ext(r.file) = ".tfvars" /\ r.recv # <<>> /\ r.recv[1] = <<"var">>
    IN  IF r.lang # "terraform" THEN <<>>
        ELSE IF TerraformClaims(r) THEN Each(calls, LAMBDA c : Each(Attr(c, "source"), LAMBDA s : Scoped(r, c, s)))
        ELSE First(Found(InDir(ms, d), 95) \o Rule(tfvars, Found(Above(ms, d), 90))
                   \o Rule(provider, Found(Above(SelectSeq(ms, LAMBDA m : m.kind = "namespace"), d), 90)))
=============================================================================
