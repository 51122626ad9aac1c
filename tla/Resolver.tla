------------------------------ MODULE Resolver ------------------------------
(* The resolution of one reference (resolution/index.ts): the names nothing   *)
(* can match, the frameworks that were detected, the imports and the name     *)
(* matcher, in this order and gated by language, and the edge that comes of   *)
(* the answer.                                                                *)
EXTENDS NativeFrameworks

CONSTANTS BuiltIns,   \* names, receivers: of each language; methods: of Python's types
          Mentions,   \* what the text of a file mentions, of what the detections look for
          Symbols,    \* the nodes the language's extractor finds in a file
          Asked,      \* the references it finds
          Projects,   \* the files on disk of each project
          MaxPasses   \* bound on the passes of the engine

VARIABLES frameworks, \* the frameworks the resolver found when it was made
          todo,       \* the files this pass is to extract, in order
          refs,       \* the references this pass is to resolve, in order
          batch,      \* the edges of the references this batch has resolved
          passes      \* the passes begun
vars == <<tree, nodes, edges, frameworks, todo, refs, batch, passes>>

KnownNames == {m.name : m \in ToSet(nodes)}
Raised(n) == [n EXCEPT ![1] = Upper[@]]

\* hasAnyPossibleMatch, matchesAnyImport and claimsReference: what lets a
\* reference through; a call's receiver is no name.
Separators == {".", "::", ":", "$"}
Heads(r) == IF r.call /\ Len(r.recv) = 1 THEN {}
            ELSE {r.recv[1]} \cup IF r.sep = "::" THEN {} ELSE {Raised(r.recv[1])}
Possible(r) ==
    \/ r.name \in KnownNames /\ (r.recv = <<>> \/ r.sep \in Separators \cup {"/"})
    \/ r.recv # <<>> /\ r.sep \in Separators /\ Heads(r) \cap KnownNames # {}
Imports2(r) == \E i \in ToSet(Imports(r.file)) : IsLocal(i, r)
Claimed(r) ==
    \/ "laravel" \in frameworks /\ LaravelClaims(r)
    \/ "drupal" \in frameworks /\ DrupalClaims(r)
    \/ "django" \in frameworks /\ DjangoClaims(r)
    \/ "rails" \in frameworks /\ r.sep = "#"
    \/ "spring" \in frameworks /\ IsPrefixRef(r)
    \/ "play" \in frameworks /\ PlayClaims(r)
    \/ "swift-objc-bridge" \in frameworks /\ SwiftObjcClaims(r)
    \/ "cics" \in frameworks /\ CicsClaims(r)
    \/ "terraform" \in frameworks /\ TerraformClaims(r)
Passes(r) == IsNixPath(r) \/ Possible(r) \/ Imports2(r) \/ Claimed(r)

\* isBuiltInOrExternal: the languages' own names, unless the project has a class
\* of the receiver's name (Python) or anything that may match (C, C++).
Of(table, lang) == IF lang \in DOMAIN table THEN table[lang] ELSE {}
IsBuiltIn(r) ==
    \/ /\ Bare(r) /\ r.name \in Of(BuiltIns.names, r.lang)
       /\ r.lang \in {"c", "cpp"} => ~Possible(r)
    \/ r.recv # <<>> /\ r.sep \in {".", "::"} /\ r.recv[1] \in Of(BuiltIns.receivers, r.lang)
    \/ /\ r.lang = "python" /\ r.name \in BuiltIns.methods /\ ~r.call
       /\ \/ Bare(r) /\ r.name \notin KnownNames
          \/ Len(r.recv) = 1 /\ r.sep = "." /\ Raised(r.recv[1]) \notin KnownNames

-----------------------------------------------------------------------------
(* The gates on an answer.                                                   *)

Target(c) == CHOOSE m \in ToSet(nodes) : m.id = c.to.id
BadGated(answer, r) == answer
Gated(answer, r) == SelectSeq(answer, LAMBDA c :
    /\ r.kind \in {"references", "function_ref"} => SameFamily(Target(c).lang, r.lang)
    /\ r.kind = "imports" => ~CrossesKnown(Target(c).lang, r.lang))
FrameworkGated(answer, r) == SelectSeq(answer, LAMBDA c :
    r.kind \in {"references", "imports"} => ~CrossesKnown(Target(c).lang, r.lang))

\* A Nix name means something in its own file only, and to nothing else.
Contained(answer, r) == SelectSeq(answer, LAMBDA c :
    IF r.lang = "nix" THEN Target(c).file = r.file ELSE Target(c).lang # "nix")

-----------------------------------------------------------------------------
(* References with a ladder of their own.                                    *)

\* resolveCfmlComponentPath: the class in the file a path leads to, or the only
\* one whose directories end most like the dotted name.
LowPath(p) == [i \in DOMAIN p |-> LowerCase(p[i])]
Trailing(p, q) == Max({k \in 0..Min({Len(p), Len(q)}) : After(p, Len(p) - k) = After(q, Len(q) - k)})
CfmlPath(r) ==
    LET ms == SelectSeq(OfKind(r.name, {"class", "interface"}), LAMBDA m : m.lang \in {"cfml", "cfscript"})
        file == Each(Resolve(Front(r.file), RefPath(r)), LAMBDA p : <<LowPath(With(p, <<".cfc">>))>>)
        score(m) == Trailing(LowPath(r.recv), LowPath(Front(m.file)))
        top == SelectSeq(ms, LAMBDA m : score(m) > 0 /\ \A n \in ToSet(ms) : score(n) <= score(m))
    IN  IF r.sep = "/" THEN Found(SelectSeq(ms, LAMBDA m : <<LowPath(m.file)>> = file), 95) ELSE Found(Unique(top), 90)
IsCfmlPath(r) == r.lang \in {"cfml", "cfscript"} /\ r.kind \in {"extends", "implements"} /\ r.sep \in {".", "/"}

\* resolveRazorUsing: the only definition in the namespaces that the file, or an
\* _Imports.razor above it, uses.
Usings(f) ==
    LET above == [k \in 1..Len(f) |-> Append(SubSeq(f, 1, Len(f) - k), <<"_Imports", ".razor">>)]
    IN  ToSet(Each(<<f>> \o above, LAMBDA g : [i \in DOMAIN MarksOf(g, {"@using"}) |-> MarksOf(g, {"@using"})[i].namespace]))
RazorUsing(r) ==
    IF r.lang # "razor" \/ r.recv # <<>> THEN <<>>
    ELSE Found(Unique(SelectSeq(nodes, LAMBDA m : Path(m) \in {<<ns, r.name>> : ns \in Usings(r.file)})), 90)

\* resolveThisMemberFnRef: a member of the class around the reference, in its file.
ClassPath(m) == IF m.kind \in Bearing \cup {"module"} THEN Path(m) ELSE m.scope
ThisMember(r) ==
    LET from == SelectSeq(nodes, LAMBDA m : m.id = r.from)
        member(c, m) == ClassPath(c) # <<>> /\ Path(m) = Append(ClassPath(c), r.name)
    IN  Found(Topmost(Each(from, LAMBDA c : SelectSeq(nodes, LAMBDA m :
            member(c, m) /\ m.kind \in Callable /\ m.file = r.file /\ m.id # r.from))), 95)

\* A function used as a value goes by its import, then by its name.
FunctionRef(r) ==
    IF r.recv = <<<<"this">>>> THEN Gated(ThisMember(r), r)
    ELSE First(SelectSeq(Gated(ResolveViaImport(r), r), LAMBDA c : Target(c).kind \in Callable) \o Gated(MatchFunctionRef(r), r))

-----------------------------------------------------------------------------
(* resolveOne                                                                *)

\* The order of the registry.
Frameworks == <<"laravel", "drupal", "express", "nestjs", "react", "svelte", "vue", "astro", "django", "flask", "fastapi", "rails",
                "spring", "play", "go", "goframe", "rust", "aspnet", "swiftui", "uikit", "vapor", "swift-objc-bridge",
                "react-native-bridge", "expo-modules", "fabric-view", "cics", "terraform">>
Answer(framework, r) ==
    CASE framework = "laravel" -> Laravel(r) [] framework = "drupal" -> Drupal(r)   [] framework = "express" -> Express(r)
      [] framework = "nestjs" -> Nest(r)     [] framework = "react" -> React(r)     [] framework = "svelte" -> Svelte(r)
      [] framework = "vue" -> Vue(r)         [] framework = "astro" -> Astro(r)     [] framework = "django" -> Django(r)
      [] framework = "flask" -> Flask(r)     [] framework = "fastapi" -> FastApi(r) [] framework = "rails" -> Rails(r)
      [] framework = "spring" -> Spring(r)   [] framework = "play" -> Play(r)       [] framework = "go" -> Go(r)
      [] framework = "rust" -> Rust(r)       [] framework = "aspnet" -> CSharp(r)   [] framework = "swiftui" -> SwiftUI(r)
      [] framework = "uikit" -> UIKit(r)     [] framework = "vapor" -> Vapor(r)     [] framework = "swift-objc-bridge" -> SwiftObjc(r)
      [] framework = "react-native-bridge" -> ReactNative(r)
      [] framework = "cics" -> Cics(r)       [] framework = "terraform" -> Terraform(r)
      [] OTHER -> <<>>
FrameworkAnswers(r) ==
    Each(SelectSeq(Frameworks, LAMBDA fw : fw \in frameworks), LAMBDA fw : FrameworkGated(Answer(fw, r), r))

\* What the frameworks and the imports say, and then the names of the project,
\* unless the reference names a file: the first answer that is sure, else the
\* surest.
Sure == 90
NeverByName(r) == IsPhpInclude(r) \/ IsCopybook(r) \/ IsNixPath(r) \/ r.lang = "terraform"
ByName(r) == IF NeverByName(r) THEN <<>> ELSE Contained(Gated(MatchReference(r), r), r)
SureOrBest(tried, named) ==
    IF \E c \in ToSet(tried) : c.conf >= Sure THEN First(SelectSeq(tried, LAMBDA c : c.conf >= Sure))
    ELSE Best(tried \o named, LAMBDA c : c.conf)
ByStrategy(r) == SureOrBest(FrameworkAnswers(r) \o Gated(ResolveViaImport(r), r), ByName(r))

ResolveOne(r) ==
    CASE IsBuiltIn(r) -> <<>>
      [] ~IsBuiltIn(r) /\ IsCfmlPath(r) -> CfmlPath(r)
      [] ~IsBuiltIn(r) /\ ~IsCfmlPath(r) /\ ~Passes(r) -> <<>>
      [] OTHER -> IF r.kind = "function_ref" THEN FunctionRef(r) ELSE First(ViaJvm(r) \o RazorUsing(r) \o ByStrategy(r))

\* Calls on results that no strategy resolves wait for the types' conformances.
ChainLanguages == {"java", "kotlin", "csharp", "swift", "rust", "go", "scala", "dart", "objc", "pascal"}
Deferred(r) ==
    \/ r.kind = "calls" /\ r.call /\ r.lang \in ChainLanguages
    \/ r.kind = "function_ref" /\ r.recv = <<<<"this">>>>

\* createEdges: the kind the target asks for.
EdgeKind(r, from, to) ==
    CASE r.kind = "function_ref" -> "references"
      [] r.kind = "extends" /\ to.kind \in {"interface", "protocol"} /\ from.kind \notin {"interface", "protocol"} -> "implements"
      [] r.kind = "calls" /\ to.kind \in {"class", "struct"} -> "instantiates"
      [] OTHER -> r.kind
CreateEdge(r, c) ==
    LET from == CHOOSE m \in ToSet(nodes) : m.id = r.from
    IN  [ref |-> r, target |-> c.to.id, kind |-> EdgeKind(r, from, Target(c)), conf |-> c.conf]

-----------------------------------------------------------------------------
(* What a project uses: manifests and other files of the tree, and the files *)
(* in the index or, for the extraction, those of the scan.                   *)

At(name) == <<name>>
Says(f, words) == f \in tree /\ f \in DOMAIN Mentions /\ Mentions[f] \cap words # {}
Exists(fs) == fs \cap tree # {}
PackageJson == At(<<"package", ".json">>)
Depends(words) == Says(PackageJson, words)
AnyExt(fs, exts) == \E f \in ToSet(fs) : Ext(f) \in exts
AnySays(fs, exts, words) == \E f \in ToSet(fs) : Ext(f) \in exts /\ Says(f, words)
Early == 200   \* the files two of the detections look at
EarlySays(fs, exts, words) == AnySays(SubSeq(fs, 1, Min({Len(fs), Early})), exts, words)
EndsIn(fs, suffix) == \E f \in ToSet(fs) : IsSuffix(suffix, Last(f))

\* The detect functions, in the order of the registry.
PythonManifests == {At(<<"requirements", ".txt">>), At(<<"pyproject", ".toml">>), At(<<"setup", ".py">>)}
Entrypoints == {<<w, ".py">> : w \in {"app", "application", "main", "wsgi", "__init__"}}
SwiftText(fs, words) == AnySays(fs, {".swift"}, words)
LaravelUsed(fs) == Exists({At(<<"artisan">>), <<<<"app">>, <<"Http">>, <<"Kernel", ".php">>>>})
DrupalUsed(fs) ==
    \/ Says(At(<<"composer", ".json">>), {"drupal/"})
    \/ EndsIn(fs, <<".info", ".yml">>) /\ (EndsIn(fs, <<".routing", ".yml">>) \/ AnyExt(fs, HookFiles \ {".inc"}))
ExpressUsed(fs) ==
    \/ Depends({"express", "fastify", "koa", "hapi"})
    \/ \E f \in ToSet(fs) : /\ Says(f, {"express", "app.get", "router.get"})
                            /\ \E w \in {"routes", "controllers", "middleware"} : Shares(f, w)
NestUsed(fs) ==
    \/ Depends({"@nestjs/"})
    \/ \E f \in ToSet(fs) : /\ Says(f, {"@nestjs/", "@Controller", "@Module(", "@Resolver(", "@WebSocketGateway("})
                            /\ \E w \in {".controller", ".module", ".resolver", ".gateway"} :
                                   \/ IsSuffix(<<w, ".ts">>, Last(f))
                                   \/ w = ".controller" /\ IsSuffix(<<w, ".js">>, Last(f))
ReactUsed(fs) == Depends({"react", "next", "react-native"}) \/ AnyExt(fs, {".jsx", ".tsx"})
SvelteUsed(fs) == Depends({"svelte", "@sveltejs/kit"}) \/ AnyExt(fs, {".svelte"})
VueUsed(fs) == Depends({"vue", "nuxt", "@nuxt/kit"}) \/ AnyExt(fs, {".vue"})
AstroUsed(fs) == Depends({"astro"}) \/ AnyExt(fs, {".astro"})
DjangoUsed(fs) == (\E f \in PythonManifests : Says(f, {"django"})) \/ Exists({At(<<"manage", ".py">>)})
FlaskUsed(fs) ==
    \/ \E f \in PythonManifests \cup {At(<<"Pipfile">>)} : Says(f, {"flask"})
    \/ \E f \in ToSet(fs) : Last(f) \in Entrypoints /\ Says(f, {"Flask("}) /\ Says(f, {"import flask", "from flask"})
FastApiUsed(fs) ==
    \/ \E f \in PythonManifests \ {At(<<"setup", ".py">>)} : Says(f, {"fastapi"})
    \/ \E w \in {"app", "main", "api"} : Says(At(<<w, ".py">>), {"FastAPI("})
RailsUsed(fs) ==
    \/ Says(At(<<"Gemfile">>), {"rails"})
    \/ Exists({<<<<"config">>, <<"application", ".rb">>>>, <<<<"config">>, <<"routes", ".rb">>>>,
               App(<<"controllers">>, <<"application", "_controller">>)})
SpringUsed(fs) ==
    \/ \E f \in {<<"pom", ".xml">>, <<"build", ".gradle">>, <<"build", ".gradle", ".kts">>} : Says(At(f), {"spring-boot", "springframework"})
    \/ AnySays(fs, {".java"}, {"@SpringBootApplication", "@RestController", "@Service", "@Repository"})
PlayUsed(fs) == Says(At(<<"build", ".sbt">>), {"play"}) \/ Exists({<<<<"conf">>, <<"routes">>>>, <<<<"conf">>, <<"application", ".conf">>>>})
GoUsed(fs) == Exists({At(<<"go", ".mod">>)}) \/ AnyExt(fs, {".go"})
GoFrameUsed(fs) == Says(At(<<"go", ".mod">>), {"github.com/gogf/gf"})
RustUsed(fs) == Exists({At(<<"Cargo", ".toml">>)})
AspNetUsed(fs) ==
    \/ AnySays(fs, {".csproj"}, {"Microsoft.AspNetCore", "Microsoft.NET.Sdk.Web", "System.Web.Mvc"})
    \/ Says(At(<<"Program", ".cs">>), {"WebApplication", "CreateHostBuilder", "UseStartup"})
    \/ Exists({At(<<"Startup", ".cs">>)})
    \/ \E f \in ToSet(fs) : /\ \E w \in {"Controller", "Program", "Startup"} : IsSuffix(<<w, ".cs">>, Last(f))
                            /\ Says(f, {"[ApiController", "[Route", "[Http", "ControllerBase", ": Controller", "MapControllers",
                                        "WebApplication", "Microsoft.AspNetCore"})
SwiftUIUsed(fs) == SwiftText(fs, {"import SwiftUI"}) \/ AnyExt(fs, {".xcodeproj", ".xcworkspace"})
UIKitUsed(fs) == SwiftText(fs, {"import UIKit", "UIViewController", "UIView"})
VaporUsed(fs) == Says(At(<<"Package", ".swift">>), {"vapor"}) \/ SwiftText(fs, {"import Vapor"})
SwiftObjcUsed(fs) == AnyExt(fs, {".swift"}) /\ AnyExt(fs, {".m", ".mm"})
ReactNativeUsed(fs) ==
    \/ Depends({"react-native"})
    \/ EarlySays(fs, {".mm", ".m"}, {"RCT_EXPORT_MODULE"}) \/ EarlySays(fs, {".ts", ".tsx"}, {"TurboModuleRegistry"})
ExpoUsed(fs) == Depends({"expo-modules-core"}) \/ EarlySays(fs, {".swift", ".kt"}, {": Module"})
FabricUsed(fs) ==
    \E f \in tree : /\ f = PackageJson \/ (Len(f) = 3 /\ Last(f) = <<"package", ".json">>
                                          /\ f[1][1] \in {"packages", "apps", "modules", "libraries"})
                    /\ Says(f, {"react-native"})
CicsUsed(cobol) == cobol
TerraformUsed(fs) == AnyExt(fs, {".tf", ".tfvars", ".tofu"})
Detects(framework, fs, cobol) ==
    CASE framework = "laravel" -> LaravelUsed(fs) [] framework = "drupal" -> DrupalUsed(fs)
      [] framework = "express" -> ExpressUsed(fs) [] framework = "nestjs" -> NestUsed(fs)
      [] framework = "react" -> ReactUsed(fs) [] framework = "svelte" -> SvelteUsed(fs)
      [] framework = "vue" -> VueUsed(fs) [] framework = "astro" -> AstroUsed(fs)
      [] framework = "django" -> DjangoUsed(fs) [] framework = "flask" -> FlaskUsed(fs)
      [] framework = "fastapi" -> FastApiUsed(fs) [] framework = "rails" -> RailsUsed(fs)
      [] framework = "spring" -> SpringUsed(fs) [] framework = "play" -> PlayUsed(fs)
      [] framework = "go" -> GoUsed(fs) [] framework = "goframe" -> GoFrameUsed(fs)
      [] framework = "rust" -> RustUsed(fs) [] framework = "aspnet" -> AspNetUsed(fs)
      [] framework = "swiftui" -> SwiftUIUsed(fs) [] framework = "uikit" -> UIKitUsed(fs)
      [] framework = "vapor" -> VaporUsed(fs) [] framework = "swift-objc-bridge" -> SwiftObjcUsed(fs)
      [] framework = "react-native-bridge" -> ReactNativeUsed(fs) [] framework = "expo-modules" -> ExpoUsed(fs)
      [] framework = "fabric-view" -> FabricUsed(fs) [] framework = "cics" -> CicsUsed(cobol)
      [] framework = "terraform" -> TerraformUsed(fs)
DetectFrameworks(fs, cobol) == {fw \in ToSet(Frameworks) : Detects(fw, fs, cobol)}

\* initialize: the resolver looks at the index, once, when the engine opens it.
IndexedFiles == SelectSeq(Sorted, LAMBDA f : \E m \in ToSet(nodes) : m.file = f)
CobolIndexed == \E m \in ToSet(nodes) : m.kind = "module" /\ m.lang = "cobol"

-----------------------------------------------------------------------------
\* getApplicableFrameworks: what has no languages applies to all.
JsAndTs == {"javascript", "typescript"}
Languages ==
    [laravel |-> {"php"}, drupal |-> {"php", "yaml"}, express |-> JsAndTs, nestjs |-> JsAndTs, react |-> JsAndTs \cup {"tsx", "jsx"},
     svelte |-> {"svelte"}, django |-> {"python"}, flask |-> {"python"}, fastapi |-> {"python"}, rails |-> {"ruby"},
     spring |-> {"java", "kotlin", "yaml", "properties"}, play |-> {"scala", "java", "yaml"}, go |-> {"go"}, goframe |-> {"go"},
     rust |-> {"rust"}, aspnet |-> {"csharp"}, swiftui |-> {"swift"}, uikit |-> {"swift"}, vapor |-> {"swift"}]
     @@ ("swift-objc-bridge" :> {"swift", "objc"}) @@ ("react-native-bridge" :> JsAndTs \cup {"tsx", "jsx", "objc"})
     @@ ("expo-modules" :> {"swift", "kotlin"}) @@ ("fabric-view" :> {"typescript", "tsx", "objc", "java", "kotlin"})
     @@ [cics |-> {"cobol"}, terraform |-> {"terraform"}]
Applicable(detected, lang) ==
    SelectSeq(Frameworks, LAMBDA fw : fw \in detected /\ (fw \in DOMAIN Languages => lang \in Languages[fw]))

\* What each framework extracts from the text of a file.
FrameworkExtract(framework, f) ==
    CASE framework = "laravel" -> LaravelExtract(f) [] framework = "drupal" -> DrupalExtract(f)   [] framework = "express" -> ExpressExtract(f)
      [] framework = "nestjs" -> NestExtract(f)     [] framework = "react" -> ReactExtract(f)     [] framework = "svelte" -> SvelteExtract(f)
      [] framework = "vue" -> VueExtract(f)         [] framework = "astro" -> AstroExtract(f)     [] framework = "django" -> DjangoExtract(f)
      [] framework = "flask" -> FlaskExtract(f)     [] framework = "fastapi" -> FastApiExtract(f) [] framework = "rails" -> RailsExtract(f)
      [] framework = "spring" -> SpringExtract(f)   [] framework = "play" -> PlayExtract(f)       [] framework = "go" -> GoExtract(f)
      [] framework = "goframe" -> GoFrameExtract(f) [] framework = "rust" -> RustExtract(f)       [] framework = "aspnet" -> CSharpExtract(f)
      [] framework = "swiftui" -> SwiftUIExtract(f) [] framework = "uikit" -> UIKitExtract(f)     [] framework = "vapor" -> VaporExtract(f)
      [] framework = "react-native-bridge" -> ReactNativeExtract(f) [] framework = "expo-modules" -> ExpoExtract(f)
      [] framework = "fabric-view" -> FabricExtract(f)
      [] OTHER -> Nothing

\* extractFromSource: the symbols of the language, then what the frameworks of
\* the scanned files add.
Extraction(f, detected) ==
    LET fws == Applicable(detected, LangOf[f])
    IN  Join(<<Extracted(Symbols[f], Asked[f])>> \o [i \in DOMAIN fws |-> FrameworkExtract(fws[i], f)])

-----------------------------------------------------------------------------
(* The passes of the engine: it is opened, extracts the files that are new or *)
(* changed, in the order of the scan, and resolves their references.          *)

Init ==
    /\ nodes = <<>> /\ refs = <<>> /\ edges = {} /\ batch = {} /\ passes = 1
    /\ tree \in Projects
    /\ todo = SelectSeq(Sorted, LAMBDA f : f \in tree)
    /\ frameworks = DetectFrameworks(<<>>, FALSE)

\* The files of the scan: those in the index and those this pass is to add.
Scanned == SelectSeq(Sorted, LAMBDA f : f \in ToSet(todo) \cup ToSet(IndexedFiles))

\* A file's old nodes and edges go, and the new ones come last; edges to it stay.
Store(f, found) ==
    /\ nodes' = SelectSeq(nodes, LAMBDA m : m.file # f) \o found.nodes
    /\ refs' = refs \o found.refs
    /\ edges' = {e \in edges : e.ref.file # f}
ExtractFile ==
    /\ todo # <<>>
    /\ Store(Head(todo), Extraction(Head(todo), DetectFrameworks(Scanned, FALSE)))
    /\ todo' = Tail(todo)
    /\ UNCHANGED <<tree, frameworks, batch, passes>>

\* resolveAndPersistBatched: reference by reference; the edges are inserted when
\* the last one of the batch is done (5000 in the code, a pass's all here).
ResolveNext ==
    /\ todo = <<>> /\ refs # <<>>
    /\ LET found == batch \cup {CreateEdge(Head(refs), c) : c \in ToSet(ResolveOne(Head(refs)))}
           last == Tail(refs) = <<>>
       IN  /\ batch' = IF last THEN {} ELSE found
           /\ edges' = IF last THEN edges \cup found ELSE edges
    /\ refs' = Tail(refs)
    /\ UNCHANGED <<tree, nodes, frameworks, todo, passes>>

\* The next job opens the engine anew; one of the files has changed.
NextPass ==
    /\ todo = <<>> /\ refs = <<>> /\ passes < MaxPasses
    /\ frameworks' = DetectFrameworks(IndexedFiles, CobolIndexed)
    /\ \E f \in ToSet(IndexedFiles) : todo' = <<f>>
    /\ passes' = passes + 1
    /\ UNCHANGED <<tree, nodes, edges, refs, batch>>

Next == ExtractFile \/ ResolveNext \/ NextPass
Spec == Init /\ [][Next]_vars

-----------------------------------------------------------------------------
(* Properties, of the edges while no file is half indexed.                   *)

Node(id) == CHOOSE m \in ToSet(nodes) : m.id = id
Made == IF todo = <<>> THEN edges ELSE {}

\* The two strategies that answer before any gate, by a full name: the import of a
\* Java or Kotlin class, and a name in a namespace that a Razor file uses.
ByFullName(r, to) ==
    \/ r.kind = "imports" /\ r.lang \in {"java", "kotlin"} /\ Path(to) = <<FlattenSeq(r.recv), r.name>>
    \/ r.lang = "razor" /\ Path(to) \in {<<ns, r.name>> : ns \in Usings(r.file)}

\* A reference or an import crosses from one family of languages to another only
\* by a full name, through one of the two strategies that no gate stands behind,
\* and no name is looked up in Nix from outside, nor from one Nix file in another:
\* the gates stand behind three ladders of strategies that search the whole
\* project by name.
LanguagesKept ==
    \A e \in Made :
        LET to == Node(e.target)
        IN  /\ e.ref.kind \in {"references", "imports"} => ~CrossesKnown(to.lang, e.ref.lang) \/ ByFullName(e.ref, to)
            /\ "nix" \in {to.lang, e.ref.lang} /\ e.ref.kind # "imports" => to.file = e.ref.file

\* A call of a member of an imported class is never linked to the class when the
\* class has this member: the import names the class only, and the caller would
\* be lost to everyone who asks for the member's callers.
MembersCalled ==
    \A e \in Made : e.ref.kind = "calls" /\ e.ref.recv # <<>> /\ ~e.ref.call =>
        LET to == Node(e.target)
        IN  to.kind \in Containers =>
                ~ \E m \in ToSet(OfFile(to.file)) : m.kind \in Callable /\ Path(m) = Append(Path(to), Member(e.ref))

\* Of two classes of one name, a receiver that no import explains means the one
\* in its own file, whatever the order of the rows: a file that is indexed again
\* moves to the end of the table.
OwnFileFirst ==
    \A e \in Made :
        LET r == e.ref  to == Node(e.target)
        IN  r.recv # <<>> /\ to.kind = "method" /\ to.file # r.file /\ (\A i \in ToSet(Imports(r.file)) : i.local # r.recv[1]) =>
                ~ \E m \in ToSet(OfFile(r.file)) : m.kind = "method" /\ Path(m) = Path(to)

\* A Terraform name means something in its own module only, though every module
\* of a project names its variables, outputs and module calls alike: what a call
\* is asked for lies in the directory that the source of this call names (the one
\* in the directory of the reference, when there are several of its name), all
\* else in the directory of the reference, and only the variables of a .tfvars
\* file and the providers above it.
ModulesScoped ==
    \A e \in Made : e.ref.lang = "terraform" =>
        LET r == e.ref  dir == Front(Node(e.target).file)
        IN  IF r.sep = "module:"
            THEN \E c \in ToSet(nodes) : /\ c.kind = "module" /\ Path(c) = SubSeq(r.recv, 1, 2)
                                         /\ \E s \in ToSet(Attr(c, "source")) : Resolve(Front(c.file), s) = <<dir>>
                                         /\ Front(c.file) # Front(r.file) =>
                                                \A d \in ToSet(nodes) : d.kind = "module" /\ Path(d) = Path(c) => d = c
            ELSE IF Ext(r.file) = ".tfvars" \/ r.recv[1] = <<"provider">> THEN IsPrefix(dir, Front(r.file))
            ELSE dir = Front(r.file)

=============================================================================
