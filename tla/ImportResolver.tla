---------------------------- MODULE ImportResolver ----------------------------
(* Import-based resolution (import-resolver.ts, path-aliases.ts,              *)
(* workspace-packages.ts).  The path of an import is a sequence of segments,  *)
(* each a name; a relative one begins with "." or "..".  The last segment of  *)
(* a file's path ends in its extension: <<"src">>, <<"main", ".ts">>.         *)
EXTENDS NameMatcher

CONSTANTS Aliases,      \* the paths of tsconfig.json, in its order: [prefix, wildcard, suffix, targets]
          Packages,     \* package.json: [globs (the packages each finds), deps], each [name, dir, entry]
          BuildFiles,   \* [db: at most one compilation database, listing: the directories of the root]
          GoModule,     \* the module path of go.mod (a sequence of at most one path)
          Stdlib        \* the modules each language's standard library has

VARIABLE tree          \* the files of the project, indexed or not

Dot == <<".">>
DotDot == <<"..">>
IsRelative(p) == p # <<>> /\ p[1] \in {Dot, DotDot}

\* path.resolve and path.relative: the path from the root, or none outside it.
Step(paths, seg) ==
    IF paths = <<>> \/ seg = Dot THEN paths
    ELSE IF seg # DotDot THEN <<Append(paths[1], seg)>>
    ELSE IF paths[1] = <<>> THEN <<>> ELSE <<Front(paths[1])>>
Resolve(dir, p) == FoldLeft(Step, <<dir>>, p)

\* EXTENSION_RESOLUTION: what may follow the path of an import; a suffix that
\* begins with "/" names a file in the directory of this path.
Ts == <<".ts">>
Js == <<".js">>
Index(ext) == <<"/", "index">> \o ext
Component(ext) == <<Ts, Js, ext, <<".tsx">>, <<".jsx">>, Index(Ts), Index(Js), Index(ext)>>
ExtensionResolution ==
    [typescript |-> <<Ts, <<".tsx">>, <<".d", ".ts">>, Js, <<".jsx">>, Index(Ts), Index(<<".tsx">>), Index(Js)>>,
     arkts      |-> <<<<".ets">>, Ts, <<".d", ".ts">>, Js, <<"/", "Index", ".ets">>, Index(<<".ets">>), Index(Ts), Index(Js)>>,
     javascript |-> <<Js, <<".jsx">>, <<".mjs">>, <<".cjs">>, Index(Js), Index(<<".jsx">>)>>,
     tsx        |-> <<<<".tsx">>, Ts, <<".d", ".ts">>, Js, <<".jsx">>, Index(<<".tsx">>), Index(Ts), Index(Js)>>,
     jsx        |-> <<<<".jsx">>, Js, Index(<<".jsx">>), Index(Js)>>,
     svelte |-> Component(<<".svelte">>), vue |-> Component(<<".vue">>), astro |-> Component(<<".astro">>),
     python |-> <<<<".py">>, <<"/", "__init__", ".py">>>>, rust |-> <<<<".rs">>, <<"/", "mod", ".rs">>>>,
     nix    |-> <<<<".nix">>, <<"/", "default", ".nix">>>>,
     c      |-> <<<<".h">>, <<".c">>>>,
     cpp    |-> <<<<".h">>, <<".hpp">>, <<".hxx">>, <<".cpp">>, <<".cc">>, <<".cxx">>>>,
     objc   |-> <<<<".h">>, <<".m">>, <<".mm">>>>,
     go |-> <<<<".go">>>>, java |-> <<<<".java">>>>, csharp |-> <<<<".cs">>>>, php |-> <<<<".php">>>>, ruby |-> <<<<".rb">>>>]

Extensions(lang) == IF lang \in DOMAIN ExtensionResolution THEN ExtensionResolution[lang] ELSE <<>>
With(base, suffix) == IF suffix[1] = "/" THEN Append(base, Tail(suffix)) ELSE [base EXCEPT ![Len(base)] = @ \o suffix]

\* tryWithExt: the path with the first extension that names a file, or as it is.
TryWithExt(base, lang) ==
    First(SelectSeq([i \in DOMAIN Extensions(lang) |-> With(base, Extensions(lang)[i])] \o <<base>>, LAMBDA f : f \in tree))
TryAll(bases, lang) == First(FlattenSeq([i \in DOMAIN bases |-> IF bases[i] = <<>> THEN <<>> ELSE TryWithExt(bases[i], lang)]))

-----------------------------------------------------------------------------
(* Paths that are not relative.                                              *)

\* loadProjectAliases sorts: the longest prefix first, an exact one before a wildcard.
Patterns == SortSeq(Aliases, LAMBDA a, b : \/ Len(a.prefix) > Len(b.prefix)
                                           \/ Len(a.prefix) = Len(b.prefix) /\ ~a.wildcard /\ b.wildcard)

\* applyAliases: the targets of the first pattern that matches, but for those
\* outside the project.
Matches(pat, p) ==
    /\ IsPrefix(pat.prefix, p)
    /\ IsSuffix(pat.suffix, p)
    /\ pat.wildcard \/ p = pat.prefix
Captured(pat, p) == IF pat.wildcard THEN SubSeq(p, Len(pat.prefix) + 1, Len(p) - Len(pat.suffix)) ELSE <<>>
ApplyAliases(p) ==
    LET pat == First(SelectSeq(Patterns, LAMBDA a : Matches(a, p)))
    IN  IF pat = <<>> THEN <<>>
        ELSE FlattenSeq([i \in DOMAIN pat[1].targets |-> Resolve(<<>>, pat[1].targets[i] \o Captured(pat[1], p))])

\* expandWorkspaceGlob and loadWorkspacePackages: of two packages of one name
\* the first counts; packages named in the file: dependencies of HarmonyOS
\* modules count when all manifests agree and no package has the name.
Workspaces ==
    LET named == FlattenSeq(Packages.globs)
        first == {i \in DOMAIN named : \A j \in 1..i - 1 : named[j].name # named[i].name}
        agreed == SelectSeq(Packages.deps, LAMBDA d : /\ \A e \in ToSet(Packages.deps) : e.name = d.name => e.dir = d.dir
                                             /\ \A w \in ToSet(named) : w.name # d.name)
    IN  SetToSortSeq({named[i] : i \in first} \cup ToSet(agreed), LAMBDA a, b : Len(a.name) < Len(b.name))

\* resolveWorkspaceImport: below the package with the longest name, or its entry.
InPackage(pkg, p) == IF p = pkg.name /\ pkg.entry # <<>> THEN pkg.entry ELSE pkg.dir \o After(p, Len(pkg.name))
ResolveWorkspaceImport(p) ==
    Each(Best(SelectSeq(Workspaces, LAMBDA w : IsPrefix(w.name, p)), LAMBDA w : Len(w.name)), LAMBDA w : <<InPackage(w, p)>>)

\* isExternalImport
JsLike == {"typescript", "javascript", "tsx", "jsx", "arkts"}
Fallbacks == <<[from |-> <<"@">>, to |-> <<"src">>], [from |-> <<"~">>, to |-> <<"src">>],
               [from |-> <<"@src">>, to |-> <<"src">>], [from |-> <<"src">>, to |-> <<"src">>],
               [from |-> <<"@app">>, to |-> <<"app">>], [from |-> <<"app">>, to |-> <<"app">>]>>
InGoModule(p) == GoModule # <<>> /\ IsPrefix(GoModule[1], p)

IsExternal(p, lang) ==
    /\ ~IsRelative(p)
    /\ ResolveWorkspaceImport(p) = <<>>
    /\ CASE lang \in JsLike -> \/ Len(p) = 1 /\ p[1] \in Stdlib[lang]
                               \/ /\ \A pat \in ToSet(Aliases) : ~IsPrefix(pat.prefix, p)
                                  /\ Len(p) = 1 \/ p[1] \notin {<<"@">>, <<"~">>, <<"src">>}
         [] lang = "python" -> p[1] \in Stdlib[lang]
         [] lang = "go" -> ~InGoModule(p) /\ ~(Len(p) > 2 /\ <<"internal">> \in ToSet(Tail(Front(p))))
         [] lang \in {"c", "cpp"} -> Len(p) = 1 /\ (p[1] \in Stdlib[lang] \/ (Last(p[1]) = ".h" /\ Front(p[1]) \in Stdlib[lang]))
         [] OTHER -> FALSE

\* loadCppIncludeDirs: the directories of the compilation database that lie in
\* the project (also when there are none), else those named or filled like
\* directories of headers.
Conventional == {<<"include">>, <<"src">>, <<"lib">>, <<"api">>, <<"inc">>}
Headers == {".h", ".hpp", ".hxx", ".hh"}
IncludeDirs ==
    LET inside == FlattenSeq([i \in DOMAIN BuildFiles.db[1] |-> Resolve(BuildFiles.db[1][i].directory, BuildFiles.db[1][i].dir)])
        headed(d) == \E f \in tree : Len(f) = 2 /\ f[1] = d /\ Last(f[2]) \in Headers
    IN  IF BuildFiles.db # <<>> THEN SetToSortSeq(ToSet(inside) \ {<<>>}, LAMBDA a, b :
                                   Min({i \in DOMAIN inside : inside[i] = a}) < Min({i \in DOMAIN inside : inside[i] = b}))
        ELSE SelectSeq([i \in DOMAIN BuildFiles.listing |-> <<BuildFiles.listing[i]>>], LAMBDA d : LowerCase(d[1]) \in Conventional \/ headed(d[1]))

ResolveCppInclude(p, lang) ==
    TryAll([i \in DOMAIN IncludeDirs |-> IncludeDirs[i] \o p], lang)

\* resolveAliasedImport: the aliases, the workspace, the usual aliases, the root.
ResolveAliased(p, lang) ==
    LET usual == SelectSeq(Fallbacks, LAMBDA a : Len(p) > 1 /\ p[1] = a.from)
    IN  TryAll(ApplyAliases(p) \o ResolveWorkspaceImport(p)
               \o [i \in DOMAIN usual |-> <<usual[i].to>> \o Tail(p)] \o <<p>>, lang)

\* resolveCobolCopybook: the file of this stem, copybooks first, then programs,
\* those in the directory of the reference before others.
ResolveCobolCopybook(p, from) ==
    LET files == SelectSeq(nodes, LAMBDA m : m.kind = "file" /\ LowerCase(Front(Last(m.file))) = LowerCase(Last(p)))
        score(m) == (CASE Lower[Last(Last(m.file))] = ".cpy" -> 4
                       [] Lower[Last(Last(m.file))] \in {".cbl", ".cob", ".cobol"} -> 2
                       [] OTHER -> 0)
                    + IF Front(m.file) = Front(from) THEN 1 ELSE 0
        best == Best(files, score)
    IN  [i \in DOMAIN best |-> best[i].file]

\* The sources of Python, Java, Kotlin and PHP are dotted names, not paths: but
\* for relative ones and single segments they name no file here.
DottedSource == {"python", "java", "kotlin", "php"}

ResolveImportPath(p, from, lang) ==
    CASE lang = "cobol" -> ResolveCobolCopybook(p, from)
      [] lang # "cobol" /\ IsExternal(p, lang) -> <<>>
      [] IsRelative(p) -> TryAll(Resolve(Front(from), p), lang)
      [] OTHER -> IF lang \in DottedSource /\ Len(p) > 1 THEN <<>>
                  ELSE First(ResolveAliased(p, lang) \o IF lang \in {"c", "cpp"} THEN ResolveCppInclude(p, lang) ELSE <<>>)

\* resolvePhpIncludePath: relative to the file only, as it is before ".php".
ResolvePhpInclude(p, from) ==
    First(SelectSeq(Each(Resolve(Front(from), p), LAMBDA b : IF b = <<>> THEN <<>> ELSE <<b, With(b, <<".php">>)>>), LAMBDA f : f \in tree))

-----------------------------------------------------------------------------
(* The symbol an import names.                                               *)

InFile(f, Test(_)) == First(SelectSeq(OfFile(f), Test))
FileNode(f) == First(SelectSeq(nodes, LAMBDA m : m.kind = "file" /\ m.file = f))

\* findExportedSymbol: declared and exported here, else forwarded under this
\* name, else under any name, each file entered once and eight forwards deep.
\* The files entered are handed on from branch to branch.
Declared(f, want) ==
    IF want.isDefault
    THEN First(InFile(f, LAMBDA m : m.exported /\ m.kind = "component")
               \o InFile(f, LAMBDA m : m.exported /\ m.kind \in {"function", "class"}))
    ELSE InFile(f, LAMBDA m : m.exported /\ m.name = IF want.isNamespace THEN want.member ELSE want.name)

Forwards(f, want) ==
    SelectSeq(ReExportsOf(f), LAMBDA x : x.kind = "named" /\ x.exported = want.name)
    \o SelectSeq(ReExportsOf(f), LAMBDA x : x.kind = "wildcard")
Onwards(x, want) == IF x.kind = "wildcard" THEN want
                    ELSE [isDefault |-> x.original = <<"default">>, isNamespace |-> FALSE, name |-> x.original, member |-> <<>>]

MaxForwards == 8
RECURSIVE FindExported(_, _, _, _, _)
FindExported(f, want, lang, entered, depth) ==
    LET enter(acc, next, x) ==
            IF acc.hit # <<>> \/ next = <<>> THEN acc
            ELSE FindExported(next[1], Onwards(x, want), lang, acc.entered, depth + 1)
    IN  IF depth > MaxForwards \/ f \in entered THEN [hit |-> <<>>, entered |-> entered]
        ELSE IF Declared(f, want) # <<>> THEN [hit |-> Declared(f, want), entered |-> entered \cup {f}]
        ELSE FoldLeft(LAMBDA acc, x : enter(acc, ResolveImportPath(x.source, f, lang), x),
                      [hit |-> <<>>, entered |-> entered \cup {f}], Forwards(f, want))

\* resolveStaticMember: the member of an imported class, in the class's file.
Containers == {"class", "struct", "interface", "enum", "trait", "protocol"}
Member(r) == IF Len(r.recv) < 2 THEN r.name ELSE IF r.call /\ Len(r.recv) = 2 THEN <<>> ELSE r.recv[2]
StaticMember(c, r) ==
    LET ms == SelectSeq(OfFile(c.file), LAMBDA m : Path(m) = Append(Path(c), Member(r)))
    IN  IF c.kind \notin Containers THEN <<>>
        ELSE First((IF r.kind = "calls" THEN SelectSeq(ms, LAMBDA m : m.kind \in Callable) ELSE <<>>) \o ms)

\* The loop at the end of resolveViaImport.  A reference names an import by
\* itself or as its receiver; a longer chain names no member of a namespace.
IsLocal(i, r) == IF r.recv = <<>> THEN i.local = r.name
                 ELSE r.sep = "." /\ r.recv[1] = i.local /\ (r.call => Len(r.recv) > 1)
Wanted(i, r) == [isDefault |-> i.isDefault, isNamespace |-> i.isNamespace, name |-> i.exported,
                 member |-> IF Len(r.recv) > 1 THEN <<>> ELSE r.name]
Exported(i, r) ==
    Each(ResolveImportPath(i.source, r.file, r.lang), LAMBDA f : FindExported(f, Wanted(i, r), r.lang, {}, 0).hit)
MemberOrSelf(hit, i, r) ==
    IF hit # <<>> /\ ~i.isNamespace /\ r.recv # <<>> THEN First(StaticMember(hit[1], r) \o hit) ELSE hit
BadViaMapping(i, r) == Exported(i, r)
ViaMapping(i, r) == MemberOrSelf(Exported(i, r), i, r)

-----------------------------------------------------------------------------
(* What single languages do instead.                                         *)

RefPath(r) == Append(r.recv, r.name)
Mappings(r, Test(_)) == SelectSeq(Imports(r.file), Test)

\* resolveGoCrossPackageReference: exported from the package's directory.
ViaGo(r) ==
    LET of(i) == SelectSeq(Named(r.name), LAMBDA m : /\ m.lang = "go" /\ m.exported
                                                     /\ GoModule[1] \o Front(m.file) = i.source)
    IN  IF GoModule = <<>> \/ Len(r.recv) # 1 \/ r.sep # "." THEN <<>>
        ELSE Found(Each(Mappings(r, LAMBDA i : i.local = r.recv[1] /\ InGoModule(i.source)), of), 90)

\* resolveJavaImportedReference: in the file of the imported class, or, for a
\* static import, in that of its owner.
ViaJava(r) ==
    LET ext == IF r.lang = "kotlin" THEN ".kt" ELSE ".java"
        file(fqn) == [fqn EXCEPT ![Len(fqn)] = Append(@, ext)]
        in(fqn) == SelectSeq(Named(r.name), LAMBDA m : m.lang = r.lang /\ EndsWith(m.file, file(fqn)))
        of(i) == in(i.source) \o IF r.recv = <<>> /\ Len(i.source) > 1 THEN in(Front(i.source)) ELSE <<>>
    IN  IF Len(r.recv) > 1 THEN <<>> ELSE Found(Each(Mappings(r, LAMBDA i : IsLocal(i, r)), of), 90)

\* findPythonModuleFile: the module, else the package, that ends like this.
PythonModule(mod, r) ==
    LET files(p) == SelectSeq(nodes, LAMBDA m : m.kind = "file" /\ m.file # r.file /\ IsSuffix(p, m.file))
    IN  IF mod = <<>> \/ IsRelative(mod) THEN <<>>
        ELSE First(files(With(mod, <<".py">>)) \o files(With(mod, <<"/", "__init__", ".py">>)))

\* resolvePythonModuleMember: a member of an imported module.
ModuleOf(i) == IF i.isNamespace THEN i.source ELSE Append(i.source, i.local)
PythonFile(mod, r) == ResolveImportPath(mod, r.file, r.lang) \o Each(PythonModule(mod, r), LAMBDA m : <<m.file>>)
OtherFile(files, r) == SelectSeq(First(files), LAMBDA f : f # r.file)
PythonMembers(i, r) ==
    Each(OtherFile(PythonFile(ModuleOf(i), r), r), LAMBDA f : InFile(f, LAMBDA m :
        m.name = Member(r) /\ m.kind \in {"function", "class", "variable", "constant"}))
ViaPython(r) ==
    (IF r.recv = <<>> THEN <<>>
     ELSE Found(Each(Mappings(r, LAMBDA i : i.local = r.recv[1]), LAMBDA i : PythonMembers(i, r)), 85))
    \o Found(IF r.kind = "imports" /\ r.recv # <<>> THEN PythonModule(RefPath(r), r) ELSE <<>>, 90)

\* resolveRustPathReference, resolveRustModuleFile: the module's file, from the
\* crate's root, from this module, or from one above it.
Own(f) == IF Front(Last(f)) \in {<<"mod">>, <<"lib">>, <<"main">>} THEN Front(f) ELSE Append(Front(f), Front(Last(f)))
CrateRoot(f) ==
    LET roots == {k \in 0..Len(f) - 1 : \E s \in {"lib", "main"} : Append(SubSeq(f, 1, k), <<s, ".rs">>) \in tree}
    IN  IF roots = {} THEN <<>> ELSE <<SubSeq(f, 1, Max(roots))>>
Under(dir, rest) ==
    LET segs == SelectSeq(rest, LAMBDA s : s \notin {<<"self">>, <<"crate">>, <<"super">>})
        at(k) == First(SelectSeq(LET d == dir[1] \o SubSeq(segs, 1, k) IN <<With(d, <<".rs">>), With(d, <<"/", "mod", ".rs">>)>>,
                                 LAMBDA f : f \in tree))
    IN  IF dir = <<>> \/ segs = <<>> \/ \E k \in DOMAIN segs : at(k) = <<>> THEN <<>> ELSE at(Len(segs))
RustModule(segs, f) ==
    LET supers == Cardinality({k \in DOMAIN segs : \A j \in 1..k : segs[j] = <<"super">>})
        up == IF supers > Len(Own(f)) THEN <<>> ELSE <<SubSeq(Own(f), 1, Len(Own(f)) - supers)>>
    IN  CASE segs[1] = <<"crate">> -> Under(CrateRoot(f), segs)
          [] segs[1] = <<"self">> -> Under(<<Own(f)>>, segs)
          [] supers > 0 -> Under(up, segs)
          [] OTHER -> First(Under(<<Own(f)>>, segs) \o Under(CrateRoot(f), segs))
RustItems == {"function", "struct", "enum", "trait", "type_alias", "constant", "method", "class", "interface"}
ViaRust(r) ==
    IF r.sep # "::" \/ r.recv = <<>> THEN <<>>
    ELSE Found(Each(OtherFile(RustModule(r.recv, r.file), r), LAMBDA f : InFile(f, LAMBDA m :
             m.name = r.name /\ m.kind \in RustItems)), 90)

\* resolveLuaRequire: the file of this name that shares most of its path with
\* the one that requires it.
SharedStart(f, g) ==
    LET a == FlattenSeq(f)  b == FlattenSeq(g)
    IN  Cardinality({k \in 1..Min({Len(a), Len(b)}) : SubSeq(a, 1, k) = SubSeq(b, 1, k)})
LuaFiles == <<<<".lua">>, <<".luau">>, <<"/", "init", ".lua">>, <<"/", "init", ".luau">>>>
ViaLua(r) ==
    LET best(suffix) == Best(SelectSeq(nodes, LAMBDA m : m.kind = "file" /\ IsSuffix(With(RefPath(r), suffix), m.file)),
                             LAMBDA m : SharedStart(m.file, r.file))
    IN  IF r.kind # "imports" THEN <<>>
        ELSE Found(SelectSeq(Each(LuaFiles, best), LAMBDA m : m.file # r.file), 90)

\* resolveModuleImportToFile: the file of an imported namespace, default or,
\* in Python, submodule.
WholeModule(i) == i.isNamespace \/ i.isDefault
ModulePath(i) == IF WholeModule(i) THEN i.source ELSE Append(i.source, i.local)
ModuleNodes(i, r) ==
    SelectSeq(Each(ResolveImportPath(ModulePath(i), r.file, r.lang), FileNode), LAMBDA m : m.file # r.file)
    \o IF r.lang = "python" THEN PythonModule(ModulePath(i), r) ELSE <<>>
ViaModuleFile(r) ==
    IF r.kind # "imports" \/ r.recv # <<>> THEN <<>>
    ELSE Found(Each(Mappings(r, LAMBDA i : i.local = r.name /\ (WholeModule(i) \/ r.lang = "python")), LAMBDA i : ModuleNodes(i, r)), 90)

\* resolveJvmImport: the definition of this qualified name, the closest one
\* when there are several, an "expect" declaration before its platforms'.
ViaJvm(r) ==
    LET ms == SelectSeq(nodes, LAMBDA m : Path(m) = <<FlattenSeq(r.recv), r.name>>)
        score(m) == 2 * SharedDirs(r.file, m.file) + IF "expect" \in m.marks THEN 1 ELSE 0
    IN  IF r.kind # "imports" \/ r.lang \notin {"java", "kotlin"} \/ r.recv = <<>> THEN <<>>
        ELSE Found(Best(ms, score), 95)

\* References that name a file, and nothing else.
IsInclude(r) == r.kind = "imports" /\ r.lang \in {"c", "cpp"}
IsCopybook(r) == r.kind = "imports" /\ r.lang = "cobol"
IsPhpInclude(r) == r.kind = "imports" /\ r.lang = "php" /\ (r.sep = "/" \/ Last(r.name) \in {".php", ".inc"})
IsNixPath(r) == r.kind = "imports" /\ r.lang = "nix" /\ IsRelative(r.recv)
NamesFile(r) == IsInclude(r) \/ IsCopybook(r) \/ IsPhpInclude(r) \/ IsNixPath(r)

FileNamed(r) == IF IsPhpInclude(r) THEN ResolvePhpInclude(RefPath(r), r.file) ELSE ResolveImportPath(RefPath(r), r.file, r.lang)
ViaFile(r) ==
    (IF IsInclude(r) THEN Found(Each(Resolve(Front(r.file), RefPath(r)), FileNode), 92) ELSE <<>>)
    \o Found(Each(FileNamed(r), FileNode), 90)

\* resolveViaImport
ModuleLanguages == JsLike \cup {"python"}
ResolveViaImport(r) ==
    IF NamesFile(r) THEN First(ViaFile(r))
    ELSE First((CASE r.lang = "go" -> ViaGo(r)
                  [] r.lang \in {"java", "kotlin"} -> ViaJava(r)
                  [] r.lang = "python" -> ViaPython(r)
                  [] r.lang = "rust" -> ViaRust(r)
                  [] r.lang \in {"lua", "luau"} -> ViaLua(r)
                  [] OTHER -> <<>>)
               \o (IF r.lang \in ModuleLanguages THEN ViaModuleFile(r) ELSE <<>>)
               \o Found(Each(Mappings(r, LAMBDA i : IsLocal(i, r)), LAMBDA i : ViaMapping(i, r)), 90))
=============================================================================
