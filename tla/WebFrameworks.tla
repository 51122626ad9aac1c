---------------------------- MODULE WebFrameworks ----------------------------
(* The framework resolvers of the JavaScript world (resolution/frameworks/:   *)
(* express, nestjs, react, svelte, vue, astro): what each makes of a          *)
(* reference, and the routes it extracts from a file.  A pattern that a       *)
(* resolver finds in the text of a file is a mark, a record with a form; a    *)
(* segment of a path that stands for a parameter begins with "[", "[..." or   *)
(* "[[".  An answer is a sequence of at most one match.                       *)
EXTENDS ImportResolver

CONSTANTS Marks,   \* the marks of each file, in the order of its text
          Sorted   \* the files in the order of their paths

MarksOf(f, forms) == IF f \in DOMAIN Marks THEN Forms(Marks[f], forms) ELSE <<>>

\* A route, or another node a framework adds; the name shows the verb and path.
Added(kind, f, lang, line, verb, path) ==
    LET shown == <<IF verb = "" THEN "/" ELSE verb>> \o FlattenSeq(path)
    IN  [id |-> <<kind, f, line, shown>>, name |-> shown, kind |-> kind, lang |-> lang, file |-> f,
         line |-> line, last |-> line, scope |-> <<FlattenSeq(f)>>, ret |-> <<>>, exported |-> FALSE,
         marks |-> {}, verb |-> verb, path |-> path]

Asks(node, kind, recv, sep, name) ==
    [kind |-> kind, lang |-> node.lang, file |-> node.file, from |-> node.id, line |-> node.line,
     name |-> name, recv |-> recv, sep |-> sep, call |-> FALSE]
Refers(node, name) == Asks(node, "references", <<>>, "", name)

\* What extract returns: nodes and references.
Extracted(ns, rs) == [nodes |-> ns, refs |-> rs]
Nothing == Extracted(<<>>, <<>>)
Join(xs) == Extracted(Each(xs, LAMBDA x : x.nodes), Each(xs, LAMBDA x : x.refs))
Handled(node, names) == Extracted(<<node>>, [i \in DOMAIN names |-> Refers(node, names[i])])
RouteTo(f, m, verb, path, names) == Handled(Added("route", f, LangOf[f], m.line, verb, path), names)

\* The language a resolver writes in its nodes: that of the framework's own
\* files (an extension), else the given one.
Ext(f) == Last(Last(f))
LangIf(f, ext, lang, other) == IF Ext(f) = ext THEN lang ELSE other

Itself(r, conf) == <<[to |-> [id |-> r.from], conf |-> conf]>>
Ends(name, words) == Last(name) \in words
Bare(r) == r.recv = <<>> /\ r.sep = ""
Pascal(r) == Bare(r) /\ Capitalised(r.name)

\* A directory of this name, but for one at the root: the patterns begin with "/".
Inside(f, dirs) == \E k \in 2..Len(f) - 1 : f[k][1] \in dirs /\ Len(f[k]) = 1
FirstInside(ms, dirs) == First(SelectSeq(ms, LAMBDA m : Inside(m.file, dirs)) \o ms)
OfKind(name, kinds) == SelectSeq(Named(name), LAMBDA m : m.kind \in kinds)

\* filePath.startsWith(fromDir) compares text: the directory's last name may end
\* inside a longer one, and a file at the root has every file near it.
Near(m, f) ==
    LET d == Front(f)
    IN  d = <<>> \/ (Len(d) <= Len(m.file) /\ IsPrefix(Front(d), m.file) /\ IsPrefix(Last(d), m.file[Len(d)]))

-----------------------------------------------------------------------------
(* express                                                                   *)

\* resolveMiddleware
MiddlewareWords == {"auth", "authenticate", "authorization", "cors", "helmet", "logger", "errorhandler", "notfound"}
MiddlewarePrefixes == {"validate", "sanitize", "ratelimit"}
IsMiddleware(name) ==
    LET low == LowerCase(name)
    IN  (Len(low) = 1 /\ low[1] \in MiddlewareWords) \/ low[1] \in MiddlewarePrefixes \/ Last(low) = "middleware"
Middleware(name) ==
    First(Named(name) \o IF Lower[Last(name)] = "middleware" THEN FirstInside(Named(Front(name)), {"middleware", "middlewares"}) ELSE <<>>)

\* resolveControllerMethod, resolveServiceMethod: in a file whose path holds the
\* stem of the receiver, else in the controller's.
PathHolds(f, stem) == \E s \in ToSet(f) : LowerCase(stem) \in SubSeqs(LowerCase(s))
MethodNear(stem, method) == First(SelectSeq(OfKind(method, Callable), LAMBDA m : PathHolds(m.file, stem)))
MethodIn(cls, method) ==
    First(Each(cls, LAMBDA c : InFile(c.file, LAMBDA m : m.kind \in Callable /\ m.name = method)))

\* recv is "<Stem>Controller", "<Stem>Service" and so on, and the method is name.
Owner(r, words) == r.sep = "." /\ Len(r.recv) = 1 /\ Len(r.recv[1]) > 1 /\ Ends(r.recv[1], words)
Express(r) ==
    First((IF Bare(r) /\ IsMiddleware(r.name) THEN Found(Middleware(r.name), 80) ELSE <<>>)
          \o (IF Owner(r, {"Controller"})
              THEN Found(MethodNear(Front(r.recv[1]), r.name) \o MethodIn(Named(r.recv[1]), r.name), 85) ELSE <<>>)
          \o (IF Owner(r, {"Service", "Helper", "Util", "Utils"}) THEN Found(MethodNear(Front(r.recv[1]), r.name), 80) ELSE <<>>))

\* A route's handler is its last argument, or the calls of an inline one.
Reserved == {<<"send", "Status">>, <<"send", "File">>, <<"clear", "Cookie">>, <<"for", "Each">>} \cup {<<w>> : w \in
    {"json", "jsonp", "send", "status", "end", "redirect", "render", "set", "get", "header", "type", "format",
     "attachment", "download", "cookie", "append", "location", "vary", "links", "accepts", "is", "next", "then",
     "catch", "finally", "resolve", "reject", "all", "race", "map", "filter", "reduce", "find", "push", "pop",
     "slice", "splice", "includes", "keys", "values", "entries", "assign", "parse", "stringify", "log", "error",
     "warn", "info", "String", "Number", "Boolean", "Array", "Object", "Date", "Math", "JSON", "Promise",
     "require", "fail"}}
FirstOf(names) == LET new == {i \in DOMAIN names : \A j \in 1..i - 1 : names[j] # names[i]}
                  IN  [k \in 1..Cardinality(new) |-> names[SetToSortSeq(new, <)[k]]]
ExpressRoute(f, m) ==
    LET node == Added("route", f, LangOf[f], m.line, Upper[m.verb], m.path)
        called == SelectSeq(FirstOf(m.calls), LAMBDA n : n \notin Reserved)
    IN  IF m.verb = "use" /\ ~m.rooted THEN Nothing
        ELSE IF m.arrow THEN Extracted(<<node>>, [i \in DOMAIN called |-> Asks(node, "calls", <<>>, "", called[i])])
        ELSE Handled(node, IF m.args = <<>> THEN <<>> ELSE Last(m.args))
ExpressExtract(f) == LET ms == MarksOf(f, {"app", "router"}) IN Join([i \in DOMAIN ms |-> ExpressRoute(f, ms[i])])

-----------------------------------------------------------------------------
(* nestjs                                                                    *)

Conventions == {"Service", "Controller", "Resolver", "Gateway", "Repository", "Guard", "Interceptor", "Pipe", "Module"}
Nest(r) ==
    LET classes == OfKind(r.name, {"class"})
        conventional == SelectSeq(classes, LAMBDA m : \E k \in 1..Len(Last(m.file)) - 1 : Last(m.file)[k] = "." \o Lower[Last(r.name)])
    IN  IF ~Bare(r) \/ ~Ends(r.name, Conventions) THEN <<>>
        ELSE First(Found(conventional, 85) \o Found(classes, 70))

\* buildClassScopes, scopeFor: the class decorator before a method's.
ScopeOf(ms, i) == LET before == {k \in 1..i : ms[k].form = "class"}
                  IN  IF before = {} THEN [kind |-> "none", path |-> <<>>] ELSE ms[Max(before)]
JoinPath(prefix, sub) == prefix \o sub
OrHandler(m) == IF m.path # <<>> THEN m.path ELSE m.handler
NestRoute(f, ms, i) ==
    LET m == ms[i]  scope == ScopeOf(ms, i)
        prefix(kind) == IF scope.kind = kind THEN scope.path ELSE <<>>
    IN  CASE m.form = "http" -> RouteTo(f, m, m.verb, JoinPath(prefix("controller"), m.path), m.handler)
          [] m.form = "graphql" -> IF scope.kind # "resolver" THEN Nothing ELSE RouteTo(f, m, m.verb, OrHandler(m), m.handler)
          [] m.form = "message" -> RouteTo(f, m, m.verb, OrHandler(m), m.handler)
          [] m.form = "subscribe" -> RouteTo(f, m, "WS", prefix("gateway") \o OrHandler(m), m.handler)
          [] OTHER -> Nothing
NestExtract(f) ==
    LET ms == MarksOf(f, {"class", "http", "graphql", "message", "subscribe"})
        of(form) == Join([i \in DOMAIN ms |-> IF ms[i].form = form THEN NestRoute(f, ms, i) ELSE Nothing])
    IN  Join(<<of("http"), of("graphql"), of("message"), of("subscribe")>>)

\* postExtract: the paths RouterModule gives to modules, their controllers, and
\* the routes of the controllers' classes; the first registration counts.
RECURSIVE WalkRoutes(_, _)
WalkRoutes(items, above) ==
    Each(items, LAMBDA t : [i \in DOMAIN t.module |-> [module |-> t.module[i], path |-> JoinPath(above, t.path)]]
                           \o WalkRoutes(t.children, JoinPath(above, t.path)))
ModuleFiles == SelectSeq(Sorted, LAMBDA f : Last(f)[Len(Last(f)) - 1] = ".module")
Registered == Each(ModuleFiles, LAMBDA f : Each(MarksOf(f, {"RouterModule"}), LAMBDA m : WalkRoutes(m.items, <<>>)))
ControllersOf == Each(ModuleFiles, LAMBDA f : Each(MarksOf(f, {"Module"}), LAMBDA m :
                     [i \in DOMAIN m.controllers |-> [controller |-> m.controllers[i], module |-> m.name]]))

ModulePrefix(controller) ==
    LET in == First(SelectSeq(ControllersOf, LAMBDA c : c.controller = controller))
        at == Each(in, LAMBDA c : First(SelectSeq(Registered, LAMBDA t : t.module = c.module)))
    IN  IF at = <<>> THEN <<>> ELSE at[1].path

\* applyModulePrefix starts from the path of the file, not from the name shown.
Prefixed(route, prefix) == [route EXCEPT !.name = <<route.verb>> \o FlattenSeq(JoinPath(prefix, route.path))]
Updated(n) ==
    LET owns(c) == c.kind = "class" /\ c.file = n.file /\ c.line <= n.line /\ n.line <= c.last /\ ModulePrefix(c.name) # <<>>
        owner == First(SelectSeq(nodes, owns))
    IN  IF n.kind # "route" \/ n.verb = "" \/ owner = <<>> THEN n ELSE Prefixed(n, ModulePrefix(owner[1].name))
PostExtract == [i \in DOMAIN nodes |-> IF nodes[i].kind = "route" THEN Updated(nodes[i]) ELSE nodes[i]]

-----------------------------------------------------------------------------
(* react                                                                     *)

Builtin == {<<"Array">>, <<"Error">>, <<"Map">>, <<"Promise">>, <<"Set">>, <<"React">>, <<"Component">>, <<"Fragment">>}

\* resolveComponent: one nearby, one among components or pages, or the only one.
Nearest1(ms, f) == First(SelectSeq(ms, LAMBDA m : Near(m, f)))
ReactComponent(r) ==
    LET ms == OfKind(r.name, {"component", "function", "class"})
    IN  First(Nearest1(ms, r.file) \o SelectSeq(ms, LAMBDA m : Inside(m.file, {"components", "pages", "views"})) \o Unique(ms))
IsHook(name) == name[1] \in {"use", "user"} /\ name # <<"use">>
ReactContext(name) ==
    IF Named(name) # <<>> THEN FirstInside(Named(name), {"context", "contexts", "providers"})
    ELSE First(Named(Front(name)))
React(r) ==
    First((IF r.lang \in {"tsx", "jsx"} /\ Pascal(r) /\ r.name \notin Builtin THEN Found(ReactComponent(r), 80) ELSE <<>>)
          \o (IF Bare(r) /\ IsHook(r.name) THEN Found(FirstInside(OfKind(r.name, {"function"}), {"hooks"}), 85) ELSE <<>>)
          \o (IF Bare(r) /\ Ends(r.name, {"Context", "Provider"}) THEN Found(ReactContext(r.name), 80) ELSE <<>>))

\* Parameters of file-based routes.
Param(seg) == CASE seg[1] = "[" -> <<":", seg[2]>>
                [] seg[1] = "[..." -> <<"*", seg[2]>>
                [] seg[1] = "[[" -> <<":", seg[2], "?">>
                [] OTHER -> seg
ReactParam(seg) == CASE seg[1] = "[..." -> <<":", "...", seg[2]>>
                     [] seg[1] = "[[" -> <<":", "[", seg[2], "]">>
                     [] OTHER -> Param(seg)
Segments(path, Of(_)) == [i \in DOMAIN path |-> Of(path[i])]
Stemmed(f) == [f EXCEPT ![Len(f)] = Front(@)]
Dirs(f, d) == {k \in 1..Len(f) - 1 : f[k] = <<d>>}
Routed(f, lang, path) == Extracted(<<Added("route", f, lang, 1, "", path)>>, <<>>)

\* filePathToRoute: a script below the last pages directory, or a page below the
\* last app.
ReactFileRoute(f) ==
    LET stem == Front(Last(f))
        pages == Stemmed(After(f, Max(Dirs(f, "pages"))))
        app == After(f, Max(Dirs(f, "app")))
        cut(p) == IF Last(p) = <<"index">> THEN Front(p) ELSE p
    IN  IF Ext(f) \notin {".ts", ".tsx", ".js", ".jsx"} \/ stem = <<>> \/ stem[1] = "_" \/ Last(stem) = ".config" THEN <<>>
        ELSE IF Dirs(f, "pages") # {} THEN <<Segments(cut(pages), ReactParam)>>
        ELSE IF Dirs(f, "app") = {} \/ Last(stem) # "page" THEN <<>>
        ELSE <<Segments(IF stem = <<"page">> THEN Front(app) ELSE app, ReactParam)>>

ReactExtract(f) ==
    LET tags == MarksOf(f, {"Route"})
        objects == IF MarksOf(f, {"createRouter"}) = <<>> THEN <<>> ELSE SelectSeq(MarksOf(f, {"path"}), LAMBDA m : m.component # <<>>)
        page == IF MarksOf(f, {"export default"}) = <<>> THEN <<>> ELSE ReactFileRoute(f)
        route(m) == Handled(Added("route", f, LangIf(f, ".tsx", "tsx", "jsx"), m.line, "", m.path), m.component)
        lang == LangIf(f, ".tsx", "tsx", LangIf(f, ".ts", "typescript", "javascript"))
    IN  Join([i \in DOMAIN tags |-> IF tags[i].path = <<>> THEN Nothing ELSE route(tags[i])]
             \o [i \in DOMAIN objects |-> route(objects[i])] \o [i \in DOMAIN page |-> Routed(f, lang, page[i])])

-----------------------------------------------------------------------------
(* svelte, vue, astro                                                        *)

\* A module of the project by its alias: its file's first node.
OfModule(p, suffixes) ==
    LET paths == <<p>> \o [i \in DOMAIN suffixes |-> With(p, suffixes[i])]
    IN  First(Each(SelectSeq(paths, LAMBDA f : f \in tree), LAMBDA f : First(OfFile(f))))
Imports1(r, head) == r.kind = "imports" /\ r.sep = "/" /\ r.recv[1] = head
Tail1(r) == Append(Tail(r.recv), r.name)
Component1(r) == LET ms == OfKind(r.name, {"component"}) IN First(Nearest1(ms, r.file) \o Unique(ms))

Runes == {<<"$", "state">>, <<"$", "derived">>, <<"$", "effect">>, <<"$", "props">>, <<"$", "bindable">>, <<"$", "inspect">>, <<"$", "host">>}
Kit == {<<"$", "app">>, <<"$", "env">>}
Svelte(r) ==
    First((IF Bare(r) /\ r.name \in Runes THEN Itself(r, 100) ELSE <<>>)
          \o (IF Bare(r) /\ r.name[1] = "$" /\ Len(r.name) > 1 THEN Found(OfKind(Tail(r.name), {"variable", "constant"}), 85) ELSE <<>>)
          \o (IF Imports1(r, <<"$", "lib">>)
              THEN Found(OfModule(<<<<"src">>, <<"lib">>>> \o Tail1(r), <<Ts, Js, <<".svelte">>, Index(Ts), Index(Js)>>), 90) ELSE <<>>)
          \o (IF \E k \in Kit : Imports1(r, k) THEN Itself(r, 100) ELSE <<>>)
          \o (IF Pascal(r) /\ r.kind = "calls" THEN Found(Component1(r), 80) ELSE <<>>))

KitFiles == {"+page", "+layout", "+server", "+error"}
SvelteExtract(f) ==
    LET at == Dirs(f, "routes") \ {1}
    IN  IF Last(f)[1] \notin KitFiles \/ at = {} THEN Nothing
        ELSE Routed(f, LangIf(f, ".svelte", "svelte", "typescript"), Segments(Front(After(f, Min(at))), Param))

\* resolveComponent goes by the name of a .vue file.
Macros == {<<"define", "Props">>, <<"define", "Emits">>, <<"with", "Defaults">>, <<"use", "Route">>, <<"use", "Fetch">>, <<"navigate", "To">>}
VueComponent(r) ==
    LET files == SelectSeq(Sorted, LAMBDA f : Last(f) = Append(r.name, ".vue"))
        near == SelectSeq(files, LAMBDA f : Near([file |-> f], r.file))
        of(fs) == Each(First(fs), LAMBDA f : InFile(f, LAMBDA m : m.kind = "component" /\ m.name = r.name))
    IN  IF near # <<>> THEN of(near) ELSE of(Unique(files))
VueSuffixes == <<Ts, Js, <<".vue">>, Index(Ts), Index(Js), Index(<<".vue">>)>>
Virtual == {<<"#", w>> : w \in {"imports", "components", "app", "build", "head"}}
Vue(r) ==
    First((IF Bare(r) /\ r.name \in Macros THEN Itself(r, 100) ELSE <<>>)
          \o (IF r.kind = "imports" /\ RefPath(r)[1] \in Virtual THEN Itself(r, 100) ELSE <<>>)
          \o (IF Imports1(r, <<"@">>) \/ Imports1(r, <<"~">>) THEN Found(OfModule(<<<<"src">>>> \o Tail1(r), VueSuffixes), 90) ELSE <<>>)
          \o (IF Pascal(r) /\ r.kind = "calls" THEN Found(VueComponent(r), 80) ELSE <<>>))

\* filePathToNuxtRoute: "/index" goes, and an index at the top stays.
Unindexed(p) == IF Len(p) > 1 /\ Last(p) = <<"index">> THEN Front(p) ELSE p
VueExtract(f) ==
    LET pages == Dirs(f, "pages") \ {1}
        api == {k \in 2..Len(f) - 2 : f[k] = <<"server">> /\ f[k + 1] = <<"api">>}
        guard == Dirs(f, "middleware") \ {1}
        below(k) == Stemmed(After(f, k))
        lang == LangIf(f, ".vue", "vue", "typescript")
    IN  Join(<<IF pages # {} /\ Ext(f) = ".vue" THEN Routed(f, lang, Segments(Unindexed(below(Min(pages))), Param)) ELSE Nothing,
               IF api # {} THEN Routed(f, lang, <<<<"api">>>> \o Unindexed(below(Min(api) + 1))) ELSE Nothing,
               IF guard # {} THEN Extracted(<<Added("function", f, lang, 1, "", below(Min(guard)))>>, <<>>) ELSE Nothing>>)

AstroModules == {<<"astro:", w>> : w \in {"content", "assets", "actions", "env", "i18n", "middleware", "transitions", "components", "schema"}}
Astro(r) ==
    First((IF RefPath(r)[1] = <<"Astro">> /\ r.sep \in {"", "."} THEN Itself(r, 100) ELSE <<>>)
          \o (IF r.kind = "imports" /\ RefPath(r)[1] \in AstroModules THEN Itself(r, 100) ELSE <<>>)
          \o (IF Pascal(r) /\ r.kind \in {"references", "calls"} THEN Found(Component1(r), 80) ELSE <<>>))

AstroParam(seg) == IF seg[1] = "[[" THEN ReactParam(seg) ELSE Param(seg)
AstroExtract(f) ==
    LET at == {k \in 2..Len(f) - 1 : f[k - 1] = <<"src">> /\ f[k] = <<"pages">>}
        below == Stemmed(After(f, Min(at)))
    IN  IF at = {} \/ Ext(f) \notin {".astro", ".ts", ".js", ".mjs"} THEN Nothing
        ELSE IF (\E s \in ToSet(below) : s[1] = "_") \/ Last(Last(below)) = ".config" THEN Nothing
        ELSE Routed(f, LangIf(f, ".astro", "astro", "typescript"), Segments(IF Last(below) = <<"index">> THEN Front(below) ELSE below, AstroParam))
=============================================================================
