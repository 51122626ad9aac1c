-------------------------- MODULE ServerFrameworks --------------------------
(* The framework resolvers of the server languages (resolution/frameworks/:   *)
(* python, go, csharp, java, rust, ruby, laravel, drupal, play, goframe).     *)
(* Most go by the end of a name and prefer some directories; a few find a     *)
(* method by the file of its class.  A word of a snake_case name after the    *)
(* first begins with its "_"; a namespace before a class is left out.         *)
EXTENDS WebFrameworks

CONSTANTS Starts,   \* the words that begin with each text the resolvers test for
          Cargo     \* [members (patterns), dirs (in the order of a walk), package (dir -> names)]

Begins(name, text) == name[1] \in Starts[text]
Leads(first, name) == Len(name) > 1 /\ name[1] = first /\ name[2] \in Starts["_"]
Shares(f, word) == \E s \in ToSet(f) : word \in ToSet(s)

\* resolveByNameAndKind: of the definitions of these kinds the first in a
\* preferred place, else the first.
Guess(r, kinds, Preferred(_), conf) ==
    LET ms == OfKind(r.name, kinds)
    IN  Found(SelectSeq(ms, LAMBDA m : Preferred(m.file)) \o ms, conf)
Rule(applies, answer) == IF applies THEN answer ELSE <<>>
Chosen(r, applies, kinds, dirs, conf) == Rule(Bare(r) /\ applies, Guess(r, kinds, LAMBDA f : Inside(f, dirs), conf))

Verb(m) == IF m.verb \in DOMAIN Upper THEN Upper[m.verb] ELSE m.verb
Routes(f, forms) == LET ms == MarksOf(f, forms) IN Join([i \in DOMAIN ms |-> RouteTo(f, ms[i], Verb(ms[i]), ms[i].path, ms[i].handler)])

-----------------------------------------------------------------------------
(* python                                                                    *)

\* resolveModelIterableIter
IterOf(classes) == Each(First(classes), LAMBDA c : First(SelectSeq(Named(<<"__iter__">>), LAMBDA m :
                       m.file = c.file /\ c.line <= m.line /\ m.line <= c.last)))
Django(r) ==
    LET chosen(applies, kinds, word) == Rule(Bare(r) /\ applies, Guess(r, kinds, LAMBDA f : Shares(f, word), 80))
    IN  First(chosen(Ends(r.name, {"Model"}) \/ (Len(r.name) = 1 /\ Pascal(r)), {"class"}, "models")
              \o chosen(Ends(r.name, {"View", "Set"}) /\ (Last(r.name) = "Set" => IsSuffix(<<"View", "Set">>, r.name)),
                        {"class", "function"}, "views")
              \o chosen(Ends(r.name, {"Form"}), {"class"}, "forms")
              \o Rule(Bare(r) /\ r.name = <<"_iterable", "_class">>, Found(IterOf(OfKind(<<"Model", "Iterable">>, {"class"})), 70)))
DjangoClaims(r) == r.name = <<"_iterable", "_class">> \/ (r.sep = "." /\ r.name = <<"urls">>)

\* A path's handler is a view by its last name, or another module by include();
\* a registered view set answers below its prefix.
DjangoPath(f, m) ==
    LET node == Added("route", f, "python", m.line, "", m.path)
        h == m.handler
    IN  IF m.include THEN Extracted(<<node>>, <<Asks(node, "imports", Front(h), IF Len(h) > 1 THEN "." ELSE "", Last(h))>>)
        ELSE Handled(node, <<Last(h)>>)
DjangoExtract(f) ==
    LET paths == MarksOf(f, {"path"})
        sets == SelectSeq(MarksOf(f, {"register"}), LAMBDA m : IsSuffix(<<"View">>, m.name) \/ IsSuffix(<<"View", "Set">>, m.name))
    IN  Join([i \in DOMAIN paths |-> DjangoPath(f, paths[i])]
             \o [i \in DOMAIN sets |-> RouteTo(f, sets[i], "VIEWSET", sets[i].path, <<sets[i].name>>)])

\* extractDecoratorRoutes takes the next def as the handler; a resource of
\* flask-restful is the handler of each of its paths.
Flask(r) == Chosen(r, Ends(r.name, {"_bp", "_blueprint"}), {"variable"}, {}, 80)
FlaskExtract(f) ==
    LET ms == MarksOf(f, {"resource"})
        verb(m) == IF m.methods = <<>> THEN "GET" ELSE Upper[m.methods[1]]
        decorated == MarksOf(f, {"decorator"})
    IN  Join([i \in DOMAIN decorated |-> RouteTo(f, decorated[i], verb(decorated[i]), decorated[i].path, decorated[i].handler)]
             \o Each(ms, LAMBDA m : [k \in DOMAIN m.paths |-> RouteTo(f, m, "ANY", m.paths[k], <<m.name>>)]))

FastApi(r) ==
    First(Chosen(r, r.name = <<"router">> \/ Ends(r.name, {"_router"}), {"variable"}, {"routers", "api", "routes", "endpoints"}, 80)
          \o Chosen(r, Leads("get", r.name) \/ Begins(r.name, "Depends"), {"function"}, {"dependencies", "deps", "core"}, 75))
FastApiExtract(f) == Routes(f, {"verb"})

-----------------------------------------------------------------------------
(* go, csharp, rust                                                          *)

Go(r) ==
    First(Chosen(r, Ends(r.name, {"Handler"}) \/ Begins(r.name, "Handle"), {"function"}, {"handler", "handlers", "api", "routes", "controller", "controllers"}, 80)
          \o Chosen(r, Ends(r.name, {"Service", "Repository", "Store"}), {"struct", "interface"}, {"service", "services", "repository", "store", "pkg"}, 80)
          \o Chosen(r, Ends(r.name, {"Middleware"}) \/ Begins(r.name, "Auth") \/ Begins(r.name, "Log"), {"function"}, {"middleware", "middlewares"}, 75)
          \o Chosen(r, Pascal(r), {"struct"}, {"model", "models", "entity", "entities", "domain", "pkg"}, 70))
AnyVerb(m) == IF m.verb \in {"Handle", "HandleFunc"} THEN "ANY" ELSE Verb(m)
GoExtract(f) == LET ms == MarksOf(f, {"call"}) IN Join([i \in DOMAIN ms |-> RouteTo(f, ms[i], AnyVerb(ms[i]), ms[i].path, ms[i].handler)])

\* goframe: the routes that the request types declare, looked up by their type.
GoFrameExtract(f) ==
    LET ms == SelectSeq(MarksOf(f, {"g.Meta"}), LAMBDA m : m.path # <<>>)
        route(m) == [Added("route", f, "go", m.line, IF m.verb = "" THEN "ANY" ELSE Verb(m), m.path) EXCEPT !.scope = @ \o m.package \o <<m.type>>]
    IN  Extracted([i \in DOMAIN ms |-> route(ms[i])], <<>>)

CSharp(r) ==
    First(Chosen(r, Ends(r.name, {"Controller"}), {"class"}, {"Controllers"}, 85)
          \o Chosen(r, Ends(r.name, {"Service"}) \/ (Begins(r.name, "I") /\ r.name # <<"I">>), {"class", "interface"}, {"Services", "Service", "Application"}, 85)
          \o Chosen(r, Ends(r.name, {"Repository"}), {"class", "interface"}, {"Repositories", "Repository", "Data", "Infrastructure"}, 85)
          \o Chosen(r, Pascal(r), {"class"}, {"Models", "Model", "Entities", "Entity", "Domain"}, 70)
          \o Chosen(r, Ends(r.name, {"Dto"}) \/ IsSuffix(<<"View", "Model">>, r.name), {"class"}, {"ViewModels", "ViewModel", "DTOs", "Dto"}, 80))

\* The prefix on the first class of a file stands before the paths of all.
FilePrefix(f) == LET ms == MarksOf(f, {"class"}) IN IF ms = <<>> THEN <<>> ELSE ms[1].path
Below(f, forms) ==
    LET ms == MarksOf(f, forms)
    IN  Join([i \in DOMAIN ms |-> RouteTo(f, ms[i], Verb(ms[i]), JoinPath(FilePrefix(f), ms[i].path), ms[i].handler)])
CSharpExtract(f) == Join(<<Below(f, {"attribute"}), Routes(f, {"minimal"})>>)

\* getCargoWorkspaceCrateMap: the members as written or as their pattern finds
\* them, at most six levels down; of two packages of one name the last counts.
SkipDirs == {<<"target">>, <<"node", "_modules">>, <<".git">>, <<"dist">>, <<"build">>}
Expand(member) ==
    LET below(d) == Len(d) - Len(member.dir)
    IN  IF member.levels = {} THEN <<member.dir>>
        ELSE SelectSeq(Cargo.dirs, LAMBDA d : /\ IsPrefix(member.dir, d) /\ below(d) \in member.levels \cap 1..6
                                              /\ ToSet(After(d, Len(member.dir))) \cap SkipDirs = {})
Crate(name) ==
    LET at == SelectSeq(FirstOf(Each(Cargo.members, Expand)), LAMBDA d : d \in DOMAIN Cargo.package /\ name \in Cargo.package[d])
    IN  IF at = <<>> THEN <<>> ELSE <<Last(at)>>

\* resolveModule: the module, else the first node, of the first file with any.
RustModuleFile(paths) ==
    LET files == SelectSeq(paths, LAMBDA f : f \in tree /\ OfFile(f) # <<>>)
    IN  Each(First(files), LAMBDA f : First(SelectSeq(OfFile(f), LAMBDA m : m.kind = "module") \o OfFile(f)))
Rust(r) ==
    LET rs(name) == Append(name, ".rs")
        lower == Bare(r) /\ LowerCase(r.name) = r.name
        crate == Each(Crate(r.name), LAMBDA d : <<d \o <<<<"src">>, rs(<<"lib">>)>>, d \o <<<<"src">>, rs(<<"main">>)>>>>)
    IN  First(Chosen(r, Ends(r.name, {"_handler"}) \/ Leads("handle", r.name), {"function"}, {"handlers", "handler", "api", "routes", "controllers"}, 80)
              \o Chosen(r, Ends(r.name, {"Service", "Repository"}), {"struct", "trait"}, {"services", "service", "repository", "domain"}, 80)
              \o Chosen(r, Pascal(r), {"struct"}, {"models", "model", "entities", "entity", "domain", "types"}, 70)
              \o Rule(lower, Found(RustModuleFile(<<<<<<"src">>, rs(r.name)>>, <<<<"src">>, r.name, rs(<<"mod">>)>>>>), 60))
              \o Rule(lower, Found(RustModuleFile(crate), 95)))

\* Attributes, then the methods of .route(), then those of a resource: one that
\* gives none has its handler for ANY.
RustExtract(f) ==
    LET ms == MarksOf(f, {"resource"})
        of(m) == IF m.methods # <<>> THEN [k \in DOMAIN m.methods |-> RouteTo(f, m, Upper[m.methods[k].verb], m.path, <<m.methods[k].handler>>)]
                 ELSE [k \in DOMAIN m.to |-> RouteTo(f, m, "ANY", m.path, <<m.to[k]>>)]
    IN  Join(<<Routes(f, {"attribute"}), Routes(f, {"route"})>> \o Each(ms, of) \o <<Routes(f, {"app"})>>)

-----------------------------------------------------------------------------
(* java: spring, and the keys of its configuration                           *)

\* canonicalConfigKey; a prefix compares text, so its last name may end inside
\* a longer one, and lengths count words.
Canonical(key) == [i \in DOMAIN key |-> LowerCase(key[i])]
KeyStarts(prefix, key) ==
    /\ prefix # <<>> /\ Len(prefix) <= Len(key)
    /\ IsPrefix(Front(prefix), key) /\ IsPrefix(Last(prefix), key[Len(prefix)])
KeyOf(m) == Canonical(Path(m))
Configured(Holds(_)) == SelectSeq(nodes, LAMBDA m : m.kind = "constant" /\ m.lang \in {"yaml", "properties"} /\ Holds(KeyOf(m)))

BaseFile(m) == Front(Last(m.file)) \in {<<"application">>, <<"bootstrap">>}
SpringKey(r) ==
    LET ms == Configured(LAMBDA k : k = Canonical(RefPath(r)))
    IN  IF Len(ms) = 1 THEN Found(ms, 90)
        ELSE Found(Best(ms, LAMBDA m : (IF BaseFile(m) THEN 1000 ELSE 0) - Len(Last(m.file))), 75)
SpringPrefix(r) == Found(Best(Configured(LAMBDA k : KeyStarts(Canonical(r.recv), k)), LAMBDA m : -Len(FlattenSeq(KeyOf(m)))), 85)

IsPrefixRef(r) == r.sep = ":" /\ r.name = <<"prefix">>
Spring(r) ==
    IF IsPrefixRef(r) THEN SpringPrefix(r)
    ELSE First(Rule(r.kind = "references" /\ r.lang \in {"java", "kotlin"} /\ r.sep = ".", SpringKey(r))
          \o Chosen(r, Ends(r.name, {"Service"}), {"class", "interface"}, {"service", "services"}, 85)
          \o Chosen(r, Ends(r.name, {"Repository"}), {"class", "interface"}, {"repository", "repositories"}, 85)
          \o Chosen(r, Ends(r.name, {"Controller"}), {"class"}, {"controller", "controllers"}, 85)
          \o Chosen(r, Pascal(r), {"class"}, {"entity", "entities", "model", "models", "domain"}, 70)
          \o Chosen(r, Ends(r.name, {"Component", "Config"}), {"class"}, {"component", "components", "config"}, 80))

\* extractSpringConfig: a constant for each leaf, named by the keys above it; in
\* YAML these are the open keys of smaller indentation.
Keyed(f, lang, line, key) == [Added("constant", f, lang, line, "", key) EXCEPT !.name = Last(key), !.scope = Front(key)]
PropertyLeaves(f, ms) == [i \in DOMAIN ms |-> Keyed(f, "properties", ms[i].line, ms[i].key)]
YamlLeaves(f, ms) ==
    LET opened(stack, m) == Append(SelectSeq(stack, LAMBDA s : s.indent < m.indent), m)
        after(stack, m) == IF m.leaf THEN Front(opened(stack, m)) ELSE opened(stack, m)
        stack(i) == FoldLeft(after, <<>>, SubSeq(ms, 1, i - 1))
        key(i) == Each(opened(stack(i), ms[i]), LAMBDA s : s.key)
    IN  Each([i \in DOMAIN ms |-> IF ms[i].leaf THEN <<Keyed(f, "yaml", ms[i].line, key(i))>> ELSE <<>>], LAMBDA leaf : leaf)

\* extractSpringValueBindings: a constant and what it reads.
SpringBound(f, m) ==
    LET node == Added("constant", f, LangOf[f], m.line, m.form, m.key)
        asked == IF m.form = "@ConfigurationProperties" THEN Asks(node, "references", m.key, ":", <<"prefix">>)
                 ELSE Asks(node, "references", Front(m.key), IF Len(m.key) > 1 THEN "." ELSE "", Last(m.key))
    IN  Extracted(<<[node EXCEPT !.name = FlattenSeq(m.key)]>>, <<asked>>)

\* The bindings follow the routes: verbs first, then plain request mappings.
SpringExtract(f) ==
    LET bound(form) == LET ms == MarksOf(f, {form}) IN Join([i \in DOMAIN ms |-> SpringBound(f, ms[i])])
        config == MarksOf(f, {"line"})
    IN  IF Ext(f) = ".properties" THEN Extracted(PropertyLeaves(f, config), <<>>)
        ELSE IF Ext(f) \in {".yml", ".yaml"} THEN Extracted(YamlLeaves(f, config), <<>>)
        ELSE Join(<<Below(f, {"mapping"}), Below(f, {"request"}), bound("@Value"), bound("@ConfigurationProperties")>>)

-----------------------------------------------------------------------------
(* ruby, laravel, drupal, play                                               *)

Snake(name) == [i \in DOMAIN name |-> IF i = 1 THEN Lower[name[i]] ELSE "_" \o Lower[name[i]]]
App(dirs, name) == <<<<"app">>>> \o [i \in DOMAIN dirs |-> <<dirs[i]>>] \o <<Append(name, ".rb")>>
InPaths(paths, Test(_)) == Each(SelectSeq(paths, LAMBDA f : f \in tree), LAMBDA f : InFile(f, Test))
ClassIn(paths, name) == InPaths(paths, LAMBDA m : m.kind = "class" /\ m.name = name)
Lies(f, dirs) == \E k \in 1..Len(f) - Len(dirs) : SubSeq(f, k, k + Len(dirs) - 1) = dirs

\* resolveControllerAction: in the controller's file, else in that of a class.
ControllerAction(r) ==
    LET direct == <<<<"app">>, <<"controllers">>>> \o [r.recv EXCEPT ![Len(r.recv)] = @ \o <<"_controller", ".rb">>]
        named(m) == m.kind = "class" /\ Ends(m.name, {"Controller"}) /\ Snake(Front(m.name)) = Last(r.recv)
        action(m) == m.kind \in Callable /\ m.name = r.name
    IN  InPaths(<<direct>>, action) \o Each(SelectSeq(nodes, named), LAMBDA c : InFile(c.file, action))
Rails(r) ==
    LET name == Snake(r.name)
        near(dirs) == SelectSeq(OfKind(r.name, {"class"}), LAMBDA m : Lies(m.file, dirs))
    IN  IF r.sep = "#" THEN Found(ControllerAction(r), 85)
        ELSE IF ~Bare(r) THEN <<>>
        ELSE First(Rule(Pascal(r), Found(ClassIn(<<App(<<"models">>, name), App(<<"models", "concerns">>, name)>>, r.name)
                                         \o near(<<<<"app">>, <<"models">>>>), 80))
              \o Rule(Ends(r.name, {"Controller"}),
                      Found(ClassIn(<<App(<<"controllers">>, name), App(<<"controllers", "api">>, name), App(<<"controllers", "api", "v1">>, name)>>, r.name)
                            \o near(<<<<"controllers">>>>), 85))
              \o Rule(Ends(r.name, {"Helper"}), Found(InPaths(<<App(<<"helpers">>, name)>>, LAMBDA m : m.kind = "module" /\ m.name = r.name), 80))
              \o Rule(Ends(r.name, {"Service", "Job"}), Found(ClassIn(<<App(<<"services">>, name), App(<<"jobs">>, name), App(<<"workers">>, name)>>, r.name), 80)))

\* Resources stand for seven routes, a singular one for six, each to an action
\* of the controller of the plural name.
Actions == <<"index", "create", "new", "show", "edit", "update", "destroy">>
RestfulRoutes == [index |-> [verb |-> "GET", path |-> <<>>], create |-> [verb |-> "POST", path |-> <<>>], new |-> [verb |-> "GET", path |-> <<<<"new">>>>],
                  show |-> [verb |-> "GET", path |-> <<<<":", "id">>>>], edit |-> [verb |-> "GET", path |-> <<<<":", "id">>, <<"edit">>>>],
                  update |-> [verb |-> "PATCH", path |-> <<<<":", "id">>>>], destroy |-> [verb |-> "DELETE", path |-> <<<<":", "id">>>>]]
ToAction(f, m, verb, path, ctrl, action) ==
    LET node == Added("route", f, "ruby", m.line, verb, path)
    IN  Extracted(<<node>>, <<Asks(node, "references", ctrl, "#", action)>>)
Resource(f, m) ==
    LET asked(a) == (IF m.only # <<>> THEN a \in m.only[1] ELSE a \notin m.except) /\ (m.plural \/ a # "index")
        as == SelectSeq(Actions, asked)
    IN  [i \in DOMAIN as |-> ToAction(f, m, RestfulRoutes[as[i]].verb, <<m.name>> \o RestfulRoutes[as[i]].path, <<m.controller>>, <<as[i]>>)]
RailsExtract(f) ==
    LET verbs == MarksOf(f, {"verb"})
    IN  Join([i \in DOMAIN verbs |-> ToAction(f, verbs[i], Verb(verbs[i]), verbs[i].path, verbs[i].controller, verbs[i].action)]
             \o Each(MarksOf(f, {"resources"}), LAMBDA m : Resource(f, m)))

\* laravel: a model's static call, and Controller@method.
Php(dirs, name) == <<<<"app">>>> \o dirs \o <<Append(name, ".php")>>
MethodOrClass(f, cls, method) ==
    InFile(f, LAMBDA m : m.kind = "method" /\ m.name = method) \o InFile(f, LAMBDA m : m.kind = "class" /\ m.name = cls)
MethodOf(f, method) == InFile(f, LAMBDA m : m.kind = "method" /\ m.name = method)
LaravelClaims(r) == r.sep = "@" /\ Ends(r.recv[1], {"Controller"})
Laravel(r) ==
    LET cls == r.recv[1]
        model == SelectSeq(<<Php(<<<<"Models">>>>, cls), Php(<<>>, cls)>>, LAMBDA f : f \in tree)
        direct == SelectSeq(<<Php(<<<<"Http">>, <<"Controllers">>>>, cls)>>, LAMBDA f : f \in tree)
        controllers == SelectSeq(OfKind(cls, {"class"}), LAMBDA m : Shares(m.file, "Controllers"))
    IN  IF r.sep = "::" /\ Len(r.recv) = 1 /\ Capitalised(cls) THEN Found(Each(model, LAMBDA f : MethodOrClass(f, cls, r.name)), 85)
        ELSE IF ~LaravelClaims(r) THEN <<>>
        ELSE Found(Each(direct, LAMBDA f : MethodOf(f, r.name)) \o Each(controllers, LAMBDA c : MethodOf(c.file, r.name)), 90)

\* A handler names a class, or a class and its method.
LaravelAsks(node, kind, h) == IF h.method = <<>> THEN Asks(node, kind, <<>>, "", h.cls) ELSE Asks(node, kind, <<h.cls>>, "@", h.method)
LaravelExtract(f) ==
    LET route(m, verb, kind) == LET node == Added("route", f, "php", m.line, verb, m.path)
                                IN  Extracted(<<node>>, [i \in DOMAIN m.to |-> LaravelAsks(node, kind, m.to[i])])
        verbs == MarksOf(f, {"verb"})
        all == MarksOf(f, {"resource"})
    IN  Join([i \in DOMAIN verbs |-> route(verbs[i], Verb(verbs[i]), "references")]
             \o [i \in DOMAIN all |-> route(all[i], "resource:", "imports")])

\* drupal: Class::method or Class:method of the first class of the name, a class
\* by its namespace, and the first function in a hook file that may be the hook's.
HookFiles == {".module", ".install", ".theme", ".inc"}
IsHookName(name) == Leads("hook", name)
DrupalClaims(r) == IsHookName(r.name) \/ r.sep = "\\" \/ (r.sep \in {":", "::"} /\ Len(r.recv) = 1)
Drupal(r) ==
    LET cls == First(OfKind(Last(r.recv), {"class"}))
        method == Each(cls, LAMBDA c : MethodOf(c.file, r.name))
        hooks == SelectSeq(nodes, LAMBDA m : m.kind = "function" /\ Ext(m.file) \in HookFiles /\ IsSuffix(Tail(r.name), m.name))
    IN  IF r.sep \in {":", "::"} /\ Len(r.recv) = 1 THEN First(Found(method, 90) \o Found(cls, 70))
        ELSE IF r.sep = "\\" THEN Found(OfKind(r.name, {"class"}), 85)
        ELSE Rule(Bare(r) /\ IsHookName(r.name), Found(hooks, 75))

\* A route ends where the next begins, and one without a path is none.
DrupalRoutes(f) ==
    LET ms == SelectSeq(MarksOf(f, {"route"}), LAMBDA m : m.path # <<>>)
        route(m) == LET node == Added("route", f, "yaml", m.line, "", m.path)
                    IN  Extracted(<<node>>, [i \in DOMAIN m.handlers |-> Asks(node, "references", m.handlers[i].recv, m.handlers[i].sep, m.handlers[i].name)])
    IN  Join([i \in DOMAIN ms |-> route(ms[i])])

\* A function implements the hook its comment names, else the one its name has
\* after the module's; the node is the function's own.
DrupalHooks(f) ==
    LET ms == MarksOf(f, {"function"})
        module == Front(Last(f))
        noted == SelectSeq(ms, LAMBDA m : m.hook # <<>>)
        likely == SelectSeq(ms, LAMBDA m : m.hook = <<>> /\ Len(f) > 1 /\ IsPrefix(module, m.name) /\ Len(module) < Len(m.name))
        asks(m, hook) == Asks([id |-> <<"function", f, m.line, m.name>>, lang |-> "php", file |-> f, line |-> m.line], "references", <<>>, "", hook)
    IN  Extracted(<<>>, [i \in DOMAIN noted |-> asks(noted[i], noted[i].hook[1])]
                        \o [i \in DOMAIN likely |-> asks(likely[i], <<"hook">> \o After(likely[i].name, Len(module)))])
DrupalExtract(f) ==
    IF Ext(f) = ".yml" /\ ".routing" \in ToSet(Last(f)) THEN DrupalRoutes(f)
    ELSE IF Ext(f) \in HookFiles \cup {".php"} THEN DrupalHooks(f) ELSE Nothing

\* play: Class.method, by the last two parts of what a route calls.
PlayClaims(r) == r.sep = "." /\ Len(r.recv) = 1
Play(r) == Rule(PlayClaims(r), Found(MethodIn(OfKind(r.recv[1], {"class"}), r.name), 90))
PlayExtract(f) ==
    LET ms == SelectSeq(MarksOf(f, {"route line"}), LAMBDA m : Len(m.calls) > 1)
        route(m) == LET node == Added("route", f, "scala", m.line, m.verb, m.path)
                        at == Len(m.calls)
                    IN  Extracted(<<node>>, <<Asks(node, "references", <<m.calls[at - 1]>>, ".", m.calls[at])>>)
    IN  Join([i \in DOMAIN ms |-> route(ms[i])])
=============================================================================
