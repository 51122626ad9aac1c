---------------------------- MODULE SynthDispatch ----------------------------
(* Edge synthesis: the passes that follow a dispatch by name to what handles  *)
(* it, one per framework or language (callback-synthesizer.ts, goframe-       *)
(* synthesizer.ts).                                                           *)
EXTENDS SynthChannels

CONSTANTS Mediators,   \* receivers whose name speaks of a mediator, sender or publisher
          Endpoint     \* the endpoint a generated RTK Query hook is named after

Within(n, c) == n.file = c.file /\ c.from <= n.from /\ n.from <= c.to
MethodsIn(p, c) == SelectSeq(InFile(p, c.file), LAMBDA n : n.kind = "method" /\ Within(n, c))
Callables(p, x) == SelectSeq(Named(p, x), LAMBDA n : n.kind \in Callable)
Functions(p, x) == SelectSeq(Named(p, x), LAMBDA n : n.kind = "function")

\* The dispatches of a file are one scope: Reached gives for each mark the nodes
\* that handle it, attributed to the node around it (or, in a Vue file, to its
\* component).
Sources(p, f, line, fallback) ==
    First(Enclosing(p, f, line) \o
          (IF fallback THEN SelectSeq(InFile(p, f), LAMBDA n : n.kind = "component") ELSE <<>>))
Dispatched(p, by, files, forms, fallback, cap, Reached(_, _, _)) ==
    Gather([i \in DOMAIN files |->
        LET f == files[i]
            ms == SelectSeq(p.text[f], LAMBDA m : m.form \in forms /\ ~m.dead)
        IN  [k \in DOMAIN ms |-> Each(Sources(p, f, ms[k].at, fallback), LAMBDA s :
                Each(Reached(f, ms[k], s), LAMBDA t : Calls(by, s, t, ms[k].at, <<f, ms[k].at>>)))]], cap)

\* Gin: the methods that run the chain of handlers, and every handler registered.
GinChain(p) ==
    LET chains == SelectSeq(Kind(p, "method"), LAMBDA n : n.lang = "go" /\ Body(p, n, "chain") # <<>>)
        uses == Each(FilesOf(p, {"go"}), LAMBDA f : Each(Code(p, f, "use-handler"), LAMBDA m : <<[name |-> m.a, site |-> <<f, m.at>>]>>))
        \* a map by name keeps the first place
        registered == SelectSeq(uses, LAMBDA u : u = First(SelectSeq(uses, LAMBDA v : v.name = u.name))[1])
        handler(u) == First(SelectSeq(Callables(p, u.name), LAMBDA n : n.lang = "go"))
    IN  Gather([i \in DOMAIN chains |-> Singles(Each(registered, LAMBDA u : Each(handler(u), LAMBDA h :
            Calls("gin-middleware-chain", chains[i], h, chains[i].from, u.site))))], Cap.channel)

\* Redux: the thunks a thunk dispatches; of several symbols of the name a thunk,
\* else a constant, else one of the file, else the first.
ReduxThunk(p) ==
    LET thunks == SelectSeq(Kind(p, "constant"), LAMBDA n : "thunk" \in n.tags)
        target(n, x) ==
            LET cands == SelectSeq(Named(p, x), LAMBDA c : c.kind \in Callable \cup {"constant"})
            IN  First(SelectSeq(cands, LAMBDA c : "thunk" \in c.tags) \o SelectSeq(cands, LAMBDA c : c.kind = "constant")
                      \o SelectSeq(cands, LAMBDA c : c.file = n.file) \o cands)
    IN  Gather([i \in DOMAIN thunks |-> LET n == thunks[i] IN
            Singles(Each(SelectSeq(Body(p, n, "dispatch"), LAMBDA m : ~m.dead /\ m.a # n.name), LAMBDA m :
                Each(target(n, m.a), LAMBDA t : Calls("redux-thunk", n, t, m.at, <<n.file, m.at>>))))], Cap.thunk)

\* An object literal of handlers, indexed and called in the same file.
Entries == {"execute", "run", "handle", "perform", "process", "call", "apply", "dispatch"}
RegistryHandler(p, x, chained) ==
    LET cls == First(SelectSeq(Named(p, x), LAMBDA n : n.kind \in {"class", "struct"}))
        entry(c) == First(SelectSeq(MethodsIn(p, c), LAMBDA m : m.name = chained /\ chained \in Entries)
                          \o SelectSeq(MethodsIn(p, c), LAMBDA m : m.name \in Entries)
                          \o SelectSeq(MethodsIn(p, c), LAMBDA m : m.name = "constructor") \o <<c>>)
    IN  First(Functions(p, x) \o Each(cls, LAMBDA c : entry(c)) \o SelectSeq(Named(p, x), LAMBDA n : n.kind = "method"))
ObjectRegistry(p) ==
    LET files == SelectSeq(FilesOf(p, ScriptExts), LAMBDA f : Marks(p, f, "minified") = <<>>)
        registry(f, x) == First(SelectSeq(Code(p, f, "object"), LAMBDA m : m.a = x /\ Len(m.b) >= 2))
        lookups == Each(files, LAMBDA f : Each(Code(p, f, "lookup"), LAMBDA m : <<[file |-> f, mark |-> m]>>))
    IN  Gather([i \in DOMAIN lookups |-> LET f == lookups[i].file m == lookups[i].mark IN
            Singles(Each(Enclosing(p, f, m.at), LAMBDA s : Each(registry(f, m.a), LAMBDA r : Each(r.b, LAMBDA x :
                Each(RegistryHandler(p, x, m.b), LAMBDA t : Calls("object-registry", s, t, m.at, <<f, r.at>>)))))) ], Cap.registry)

\* RTK Query: a generated hook and the endpoint of its file.
RtkQuery(p) ==
    All(Each(SelectSeq(Kind(p, "function"), LAMBDA h : "rtk-hook" \in h.tags), LAMBDA h :
        Each(First(SelectSeq(Functions(p, Endpoint[h.name]), LAMBDA n : n.file = h.file)), LAMBDA t :
            Calls("rtk-query", h, t, h.from, Site(h)))))

\* Pinia: a method called on a variable that holds a store, in the store's file.
StoreExts == ScriptExts \cup {"vue"}
PiniaStore(p) ==
    LET factories == Each(FilesOf(p, StoreExts), LAMBDA f : Each(Marks(p, f, "store"), LAMBDA m : <<[name |-> m.a, file |-> f]>>))
        stores(x) == Final(SelectSeq(factories, LAMBDA s : s.name = x))
        held(f, v) == Final(Each(SelectSeq(Code(p, f, "bind"), LAMBDA m : m.a = v), LAMBDA m : stores(m.b)))
    IN  Dispatched(p, "pinia-store", FilesOf(p, StoreExts), {"member"}, TRUE, Cap.store, LAMBDA f, m, s :
            Each(held(f, m.a), LAMBDA st : First(SelectSeq(Functions(p, m.b), LAMBDA n : n.file = st.file))))

\* Vuex: an action or mutation named by a path, in a file that looks like a store.
Vuex(p) ==
    LET isStore(f) == Cardinality({m.a : m \in ToSet(Marks(p, f, "signal"))}) >= 2
        cands(x) == SelectSeq(Functions(p, x), LAMBDA n : isStore(n.file))
        preferred(f, key, n) == IF Len(key) > 1 THEN key[Len(key) - 1] \in Segs[n.file] ELSE n.file = f
        target(f, key) == LET cs == cands(Final(key)[1])
                          IN  First(SelectSeq(cs, LAMBDA n : preferred(f, key, n)) \o Only(cs))
    IN  Dispatched(p, "vuex-dispatch", FilesOf(p, StoreExts), {"commit"}, TRUE, Cap.vuex, LAMBDA f, m, s : target(f, m.a))

\* Celery: a task sent by name.  A task is a function with a decorator within 12
\* lines above it and no other declaration between.
Celery(p) ==
    LET isTask(n) == /\ n.kind = "function" /\ Ext[n.file] = "py"
                     /\ \E m \in ToSet(Marks(p, n.file, "task")) :
                            /\ n.from - 12 <= m.at /\ m.at < n.from
                            /\ \A d \in ToSet(InFile(p, n.file)) : ~(m.at < d.from /\ d.from < n.from)
        target(f, x) == LET ts == SelectSeq(Named(p, x), isTask)
                        IN  IF Len(ts) = 1 THEN ts ELSE First(SelectSeq(ts, LAMBDA n : n.file = f))
    IN  Dispatched(p, "celery-dispatch", FilesOf(p, {"py"}), {"delay"}, FALSE, Cap.task, LAMBDA f, m, s : target(f, m.a))

\* Spring: a published event and the methods that listen to its class, which is
\* the type of their parameter, else the one the annotation names.
Spring(p) ==
    LET annotation(n) == First(SelectSeq(Marks(p, n.file, "listener"), LAMBDA m : n.from <= m.at /\ m.at <= n.from + 6))
        applies(n) == n.name = "onApplicationEvent" /\ Marks(p, n.file, "app-listener") # <<>>
        listened(n) == First(n.params \o Each(annotation(n), LAMBDA m : IF m.a = "" THEN <<>> ELSE <<m.a>>))
        listeners(x) == Each(FilesOf(p, {"java"}), LAMBDA f : SelectSeq(InFile(p, f), LAMBDA n :
            n.kind = "method" /\ (annotation(n) # <<>> \/ applies(n)) /\ listened(n) = <<x>>))
    IN  Dispatched(p, "spring-event", FilesOf(p, {"java"}), {"publish"}, FALSE, Cap.task, LAMBDA f, m, s : listeners(m.a))

\* MediatR: a request sent to a mediator and the handlers of its type; a variable
\* has the type of its assignment, else of its declaration, above the call.
Mediatr(p) ==
    LET handles(c) == First(SelectSeq(Marks(p, c.file, "handles"), LAMBDA m : c.from <= m.at /\ m.at <= c.from + 3))
        handlers(x) == Each(FilesOf(p, {"cs"}), LAMBDA f :
            Each(SelectSeq(InFile(p, f), LAMBDA c : c.kind = "class" /\ \E m \in ToSet(handles(c)) : m.a = x), LAMBDA c :
                First(SelectSeq(MethodsIn(p, c), LAMBDA n : n.name = "Handle"))))
        above(f, m, s, form) == SelectSeq(Code(p, f, form), LAMBDA d : d.a = m.b /\ s.from <= d.at /\ d.at <= m.at)
        type(f, m, s) == IF m.form = "send-new" THEN <<m.b>>
                         ELSE Each(First(above(f, m, s, "new") \o above(f, m, s, "declare")), LAMBDA d : <<d.b>>)
    IN  Dispatched(p, "mediatr-dispatch", FilesOf(p, {"cs"}), {"send", "send-new"}, FALSE, Cap.task, LAMBDA f, m, s :
            IF m.a \notin Mediators THEN <<>> ELSE Each(type(f, m, s), LAMBDA x : handlers(x)))

\* Sidekiq: a worker by its qualified name, else the only worker of the name.
Sidekiq(p) ==
    LET perform(c) == IF Body(p, c, "worker") = <<>> THEN <<>> ELSE First(SelectSeq(MethodsIn(p, c), LAMBDA n : n.name = "perform"))
        workers(x) == SelectSeq(Named(p, x), LAMBDA c : c.kind = "class" /\ perform(c) # <<>>)
        target(ref) == LET all == workers(Final(ref)[1])
                       IN  First((IF Len(ref) = 1 THEN <<>> ELSE SelectSeq(all, LAMBDA c : c.path = Front(ref))) \o Only(all))
    IN  Dispatched(p, "sidekiq-dispatch", FilesOf(p, {"rb"}), {"perform"}, FALSE, Cap.task, LAMBDA f, m, s :
            Each(target(m.a), LAMBDA c : perform(c)))

\* Laravel: a dispatched event and its listeners: the handle methods that take
\* it, and those of the classes a $listen map names.
Laravel(p) ==
    LET handle(c) == First(SelectSeq(MethodsIn(p, c), LAMBDA n : n.name = "handle"))
        typed(x) == Each(FilesOf(p, {"php"}), LAMBDA f : SelectSeq(InFile(p, f), LAMBDA n :
            n.kind = "method" /\ n.name = "handle" /\ Contains(n.params, x)))
        mapped(x) == Each(FilesOf(p, {"php"}), LAMBDA f : Each(SelectSeq(Code(p, f, "listen"), LAMBDA m : m.a = x), LAMBDA m :
            Each(First(SelectSeq(Named(p, m.b), LAMBDA c : c.kind = "class" /\ handle(c) # <<>>)), LAMBDA c : handle(c))))
    IN  Dispatched(p, "laravel-event", FilesOf(p, {"php"}), {"event"}, FALSE, Cap.listeners, LAMBDA f, m, s : typed(m.a) \o mapped(m.a))

\* Erlang: a call on a variable module reaches the implementers of the only
\* behaviour that declares the function with this arity.
Erlang(p) ==
    LET module(f) == First(SelectSeq(Kind(p, "namespace"), LAMBDA n : n.lang = "erlang" /\ n.file = f))
        behaviours(fn, arity) == SelectSeq(Each(FilesOf(p, {"erl", "hrl"}), module), LAMBDA b :
            \E m \in ToSet(Code(p, b.file, "callback")) : m.a = fn /\ m.b = arity)
        implementers(b) == Each(In(p, b, {"implements"}), LAMBDA e :
            SelectSeq(Row(p, e.source), LAMBDA n : n.lang = "erlang" /\ n.kind = "namespace"))
        exports(n, fn) == First(SelectSeq(InFile(p, n.file), LAMBDA g :
            g.kind = "function" /\ g.name = fn /\ "unexported" \notin g.tags))
        targets(m) == Each(Only(behaviours(m.a, m.b)), LAMBDA b : Each(implementers(b), LAMBDA n : exports(n, m.a)))
    IN  Dispatched(p, "erlang-behaviour", FilesOf(p, {"erl", "hrl"}), {"var-call"}, FALSE, Cap.unlimited, LAMBDA f, m, s :
            IF Len(targets(m)) > Cap.behaviour THEN <<>> ELSE targets(m))

\* GoFrame: a route and the method whose pointer parameter is its request type,
\* by the qualified type, else by the bare one.
Controllers == {"controller", "controllers"}
SelectHandler(ms, f) ==
    LET inControllers == SelectSeq(ms, LAMBDA h : Segs[h.file] \cap Controllers # {})
        cands == IF inControllers = <<>> THEN ms ELSE inControllers
    IN  IF Len(ms) = 1 THEN ms
        ELSE IF Len(cands) = 1 THEN cands
        ELSE Only(SelectSeq(cands, LAMBDA h : Scope[h.file] = Scope[f]))
GoframeRoute(p) ==
    LET routes == SelectSeq(Kind(p, "route"), LAMBDA r : r.lang = "go" /\ r.path # <<>>)
        takes(m, key) == \E t \in ToSet(m.params) : t = key \/ (Len(key) = 1 /\ Final(t) = key)
        handlers(key) == SelectSeq(Kind(p, "method"), LAMBDA m : m.lang = "go" /\ takes(m, key))
        cands(key) == IF handlers(key) # <<>> THEN handlers(key) ELSE handlers(Final(key))
    IN  Gather(<<Singles(Each(routes, LAMBDA r : Each(SelectHandler(cands(r.path), r.file), LAMBDA h :
            Calls("goframe-route", r, h, r.from, Site(h)))))>>, Cap.routes)
=============================================================================
