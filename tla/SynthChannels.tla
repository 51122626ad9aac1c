---------------------------- MODULE SynthChannels ----------------------------
(* Edge synthesis: the passes that pair what some lines register with what    *)
(* other lines set off: observers, events, and the re-rendering of components *)
(* (callback-synthesizer.ts).                                                 *)
EXTENDS SynthGraph

CONSTANTS Registrars, Dispatchers   \* names of the shape onX, subscribe, ...; of the shape emit, notify, ...

\* Somebody's part in a channel; a node has one part in it, at the first or at
\* the last of its lines.
Part(n, key, line, site) == <<[node |-> n, key |-> key, line |-> line, site |-> site]>>
Same(u, v) == Id(u.node) = Id(v.node) /\ u.key = v.key
AtFirst(us) == FoldLeft(LAMBDA acc, u : IF \E v \in ToSet(acc) : Same(u, v) THEN acc ELSE Append(acc, u), <<>>, us)
AtLast(us) == LET parts == AtFirst(us) IN [i \in DOMAIN parts |-> Final(SelectSeq(us, LAMBDA u : Same(u, parts[i])))[1]]
OfKey(us, k) == SelectSeq(us, LAMBDA u : u.key = k)
Channels(us) == AddNew(<<>>, [i \in DOMAIN us |-> us[i].key])

\* Everybody who sends on a channel reaches everybody who listens, unless one
\* side is larger than the cap.
Broadcast(by, senders, listeners, cap) ==
    All(Each(Channels(senders), LAMBDA k :
        IF Len(OfKey(senders, k)) > cap \/ Len(OfKey(listeners, k)) > cap THEN <<>>
        ELSE Each(OfKey(senders, k), LAMBDA s : Each(OfKey(listeners, k), LAMBDA l : Calls(by, s.node, l.node, s.line, l.site)))))

\* Field observers: a method that adds to a field, one of the same file that
\* calls what is in the field, in a for-of before a forEach, and the callback a
\* call of the first one names.
FieldChannel(p) ==
    LET parts(names, forms) == Each(MethodsAndFunctions(p), LAMBDA n :
            IF n.name \notin names THEN <<>>
            ELSE Each(First(Each(forms, LAMBDA form : Body(p, n, form))), LAMBDA m : Part(n, m.a, n.from, NoSite)))
        loops(r) == SelectSeq(parts(Dispatchers, <<"loop-of", "loop-each">>), LAMBDA d : d.node.file = r.node.file /\ d.key = r.key)
        named(r, e) == Each(First(SelectSeq(p.text[e.source[1]], LAMBDA m : m.form = "pass" /\ m.at = e.line /\ m.a = r.node.name)),
                            LAMBDA m : First(SelectSeq(Named(p, m.b), LAMBDA n : n.kind \in Callable)))
        regs == parts(Registrars, <<"add">>)
    IN  Gather([i \in DOMAIN regs |-> LET r == regs[i] calls == In(p, r.node, {"calls"}) IN
            [k \in DOMAIN calls |-> Each(named(r, calls[k]), LAMBDA fn : Each(loops(r), LAMBDA d :
                Calls("callback", d.node, fn, d.line, <<calls[k].source[1], calls[k].line>>)))]], Cap.channel)

\* A collection one method appends closures to, through a lock first or at once,
\* and another invokes one by one.
ClosureCollection(p) ==
    LET parts(forms) == AtFirst(Each(MethodsAndFunctions(p), LAMBDA n : Each(forms, LAMBDA form :
            Each(Body(p, n, form), LAMBDA m : Part(n, m.a, m.at, <<n.file, m.at>>)))))
    IN  Broadcast("closure-collection", parts(<<"each">>), parts(<<"append-write", "append">>), Cap.field)

\* Events by name: who emits one, and the function named where it is listened to.
EventEmitter(p) ==
    LET emits == Each(Files(p), LAMBDA f : Each(Marks(p, f, "emit"), LAMBDA m :
            Each(Enclosing(p, f, m.at), LAMBDA n : Part(n, m.a, 0, NoSite))))
        ons == Each(Files(p), LAMBDA f : Each(Marks(p, f, "on"), LAMBDA m :
            Each(First(SelectSeq(Named(p, m.b), LAMBDA n : n.kind \in Callable)), LAMBDA n : Part(n, m.a, 0, <<f, m.at>>))))
    IN  Broadcast("event-emitter", AtFirst(emits), AtLast(ons), Cap.event)

\* React Native: events a native module sends and JavaScript listens to; an
\* inline listener counts for the function, else the constant, around it.
ScriptExts == {"js", "jsx", "ts", "tsx", "mjs", "cjs"}
RnEvent(p) ==
    LET forms(f) == CASE Ext[f] \in {"m", "mm"} -> <<"send-objc">>
                      [] Ext[f] = "swift" -> <<"send-swift", "send-event">>
                      [] Ext[f] \in {"java", "kt"} -> <<"send-jvm", "send-event">>
                      [] OTHER -> <<>>
        sends == Each(Files(p), LAMBDA f : Each(forms(f), LAMBDA form : Each(Marks(p, f, form), LAMBDA m :
            Each(Enclosing(p, f, m.at), LAMBDA n : Part(n, m.a, 0, NoSite)))))
        around(f, line) == Final(SelectSeq(InFile(p, f), LAMBDA n : n.kind \in {"constant", "variable"} /\ Spans(n, line)))
        ons == Each(FilesOf(p, ScriptExts), LAMBDA f : Each(Marks(p, f, "listen"), LAMBDA m :
            Each(First(SelectSeq(Named(p, m.b), LAMBDA n : n.kind \in Callable) \o Enclosing(p, f, m.at) \o around(f, m.at)),
                 LAMBDA n : Part(n, m.a, 0, <<f, m.at>>))))
    IN  Broadcast("rn-event-channel", AtFirst(sends), AtLast(ons), Cap.event)

\* HarmonyOS events.  The key is the literal, or what the file first declares the
\* variable as: a number counts in its file, a name in its package.
Tightest(p, f, line) ==
    LET around == SelectSeq(InFile(p, f), LAMBDA n : n.kind \in Callable /\ Spans(n, line))
    IN  First(SelectSeq(around, LAMBDA n : \A m \in ToSet(around) : n.to - n.from <= m.to - m.from))
ArkuiEmitter(p) ==
    LET known(f, form, x) == CASE form \in {"emit-number", "on-number", "is-number"} -> <<<<"num", f, x>>>>
                               [] form \in {"emit-name", "on-name", "is-name"} -> <<<<"name", Scope[f], x>>>>
                               [] OTHER -> <<>>
        declared(f, x) == First(SelectSeq(p.text[f], LAMBDA d : ~d.dead /\ d.form \in {"is-number", "is-name", "is-other"} /\ d.a = x))
        keys(f, m) == IF m.form \in {"emit-var", "on-var"} THEN Each(declared(f, m.a), LAMBDA d : known(f, d.form, d.b))
                      ELSE known(f, m.form, m.a)
        parts(forms) == Each(FilesOf(p, {"ets"}), LAMBDA f :
            Each(SelectSeq(p.text[f], LAMBDA m : m.form \in forms /\ ~m.dead), LAMBDA m : Each(Tightest(p, f, m.at), LAMBDA n :
                Each(keys(f, m), LAMBDA k : Part(n, k, m.at, <<f, m.at>>)))))
    IN  Broadcast("arkui-emitter", parts({"emit-number", "emit-name", "emit-var"}), parts({"on-number", "on-name", "on-var"}), Cap.emitter)

\* HarmonyOS routes: the entry component of the only page file of a url, within
\* the package of the caller when there are several.
BadOnly(fs) == First(fs)
Only(fs) == IF Len(fs) = 1 THEN fs ELSE <<>>
ArkuiRouter(p) ==
    LET pages(f, url) ==
            LET all == SelectSeq(Files(p), LAMBDA g : Ext[g] = "ets" /\ Contains(Beside[g], url))
                own == SelectSeq(all, LAMBDA g : Scope[g] = Scope[f])
            IN  IF Len(all) > 1 /\ own # <<>> THEN own ELSE all
    IN  All(Each(FilesOf(p, {"ets"}), LAMBDA f : Each(Code(p, f, "push"), LAMBDA m : Each(Tightest(p, f, m.at), LAMBDA n :
            Each(Only(pages(f, m.a)), LAMBDA g :
                Each(First(SelectSeq(InFile(p, g), LAMBDA s : s.kind = "struct" /\ "Entry" \in s.tags)), LAMBDA s :
                    Calls("arkui-route", n, s, m.at, Site(s))))))))

\* Setting state runs the method of the class that draws it.
Redrawn(by, p, draws, Sets(_, _)) ==
    Gather([i \in DOMAIN draws |-> LET c == draws[i].of d == draws[i].draw IN
        Singles(Each(SelectSeq(Members(p, c), LAMBDA m : Id(m) # Id(d) /\ Sets(c, m)), LAMBDA m : Calls(by, m, d, m.from, Site(d))))],
        Cap.channel)
Drawing(p, kind, name) ==
    Each(Kind(p, kind), LAMBDA c : Each(First(SelectSeq(Members(p, c), LAMBDA m : m.name = name)), LAMBDA d : <<[of |-> c, draw |-> d]>>))
ReactRender(p) ==
    Redrawn("react-render", p, Drawing(p, "class", "render"),
            LAMBDA c, m : \E s \in ToSet(Body(p, m, "setState")) : s.a = "this")
FlutterBuild(p) ==
    Redrawn("flutter-build", p, SelectSeq(Drawing(p, "class", "build"), LAMBDA d : Ext[d.draw.file] = "dart"),
            LAMBDA c, m : Body(p, m, "setState") # <<>>)
Reactive == {"State", "Prop", "Link", "Provide", "Consume", "StorageLink", "StorageProp", "LocalStorageLink", "LocalStorageProp",
             "ObjectLink", "Local", "Provider", "Consumer"}
ArkuiState(p) ==
    LET props(c) == Names(SelectSeq(Children(p, c), LAMBDA n : n.kind = "property" /\ n.tags \cap Reactive # {}))
    IN  Redrawn("arkui-state", p, SelectSeq(Drawing(p, "struct", "build"), LAMBDA d : d.of.lang = "arkts"),
                LAMBDA c, m : \E s \in ToSet(Body(p, m, "assign")) : ~s.dead /\ s.a \in props(c))

\* A component renders those its markup names.
Component == {"component", "function", "class"}
JsxChild(p) ==
    LET parents == Each(Files(p), LAMBDA f : SelectSeq(InFile(p, f), LAMBDA n : n.kind \in FnKinds))
    IN  Gather([i \in DOMAIN parents |-> Singles(Each(Body(p, parents[i], "tag"), LAMBDA m :
            Each(First(SelectSeq(Named(p, m.a), LAMBDA n : n.kind \in Component)), LAMBDA n :
                Calls("jsx-render", parents[i], n, parents[i].from, NoSite))))], Cap.jsx)

\* Vue: the components of a template, by name or by the name Nuxt derives from
\* their path, and its handlers, which may be destructured from a composable.
Bound(by, c, n, site) == Calls(by, c, n, c.from, site)
VueTemplate(p) ==
    LET comps == Each(FilesOf(p, {"vue"}), LAMBDA f : First(SelectSeq(InFile(p, f), LAMBDA n : n.kind = "component")))
        resolve(c, x, kinds) == LET ms == SelectSeq(Named(p, x), LAMBDA n : n.kind \in kinds)
                                IN  First(SelectSeq(ms, LAMBDA n : n.file = c.file) \o ms)
        nuxt(x) == SelectSeq(Kind(p, "component"), LAMBDA n : Contains(Beside[n.file], x))
        returned(c, u) == Each(resolve(c, u.a, Callable), LAMBDA h : First(SelectSeq(Named(p, u.b.key), LAMBDA n :
                              n.kind \in Callable \cup {"variable", "constant"} /\ n.file = h.file)))
        handler(c, x) == First(resolve(c, x, Callable) \o
            Each(Final(SelectSeq(Marks(p, c.file, "use"), LAMBDA u : u.b.as = x)), LAMBDA u : returned(c, u)))
    IN  GatherBy(LAMBDA e : <<e.source, e.target, e.by>>, [i \in DOMAIN comps |-> LET c == comps[i] IN Singles(
            Each(Marks(p, c.file, "kebab") \o Marks(p, c.file, "tag"), LAMBDA m :
                Each(First(resolve(c, m.a, Component) \o nuxt(m.a)), LAMBDA n : Bound("jsx-render", c, n, NoSite)))
            \o Each(Marks(p, c.file, "handler"), LAMBDA m : Each(handler(c, m.a), LAMBDA n : Bound("vue-handler", c, n, NoSite))))],
            Cap.jsx)

\* Pairs of files: a SvelteKit page and the hooks of its loaders, a Pascal unit
\* and its form.
SvelteLoad(p) ==
    Each(FilesOf(p, {"svelte"}), LAMBDA f : Each(First(SelectSeq(InFile(p, f), LAMBDA n : n.kind = "component")), LAMBDA c :
        Each(SelectSeq(Beside[f], LAMBDA g : g \in DOMAIN p.text), LAMBDA g :
            Each(SelectSeq(InFile(p, g), LAMBDA n : n.name \in {"load", "actions"} /\ n.kind \in Callable \cup {"constant", "variable"}),
                 LAMBDA n : Link("sveltekit-load", c, n, "references", c.from, Site(n))))))
PascalForm(p) ==
    LET unit(f) == First(SelectSeq(InFile(p, f), LAMBDA n : n.kind = "file"))
    IN  Each(FilesOf(p, {"dfm", "fmx"}), LAMBDA f : Each(SelectSeq(Beside[f], LAMBDA g : g \in DOMAIN p.text), LAMBDA g :
            Each(unit(g), LAMBDA u : Each(unit(f), LAMBDA n : Link("pascal-form", u, n, "references", u.from, <<g, 0>>)))))
=============================================================================
