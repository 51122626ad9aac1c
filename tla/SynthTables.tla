----------------------------- MODULE SynthTables -----------------------------
(* Edge synthesis: the passes that rebuild a table before they look anything  *)
(* up in it: the option tree of Nix modules (callback-synthesizer.ts) and the *)
(* tables of function pointers of C and C++ (c-fnptr-synthesizer.ts).         *)
EXTENDS SynthDispatch

\* Nix options: a binding under `options` declares the path of its span, one
\* outside writes one.  A submodule's options have no path.
Submodule == "submodule"
Covers(o, r) == /\ o.from <= r.from /\ r.to <= o.to
                /\ ~(o.from = r.from /\ o.to = r.to)
NixFile(rows) ==
    FoldLeft(LAMBDA st, r :
        LET \* spans that end above the row are popped
            open == LET live == {i \in DOMAIN st.stack : st.stack[i].to >= r.from}
                    IN  IF live = {} THEN <<>> ELSE SubSeq(st.stack, 1, Max(live))
            inner == SelectSeq(Final(open), LAMBDA o : Covers(o, r))
            path == IF r.path[1] = "options" THEN IF inner # <<>> THEN <<Submodule>> ELSE Tail(r.path)
                    ELSE inner[1].prefix \o r.path
        IN  IF r.path[1] = "options" \/ inner # <<>>
            THEN [stack |-> Append(open, [from |-> r.from, to |-> r.to, prefix |-> path]),
                  decls |-> IF Len(path) < 2 \/ Contains(path, Submodule) THEN st.decls
                            ELSE Append(st.decls, [path |-> path, node |-> r]),
                  writes |-> st.writes]
            ELSE [stack |-> open, decls |-> st.decls,
                  writes |-> IF Len(r.path) >= 2 THEN Append(st.writes, r) ELSE st.writes],
        [stack |-> <<>>, decls |-> <<>>, writes |-> <<>>], rows)

\* A write refers to the longest declared prefix of its path, if one file has it.
Declared(ds) == Cardinality({ds[i].node.file : i \in DOMAIN ds}) = 1
Longest(path, ds) ==
    LET declared(n) == SelectSeq(ds, LAMBDA d : d.path = SubSeq(path, 1, n))
    IN  Final(SelectSeq([n \in 1..5 |-> IF n + 1 <= Len(path) THEN declared(n + 1) ELSE <<>>], LAMBDA found : found # <<>>))
Written(w) == IF w.path[1] = "config" THEN Tail(w.path) ELSE w.path
OptionEdges(decls, writes) ==
    Each(writes, LAMBDA w : Each(Longest(Written(w), decls), LAMBDA ds :
        IF Declared(ds) THEN Link("nix-option-path", w, ds[1].node, "references", w.from, Site(ds[1].node)) ELSE <<>>))
NixPaths(read) == OptionEdges(Each(read, LAMBDA x : x.decls), Each(read, LAMBDA x : x.writes))

BySpan(rows) == SortSeq(rows, LAMBDA m, n : m.from < n.from \/ (m.from = n.from /\ m.to > n.to))
NixFiles(recs, files) == [i \in DOMAIN files |-> NixFile(BySpan(SelectSeq(recs, LAMBDA n : n.file = files[i])))]
FilesIn(recs) == AddNew(<<>>, [i \in DOMAIN recs |-> recs[i].file])
NixOptions(p) ==
    LET recs == SelectSeq(Kind(p, "variable") \o Kind(p, "function"), LAMBDA n : n.lang = "nix" /\ n.path # <<>>)
    IN  NixPaths(NixFiles(recs, FilesIn(recs)))

-----------------------------------------------------------------------------
\* Function pointers.  A value is a sequence of items: <<"is", field, name>>,
\* <<"at", name>> or <<"macro", name, arguments>>; "" is no text at all.  No pass
\* but the one over the includes reads what a comment holds.
CExts == {"c", "h", "cc", "cpp", "cxx", "hpp", "hh", "hxx", "cppm", "ipp", "inl", "tcc"}
Keywords == {"void", "int", "char", "short", "long", "unsigned", "signed", "float", "double", "const", "struct", "union",
             "enum", "static", "volatile", "register", "inline"}
CFiles(p) == FilesOf(p, CExts)
CFns(p) == SelectSeq(Kind(p, "function") \o Kind(p, "method"), LAMBDA n : Ext[n.file] \in CExts)
\* A type of functions, of which a variable is declared with a star, or of
\* pointers to them.
Typedefs(p, form) == UNION {{m.a : m \in ToSet(Code(p, f, form))} : f \in ToSet(CFiles(p))}
FnTypes(p) == Typedefs(p, "fn-pointer-type") \cup Typedefs(p, "fn-type")
FnFields(p, fields) == SelectSeq(fields, LAMBDA f : f.name # "" /\ (f.ptr \/ f.type \in FnTypes(p)))
ResolveFn(p, x, f) == First(SelectSeq(Callables(p, x), LAMBDA n : n.file = f) \o Callables(p, x))

\* What a file and its local includes, two levels deep, define: the first wins.
Includes(p, f) == Each(Marks(p, f, "include"), LAMBDA m : IF m.a \in DOMAIN p.text THEN <<m.a>> ELSE <<>>)
RECURSIVE Reach(_, _, _, _)
Reach(p, f, depth, seen) ==
    IF depth < 0 \/ Contains(seen, f) THEN seen
    ELSE FoldLeft(LAMBDA acc, g : Reach(p, g, depth - 1, acc), Append(seen, f), Includes(p, f))
Live(marks) == SelectSeq(marks, LAMBDA m : ~m.dead)
DefinesOf(marks) == Reverse(SelectSeq(Live(marks), LAMBDA m : m.form \in {"define", "macro"}))
Definitions(p, f) == Each(Reach(p, f, 2, <<>>), LAMBDA g : DefinesOf(p.text[g]))
Defining(ds) == {d.a : d \in ToSet(ds)}

\* The lines of an included file that its includer's definitions leave in; a
\* condition that cannot be evaluated holds.
Branches == {"if", "else", "endif"}
Active(marks, defined) ==
    FoldLeft(LAMBDA st, m :
        LET top == Final(st.stack)
            live == \A t \in ToSet(top) : t.active
            holds == m.b = "unknown" \/ ((m.a \in defined) <=> (m.b = "yes"))
        IN  CASE m.form = "if" -> [st EXCEPT !.stack = Append(@, [outer |-> live, active |-> live /\ holds, taken |-> holds])]
              [] m.form = "else" /\ top # <<>> ->
                     [st EXCEPT !.stack = Append(Front(@), [top[1] EXCEPT !.active = top[1].outer /\ ~top[1].taken, !.taken = TRUE])]
              [] m.form = "endif" /\ top # <<>> -> [st EXCEPT !.stack = Front(@)]
              [] OTHER -> IF live /\ m.form \notin Branches THEN [st EXCEPT !.kept = Append(@, m)] ELSE st,
        [stack |-> <<>>, kept |-> <<>>], Live(marks)).kept

\* Each file is read by itself, and what it includes again in its environment,
\* unless the included file is indexed and this one can change nothing in it.
Units(p) ==
    Each(CFiles(p), LAMBDA f :
        LET env == Definitions(p, f)
            again(g) == \/ g \notin ToSet(CFiles(p))
                        \/ /\ ~(Defining(env) \subseteq Defining(DefinesOf(p.text[g])))
                           /\ Code(p, g, "if") # <<>>
            included(g) == LET text == Active(p.text[g], Defining(env))
                           IN  [file |-> g, text |-> text, env |-> DefinesOf(text) \o env]
        IN  <<[file |-> f, text |-> Live(p.text[f]), env |-> env]>>
            \o Each(AddNew(<<>>, Includes(p, f)), LAMBDA g : IF again(g) THEN <<included(g)>> ELSE <<>>))

\* Macros in a value are expanded one at a time, six at most.
Bind(d, args, x) == LET i == SelectInSeq(d.b.params, LAMBDA y : y = x)
                    IN  IF i = 0 THEN x ELSE IF i \in DOMAIN args THEN args[i] ELSE ""
MacroNamed(env, x) == First(SelectSeq(env, LAMBDA d : d.form = "macro" /\ d.a = x))
Expanded(items, env) ==
    FoldLeft(LAMBDA its, pass :
        LET i == SelectInSeq(its, LAMBDA it : it[1] = "macro" /\ MacroNamed(env, it[2]) # <<>>)
        IN  IF i = 0 THEN its
            ELSE LET d == MacroNamed(env, its[i][2])[1]
                     bound(it) == CASE it[1] = "is" -> <<"is", it[2], Bind(d, its[i][3], it[3])>>
                                    [] it[1] = "at" -> <<"at", Bind(d, its[i][3], it[2])>>
                                    [] OTHER -> <<"macro", it[2], [k \in DOMAIN it[3] |-> Bind(d, its[i][3], it[3][k])]>>
                 IN  SubSeq(its, 1, i - 1) \o [k \in DOMAIN d.b.items |-> bound(d.b.items[k])] \o SubSeq(its, i + 1, Len(its)),
        items, [k \in 1..6 |-> k])

\* The tables so far: layouts of structs, types of global variables, functions
\* registered for a field of a struct, and for an array.
LayoutOf(p, st, s) == Final(SelectSeq(st.layouts, LAMBDA l : l.name = s /\ FnFields(p, l.fields) # <<>>))
FnField(p, st, s, x) == \E l \in ToSet(LayoutOf(p, st, s)) : \E f \in ToSet(FnFields(p, l.fields)) : f.name = x

\* One value of a struct: a named item sets its field, another the next position;
\* a name that expands to nothing leaves its field without one and so counts.
Read(items) ==
    Each(items, LAMBDA it : CASE it = <<"at", "">> -> <<>>
                              [] it[1] = "is" /\ it[3] = "" -> <<<<"at", "">>>>
                              [] OTHER -> <<it>>)
Place(items, i) == Cardinality({k \in 1..i : items[k][1] # "is"})
FieldSet(p, st, s, item, place) ==
    IF item[1] = "is" THEN <<item[2]>>
    ELSE Each(LayoutOf(p, st, s), LAMBDA l : IF item[1] = "at" /\ place \in DOMAIN l.fields THEN <<l.fields[place].name>> ELSE <<>>)
ItemRegistered(p, st, s, item, place, file) ==
    Each(SelectSeq(FieldSet(p, st, s, item, place), LAMBDA x : FnField(p, st, s, x)), LAMBDA x :
        Each(ResolveFn(p, item[Len(item)], file), LAMBDA n : <<[key |-> <<s, x>>, fn |-> n]>>))
AllRegistered(p, st, s, items, u) ==
    [st EXCEPT !.reg = AddNew(@, FlattenSeq([i \in DOMAIN items |-> ItemRegistered(p, st, s, items[i], Place(items, i), u.file)]))]
Registered(p, st, s, value, u) == AllRegistered(p, st, s, Read(Expanded(value, u.env)), u)
Initialised(p, st, s, b, u) == FoldLeft(LAMBDA acc, v : Registered(p, acc, s, v, u), [st EXCEPT !.globals = Append(@, [var |-> b.var, type |-> s])], b.values)

\* A type that has no layout may be a macro for one that has.
Aliased(env, x) ==
    FoldLeft(LAMBDA t, i : LET d == First(SelectSeq(env, LAMBDA e : e.form = "define" /\ e.a = t))
                           IN  IF d = <<>> \/ d[1].b = "" THEN t ELSE d[1].b, x, [i \in 1..5 |-> i])
WithLayout(p, st, m) == IF LayoutOf(p, st, m.a) # <<>> THEN st
                        ELSE [st EXCEPT !.layouts = Append(@, [name |-> m.a, fields |-> m.b.fields])]
TypeNamed(p, st, u, x) == IF LayoutOf(p, st, x) # <<>> THEN x ELSE Aliased(u.env, x)

ArrayType(p, m) == m.a \in Typedefs(p, "fn-pointer-type") \/ (m.b.star /\ m.a \in Typedefs(p, "fn-type"))
ArrayRegistered(p, st, b, u) ==
    [st EXCEPT !.arrays = AddNew(@, Each(SelectSeq(Expanded(b.items, u.env), LAMBDA it : it[1] = "at"), LAMBDA it :
        Each(ResolveFn(p, it[2], u.file), LAMBDA n : <<[name |-> b.var, file |-> u.file, fn |-> n]>>)))]

\* The forms a unit is read for: "inline", a struct with its values; "init", the
\* values of a struct; "table", an array of functions.
ReadMark(p, st, u, m, s) ==
    CASE m.form \in {"inline", "init"} /\ LayoutOf(p, st, s) # <<>> -> Initialised(p, st, s, m.b, u)
      [] m.form = "table" /\ ArrayType(p, m) -> ArrayRegistered(p, st, m.b, u)
      [] OTHER -> st
ReadUnit(p, start, u) ==
    FoldLeft(LAMBDA st, m :
                 IF m.form # "inline" THEN ReadMark(p, st, u, m, TypeNamed(p, st, u, m.a))
                 ELSE IF FnFields(p, m.b.fields) = <<>> THEN st ELSE ReadMark(p, WithLayout(p, st, m), u, m, m.a),
             start, Each(<<"inline", "init", "table">>, LAMBDA form : SelectSeq(u.text, LAMBDA m : m.form = form)))

Tables(p) ==
    LET structs == Each(SelectSeq(Kind(p, "struct"), LAMBDA s : Ext[s.file] \in CExts), LAMBDA s :
            Each(First(SelectSeq(Body(p, s, "layout"), LAMBDA m : ~m.dead)), LAMBDA m : <<[name |-> s.name, fields |-> m.b]>>))
    IN  FoldLeft(LAMBDA st, u : ReadUnit(p, st, u),
                 [layouts |-> structs, globals |-> <<>>, reg |-> <<>>, arrays |-> <<>>], Units(p))

\* The type of a variable in a function, and of a chain of its fields.
LocalsOf(p, fn, x) == SelectSeq(Body(p, fn, "local"), LAMBDA m : m.b = x /\ ~m.dead)
ReceiverType(p, st, fn, x) == First(Each(LocalsOf(p, fn, x), LAMBDA m : IF LayoutOf(p, st, m.a) # <<>> THEN <<m.a>> ELSE <<>>))
VarType(p, st, fn, x) ==
    First(Each(LocalsOf(p, fn, x), LAMBDA m : IF m.a \in Keywords THEN <<>> ELSE <<m.a>>)
          \o Each(Final(SelectSeq(st.globals, LAMBDA g : g.var = x)), LAMBDA g : <<g.type>>))
ChainType(p, st, fn, chain) ==
    FoldLeft(LAMBDA t, x : First(Each(SelectSeq(st.layouts, LAMBDA l : <<l.name>> = t), LAMBDA l :
                 Each(First(SelectSeq(l.fields, LAMBDA f : f.name = x /\ f.type # "")), LAMBDA f : <<f.type>>))),
             VarType(p, st, fn, chain[1]), Tail(chain))

\* An assignment from field to field passes on what is registered, three rounds.
Move(p, st, to, from) == IF FnField(p, st, to[1], to[2]) /\ FnField(p, st, from[1], from[2])
                         THEN <<[to |-> to, from |-> from]>> ELSE <<>>
Moves(p, st) ==
    Each(CFns(p), LAMBDA fn : Each(SelectSeq(Body(p, fn, "copy"), LAMBDA m : ~m.dead), LAMBDA m :
        Each(ReceiverType(p, st, fn, m.a[1]), LAMBDA to : Each(ReceiverType(p, st, fn, m.b[1]), LAMBDA from :
            Move(p, st, <<to, m.a[2]>>, <<from, m.b[2]>>)))))
Copied(reg, v) == AddNew(reg, Each(SelectSeq(reg, LAMBDA r : r.key = v.from), LAMBDA r : <<[r EXCEPT !.key = v.to]>>))
Propagated(p, st) == [st EXCEPT !.reg = FoldLeft(LAMBDA reg, moves : FoldLeft(Copied, reg, moves), @, [i \in 1..3 |-> Moves(p, st)])]

\* The struct a call through a field goes through: what the expression says, or
\* the only one that has such a field.
Owners(p, st, x) == {l.name : l \in {k \in ToSet(st.layouts) : \E f \in ToSet(FnFields(p, k.fields)) : f.name = x}}
Owner(types, owners) == First(SelectSeq(types, LAMBDA s : s \in owners) \o IF Cardinality(owners) = 1 THEN SetToSeq(owners) ELSE <<>>)
InField(p, st, fn, m) ==
    Each(Owner(ChainType(p, st, fn, m.a) \o ReceiverType(p, st, fn, Final(m.a)[1]), Owners(p, st, m.b)), LAMBDA s :
        SelectSeq(st.reg, LAMBDA r : r.key = <<s, m.b>>))

\* An array of the name, of this file when several files have one.
OneFile(rs, f) == IF Cardinality({r.file : r \in ToSet(rs)}) = 1 THEN rs ELSE SelectSeq(rs, LAMBDA r : r.file = f)
InArray(st, fn, m) == OneFile(SelectSeq(st.arrays, LAMBDA r : r.name = m.a), fn.file)

PointerCalls(p, st, fn) ==
    Each(<<"field-call", "index-call">>, LAMBDA form : Each(SelectSeq(Body(p, fn, form), LAMBDA m : ~m.dead), LAMBDA m :
        Each(IF form = "field-call" THEN InField(p, st, fn, m) ELSE InArray(st, fn, m), LAMBDA r :
            Calls("fn-pointer-dispatch", fn, r.fn, m.at, <<fn.file, m.at>>))))
Dispatching(p, st) == LET fns == CFns(p) IN Gather([i \in DOMAIN fns |-> Singles(PointerCalls(p, st, fns[i]))], Cap.pointers)
FnPointers(p) == Dispatching(p, Propagated(p, Tables(p)))
=============================================================================
