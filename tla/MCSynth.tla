------------------------------- MODULE MCSynth -------------------------------
(* Small projects for Synthesizer, one per family of languages, each with the *)
(* case its passes may confuse: a type and its methods in two files, two      *)
(* candidates of a name, a line that a comment holds, a side above its cap.   *)
EXTENDS Synthesizer

N(name, kind, lang, file, from, to) ==
    [name |-> name, kind |-> kind, lang |-> lang, file |-> file, from |-> from, to |-> to, tags |-> {}, path |-> <<>>, params |-> <<>>]
Tag(n, tags) == [n EXCEPT !.tags = tags]
Of(n, path) == [n EXCEPT !.path = path]
Takes(n, params) == [n EXCEPT !.params = params]
K(at, form, a, b) == [at |-> at, form |-> form, a |-> a, b |-> b, dead |-> FALSE]
Note(m) == [m EXCEPT !.dead = TRUE]
E(s, t, kind, line) == [source |-> Id(s), target |-> Id(t), kind |-> kind, line |-> line, by |-> "", site |-> NoSite]
Has(s, ts) == [i \in DOMAIN ts |-> E(s, ts[i], "contains", s.from)]

\* path, directory, extension, and what a framework derives from the path.
Paths == << <<"api/ctl/user.go", "api/ctl", "go">>, <<"api/far.go", "api", "go">>, <<"api/gen/user.pb.go", "api/gen", "go">>,
            <<"api/near.go", "api", "go">>, <<"api/v1/user.go", "api/v1", "go">>, <<"app/Card.vue", "app", "vue">>,
            <<"app/Page.vue", "app", "vue">>, <<"app/a.ts", "app", "ts">>, <<"app/b.ts", "app", "ts">>,
            <<"app/page.svelte", "app", "svelte">>, <<"app/page.ts", "app", "ts">>, <<"c/cmds.def", "c", "def">>,
            <<"c/cmds.h", "c", "h">>, <<"c/main.c", "c", "c">>, <<"com/Mapper.java", "com", "java">>, <<"com/Mapper.xml", "com", "xml">>,
            <<"com/Other.java", "com", "java">>, <<"cpp/base.cpp", "cpp", "cpp">>, <<"cpp/derived.cpp", "cpp", "cpp">>,
            <<"cs/a.cs", "cs", "cs">>, <<"cs/b.cs", "cs", "cs">>, <<"dart/page.dart", "dart", "dart">>, <<"erl/b.erl", "erl", "erl">>,
            <<"erl/m.erl", "erl", "erl">>, <<"erl/n.erl", "erl", "erl">>, <<"hap/one/Home.ets", "hap/one", "ets">>,
            <<"hap/one/Main.ets", "hap/one", "ets">>, <<"hap/three/Main.ets", "hap/three", "ets">>,
            <<"hap/two/Home.ets", "hap/two", "ets">>, <<"ios/M.mm", "ios", "mm">>, <<"ios/M.swift", "ios", "swift">>,
            <<"kt/M.kt", "kt", "kt">>, <<"kt/W.kt", "kt", "kt">>, <<"nix/a.nix", "nix", "nix">>, <<"nix/b.nix", "nix", "nix">>,
            <<"nix/c.nix", "nix", "nix">>, <<"pas/main.dfm", "pas", "dfm">>, <<"pas/main.pas", "pas", "pas">>,
            <<"php/a.php", "php", "php">>, <<"php/b.php", "php", "php">>, <<"py/a.py", "py", "py">>, <<"py/b.py", "py", "py">>,
            <<"py/c.py", "py", "py">>, <<"rb/a.rb", "rb", "rb">>, <<"rb/b.rb", "rb", "rb">>, <<"store/cart.js", "store", "js">>,
            <<"store/user.js", "store", "js">> >>
MCSorted == [i \in DOMAIN Paths |-> Paths[i][1]]
Path(f) == Paths[CHOOSE i \in DOMAIN Paths : Paths[i][1] = f]
AllPaths == ToSet(MCSorted)
MCDir == [f \in AllPaths |-> Path(f)[2]]
MCExt == [f \in AllPaths |-> Path(f)[3]]
MCScope == [f \in AllPaths |-> Path(f)[2]]
MCSegs == [f \in AllPaths |-> CASE f = "store/cart.js" -> {"store", "cart"} [] f = "store/user.js" -> {"store", "user"}
                                [] f = "api/ctl/user.go" -> {"api", "controller"} [] OTHER -> {}]
MCBeside == [f \in AllPaths |-> CASE f = "app/page.svelte" -> <<"app/page.ts">> [] f = "pas/main.dfm" -> <<"pas/main.pas">>
                                  [] f \in {"hap/one/Home.ets", "hap/two/Home.ets"} -> <<"pages/Home">> [] f = "app/Card.vue" -> <<"AppCard">> [] OTHER -> <<>>]
MCGenerated == {"api/gen/user.pb.go"}
MCStem == [x \in {"play:with:"} |-> "play"]
MCSuffixed == [x \in {"Cell"} |-> <<"Cell", "CellView">>]
MCEndpoint == [x \in {"useGetUserQuery"} |-> "getUser"]
MCRegistrars == {"onChange"}
MCDispatchers == {"notify"}
MCMediators == {"mediator"}
MCCap == [channel |-> 40, event |-> 1, field |-> 2, emitter |-> 2, jsx |-> 30, thunk |-> 20, registry |-> 40, store |-> 30, vuex |-> 30,
          task |-> 30, listeners |-> 30, unlimited |-> 100, behaviour |-> 2, routes |-> 100, pointers |-> 3]

\* Go: a service declared in one file with its methods in two, the generated
\* stub of its interface, a chain of handlers and a route.
Svc == N("Svc", "struct", "go", "api/ctl/user.go", 1, 2)
Get == Takes(Of(N("Get", "method", "go", "api/ctl/user.go", 3, 4), <<"Svc">>), <<<<"v1", "GetReq">>>>)
Put == Of(N("Put", "method", "go", "api/v1/user.go", 8, 9), <<"Svc">>)
Users == N("Users", "interface", "go", "api/v1/user.go", 3, 5)
GetI == Of(N("Get", "method", "go", "api/v1/user.go", 4, 4), <<"Users">>)
Stub == Tag(N("Unimplemented", "struct", "go", "api/gen/user.pb.go", 1, 2), {"stub"})
GetStub == Of(N("Get", "method", "go", "api/gen/user.pb.go", 3, 4), <<"Unimplemented">>)
Run == Of(N("Run", "method", "go", "api/ctl/user.go", 6, 8), <<"Engine">>)
Setup == N("setup", "function", "go", "api/ctl/user.go", 10, 14)
Auth == N("auth", "function", "go", "api/v1/user.go", 11, 12)
Route == Of(N("GET /user", "route", "go", "api/v1/user.go", 14, 14), <<"v1", "GetReq">>)
GetTwin == Takes(Of(N("GetAll", "method", "go", "api/v1/user.go", 16, 17), <<"Away">>), <<<<"v1", "GetReq">>>>)
GoBase == [rows |-> <<Svc, Get, Run, Setup, Stub, GetStub, Users, GetI, Put, Auth, Route>>,
           text |-> ("api/ctl/user.go" :> <<K(7, "chain", "", ""), K(11, "use-handler", "auth", ""), Note(K(12, "use-handler", "Get", ""))>>)
                    @@ ("api/gen/user.pb.go" :> <<>>) @@ ("api/v1/user.go" :> <<>>),
           links |-> Has(Svc, <<Get>>) \o Has(Users, <<GetI>>) \o Has(Stub, <<GetStub>>)]
\* A request type that two methods take; a type whose method is in the other file.
GoTwins == [GoBase EXCEPT !.rows = @ \o <<GetTwin>>]
Far == N("Far", "struct", "go", "api/far.go", 1, 2)
FarGet == Of(N("Get", "method", "go", "api/near.go", 8, 9), <<"Far">>)
Getter == N("Getter", "interface", "go", "api/near.go", 1, 3)
GetterGet == Of(N("Get", "method", "go", "api/near.go", 2, 2), <<"Getter">>)
GoSplit == [rows |-> <<Far, Getter, GetterGet, FarGet>>, text |-> [f \in {"api/far.go", "api/near.go"} |-> <<>>], links |-> Has(Getter, <<GetterGet>>)]

\* TypeScript: an observer, a React class, events, thunks, a registry, a hook.
OnChange == N("onChange", "method", "typescript", "app/a.ts", 1, 3)     Notify == N("notify", "method", "typescript", "app/a.ts", 4, 6)
Start == N("start", "function", "typescript", "app/b.ts", 1, 4)          Update == N("update", "function", "typescript", "app/b.ts", 5, 6)
View == N("View", "class", "typescript", "app/b.ts", 8, 14)              Render == N("render", "method", "typescript", "app/b.ts", 9, 10)
Click == N("click", "method", "typescript", "app/b.ts", 11, 13)          Button == N("Button", "function", "typescript", "app/a.ts", 8, 9)
Observers == [rows |-> <<OnChange, Notify, Button, Start, Update, View, Render, Click>>,
    text |-> ("app/a.ts" :> <<K(2, "add", "cbs", ""), K(5, "loop-of", "cbs", ""), K(5, "emit", "saved", "")>>)
             @@ ("app/b.ts" :> <<K(2, "pass", "onChange", "update"), K(3, "on", "saved", "update"), K(10, "tag", "Button", ""), K(12, "setState", "this", "")>>),
    links |-> Has(View, <<Render, Click>>) \o <<E(Start, OnChange, "calls", 2)>>]
Thunk == Tag(N("load", "constant", "typescript", "app/a.ts", 1, 4), {"thunk"})   Other == Tag(N("save", "constant", "typescript", "app/b.ts", 1, 2), {"thunk"})
Save == N("save", "function", "typescript", "app/a.ts", 6, 7)            Exec == N("exec", "function", "typescript", "app/b.ts", 4, 6)
Cmd == N("Cmd", "class", "typescript", "app/a.ts", 9, 12)                CmdRun == N("run", "method", "typescript", "app/a.ts", 10, 11)
Hook == Tag(N("useGetUserQuery", "function", "typescript", "app/a.ts", 14, 14), {"rtk-hook"})  Fetch == N("getUser", "function", "typescript", "app/a.ts", 15, 16)
Redux == [rows |-> <<Thunk, Save, Cmd, CmdRun, Hook, Fetch, Other, Exec>>,
    text |-> ("app/a.ts" :> <<K(2, "dispatch", "save", ""), Note(K(3, "dispatch", "exec", ""))>>)
             @@ ("app/b.ts" :> <<K(1, "object", "table", <<"save", "Cmd">>), K(5, "lookup", "table", "run")>>), links |-> Has(Cmd, <<CmdRun>>)]

\* Vue and its stores, SvelteKit, Nuxt names, Vuex paths.
Page == N("Page", "component", "vue", "app/Page.vue", 1, 20)             UseThing == N("useThing", "function", "typescript", "app/a.ts", 1, 6)
SaveIt == N("saveIt", "function", "typescript", "app/a.ts", 2, 3)        Child == N("Child", "component", "vue", "app/Card.vue", 1, 5)
UserLoad == N("load", "function", "javascript", "store/user.js", 3, 5)   CartLoad == N("load", "function", "javascript", "store/cart.js", 3, 5)
Signals == <<K(1, "signal", "actions", ""), K(2, "signal", "mutations", "")>>
Vue == [rows |-> <<Page, Child, UseThing, SaveIt, UserLoad, CartLoad>>,
    text |-> ("app/Page.vue" :> <<K(2, "tag", "AppCard", ""), K(3, "handler", "save", ""), K(5, "use", "useThing", [as |-> "save", key |-> "saveIt"]),
                                  K(6, "commit", <<"user", "load">>, ""), K(7, "commit", <<"load">>, ""), K(8, "bind", "cart", "useCart"), K(9, "member", "cart", "load")>>)
             @@ ("app/Card.vue" :> <<>>) @@ ("app/a.ts" :> <<>>)
             @@ ("store/user.js" :> Signals) @@ ("store/cart.js" :> Signals \o <<K(2, "store", "useCart", "")>>), links |-> <<>>]
Svelte == N("page", "component", "svelte", "app/page.svelte", 1, 9)      Load == N("load", "function", "typescript", "app/page.ts", 1, 3)
Form == N("main.dfm", "file", "pascal", "pas/main.dfm", 1, 9)            Unit == N("main.pas", "file", "pascal", "pas/main.pas", 1, 9)
Pairs2 == [rows |-> <<Svelte, Load, Form, Unit>>, text |-> [f \in {"app/page.svelte", "app/page.ts", "pas/main.dfm", "pas/main.pas"} |-> <<>>], links |-> <<>>]

\* HarmonyOS: a page of a url in two packages, an event of a name in each.
Home1 == Tag(N("Home", "struct", "arkts", "hap/one/Home.ets", 1, 9), {"Entry"})    Home2 == Tag(N("Home", "struct", "arkts", "hap/two/Home.ets", 1, 9), {"Entry"})
Count == Tag(N("count", "property", "arkts", "hap/one/Home.ets", 2, 2), {"State"})  Build == N("build", "method", "arkts", "hap/one/Home.ets", 3, 4)
Tap == N("tap", "method", "arkts", "hap/one/Home.ets", 5, 8)
Go1 == N("open", "method", "arkts", "hap/one/Main.ets", 1, 5)             Go3 == N("open", "method", "arkts", "hap/three/Main.ets", 1, 5)
Hap == [rows |-> <<Home1, Count, Build, Tap, Go1, Home2, Go3>>,
    text |-> ("hap/one/Home.ets" :> <<K(6, "assign", "count", ""), K(7, "on-name", "EVT", "")>>)
             @@ ("hap/one/Main.ets" :> <<K(1, "is-name", "EV", "EVT"), K(2, "push", "pages/Home", ""), K(3, "emit-var", "EV", "")>>)
             @@ ("hap/two/Home.ets" :> <<>>) @@ ("hap/three/Main.ets" :> <<K(2, "push", "pages/Home", ""), K(3, "emit-name", "EVT", "")>>),
    links |-> Has(Home1, <<Count, Build, Tap>>)]

\* Native modules of React Native, Expo and Fabric, closures in Swift, Flutter,
\* Kotlin's expected declarations.
Play == N("play:with:", "method", "objc", "ios/M.mm", 1, 4)              PlayKt == Tag(Of(N("play", "method", "kotlin", "kt/M.kt", 1, 3), <<"M">>), {"expo"})
PlaySw == Tag(Of(N("play", "method", "swift", "ios/M.swift", 1, 3), <<"M">>), {"expo"})
CellC == Tag(N("Cell", "component", "typescript", "app/a.ts", 1, 2), {"fabric"})   CellView == N("CellView", "class", "objc", "ios/M.mm", 6, 9)
UsePlay == N("usePlay", "function", "typescript", "app/a.ts", 4, 7)
Queue == N("enqueue", "method", "swift", "ios/M.swift", 5, 6)            Drain == N("drain", "method", "swift", "ios/M.swift", 7, 8)
Native == [rows |-> <<CellC, UsePlay, Play, CellView, PlaySw, Queue, Drain, PlayKt>>,
    text |-> ("app/a.ts" :> <<K(6, "listen", "done", "")>>) @@ ("ios/M.mm" :> <<K(3, "send-objc", "done", "")>>)
             @@ ("ios/M.swift" :> <<K(6, "append-write", "jobs", ""), K(8, "each", "jobs", "")>>) @@ ("kt/M.kt" :> <<>>),
    links |-> <<E(UsePlay, Play, "calls", 5)>>]
Expect == Of(N("now", "function", "kotlin", "kt/M.kt", 1, 1), <<"Clock">>)   Actual == Tag(Of(N("now", "function", "kotlin", "kt/W.kt", 1, 3), <<"Clock">>), {"actual"})
Widget == N("Page", "class", "dart", "dart/page.dart", 1, 9)             BuildD == N("build", "method", "dart", "dart/page.dart", 2, 4)
TapD == N("tap", "method", "dart", "dart/page.dart", 5, 8)
Mobile == [rows |-> <<Widget, BuildD, TapD, Expect, Actual>>,
    text |-> ("dart/page.dart" :> <<K(6, "setState", "", "")>>) @@ ("kt/M.kt" :> <<>>) @@ ("kt/W.kt" :> <<>>), links |-> Has(Widget, <<BuildD, TapD>>)]

\* Java: an override, a mapper with its XML, a listener; C#: a mediator.
Mapper == N("Mapper", "interface", "java", "com/Mapper.java", 1, 4)      Find == Of(N("find", "method", "java", "com/Mapper.java", 2, 2), <<"Mapper">>)
FindX == Of(N("find", "method", "xml", "com/Mapper.xml", 2, 3), <<"Mapper">>)
Impl == N("Impl", "class", "java", "com/Other.java", 1, 9)               FindI == Of(N("find", "method", "java", "com/Other.java", 2, 4), <<"Impl">>)
Listen == Takes(Of(N("on", "method", "java", "com/Other.java", 7, 8), <<"Impl">>), <<"Saved">>)
Java == [rows |-> <<Mapper, Find, FindX, Impl, FindI, Listen>>,
    text |-> ("com/Mapper.java" :> <<>>) @@ ("com/Mapper.xml" :> <<>>) @@ ("com/Other.java" :> <<K(3, "publish", "Saved", ""), K(7, "listener", "", "")>>),
    links |-> Has(Mapper, <<Find>>) \o Has(Impl, <<FindI, Listen>>) \o <<E(Impl, Mapper, "implements", 1)>>]
JavaTwins == [Java EXCEPT !.rows = @ \o <<Of(N("find", "method", "java", "com/Other.java", 9, 9), <<"Mapper">>)>>]
Ctl == N("Post", "method", "csharp", "cs/a.cs", 1, 4)                    Handler == N("AddHandler", "class", "csharp", "cs/b.cs", 1, 5)
Handle == N("Handle", "method", "csharp", "cs/b.cs", 2, 4)
CSharp == [rows |-> <<Ctl, Handler, Handle>>,
    text |-> ("cs/a.cs" :> <<K(2, "new", "cmd", "Add"), K(3, "send", "mediator", "cmd"), K(4, "send-new", "other", "Add")>>) @@ ("cs/b.cs" :> <<K(1, "handles", "Add", "")>>),
    links |-> Has(Handler, <<Handle>>)]

\* C++: overrides; C: a table in an included file, a vtable, an array.
Base == N("Base", "class", "cpp", "cpp/base.cpp", 1, 5)                  BaseRun == N("run", "method", "cpp", "cpp/base.cpp", 2, 3)
Derived == N("Derived", "class", "cpp", "cpp/derived.cpp", 1, 5)         DerivedRun == N("run", "method", "cpp", "cpp/derived.cpp", 2, 3)
Cpp == [rows |-> <<Base, BaseRun, Derived, DerivedRun>>, text |-> ("cpp/base.cpp" :> <<>>) @@ ("cpp/derived.cpp" :> <<>>),
        links |-> Has(Base, <<BaseRun>>) \o Has(Derived, <<DerivedRun>>) \o <<E(Derived, Base, "extends", 1)>>]
F(name, type, ptr) == [name |-> name, type |-> type, ptr |-> ptr]
Fn(name, from, to) == N(name, "function", "c", "c/main.c", from, to)
Command == N("command", "struct", "c", "c/cmds.h", 2, 5)
Tables2 == [rows |-> <<Command, Fn("getCmd", 5, 6), Fn("setCmd", 7, 8), Fn("helpCmd", 9, 10), Fn("call", 12, 18)>>,
    text |-> ("c/cmds.h" :> <<K(1, "fn-type", "proc_t", ""), K(2, "layout", "command", <<F("name", "char", FALSE), F("proc", "proc_t", FALSE), F("next", "command", FALSE)>>),
                              K(6, "if", "WITH_TABLE", "yes"), K(7, "init", "command", [var |-> "extra", values |-> <<<<<<"is", "proc", "helpCmd">>>>>>]), K(8, "endif", "", "")>>)
             @@ ("c/cmds.def" :> <<K(1, "if", "OLD", "yes"), K(2, "init", "CMD", [var |-> "old", values |-> <<<<<<"is", "proc", "call">>>>>>]), K(3, "else", "", ""),
                                   K(4, "init", "CMD", [var |-> "table", values |-> <<<<<<"macro", "MAKE", <<"getCmd">>>>>>, <<<<"at", "x">>, <<"at", "setCmd">>>>>>]), K(5, "endif", "", "")>>)
             @@ ("c/main.c" :> <<K(1, "include", "c/cmds.h", ""), K(1, "define", "WITH_TABLE", ""), K(1, "define", "CMD", "command"), K(2, "include", "c/cmds.def", ""),
                                 K(3, "macro", "MAKE", [params |-> <<"f">>, items |-> <<<<"at", "none">>, <<"at", "f">>>>]),
                                 K(4, "table", "proc_t", [var |-> "hooks", star |-> TRUE, items |-> <<<<"at", "setCmd">>>>]),
                                 K(11, "inline", "vt", [var |-> "v", fields |-> <<F("hook", "", TRUE)>>, values |-> <<>>]),
                                 K(12, "local", "command", "c"), K(12, "local", "vt", "v"), K(13, "copy", <<"v", "hook">>, <<"c", "proc">>),
                                 K(14, "field-call", <<"c", "next">>, "proc"), K(15, "field-call", <<"v">>, "hook"), K(16, "index-call", "hooks", "")>>), links |-> <<>>]

\* Python, Ruby, PHP, Erlang and Nix: a name with one owner and one with two.
Task(f, name) == N(name, "function", "python", f, 3, 5)
Sender == N("send", "function", "python", "py/c.py", 1, 5)
Python == [rows |-> <<Task("py/a.py", "mail"), Task("py/b.py", "mail"), Task("py/b.py", "clean"), Sender>>,
    text |-> ("py/a.py" :> <<K(2, "task", "", "")>>) @@ ("py/b.py" :> <<K(2, "task", "", "")>>) @@ ("py/c.py" :> <<K(2, "delay", "mail", ""), K(3, "delay", "clean", "")>>), links |-> <<>>]
Worker(f, path) == Of(N("Job", "class", "ruby", f, 1, 6), path)
Perform(f) == N("perform", "method", "ruby", f, 3, 4)
Caller == N("call", "method", "ruby", "rb/a.rb", 8, 12)
Ruby == [rows |-> <<Worker("rb/a.rb", <<"A">>), Perform("rb/a.rb"), Caller, Worker("rb/b.rb", <<"B">>), Perform("rb/b.rb")>>,
    text |-> ("rb/a.rb" :> <<K(2, "worker", "", ""), K(9, "perform", <<"B", "Job">>, ""), K(10, "perform", <<"Job">>, "")>>) @@ ("rb/b.rb" :> <<K(2, "worker", "", "")>>), links |-> <<>>]
Fire == N("fire", "method", "php", "php/a.php", 1, 4)
Mail == N("Mail", "class", "php", "php/b.php", 1, 5)                     MailHandle == Takes(N("handle", "method", "php", "php/b.php", 2, 4), <<"Saved">>)
Php == [rows |-> <<Fire, Mail, MailHandle>>, text |-> ("php/a.php" :> <<K(2, "event", "Saved", ""), K(3, "event", "Gone", "")>>) @@ ("php/b.php" :> <<K(8, "listen", "Gone", "Mail")>>), links |-> <<>>]
Module(f, name) == N(name, "namespace", "erlang", f, 1, 9)
ErlFn(f, name, from) == N(name, "function", "erlang", f, from, from + 1)
Erl == [rows |-> <<Module("erl/b.erl", "b"), Module("erl/m.erl", "m"), ErlFn("erl/m.erl", "init", 3), ErlFn("erl/m.erl", "stop", 6), Module("erl/n.erl", "n"), ErlFn("erl/n.erl", "start", 3)>>,
    text |-> ("erl/b.erl" :> <<K(2, "callback", "init", 1), K(3, "callback", "stop", 1)>>) @@ ("erl/m.erl" :> <<>>)
             @@ ("erl/n.erl" :> <<K(2, "callback", "stop", 1), K(3, "var-call", "init", 1), K(4, "var-call", "stop", 1)>>),
    links |-> <<E(Module("erl/m.erl", "m"), Module("erl/b.erl", "b"), "implements", 1)>>]
ErlTwins == [Erl EXCEPT !.links = @ \o <<E(Module("erl/m.erl", "m"), Module("erl/n.erl", "n"), "implements", 1)>>]
Opt(f, path, from, to) == Of(N("opt", "variable", "nix", f, from, to), path)
Nix == [rows |-> <<Opt("nix/a.nix", <<"options">>, 1, 9), Opt("nix/a.nix", <<"web", "port">>, 2, 3), Opt("nix/a.nix", <<"web", "hosts">>, 4, 8), Opt("nix/a.nix", <<"options">>, 5, 7),
                   Opt("nix/a.nix", <<"name", "x">>, 6, 6), Opt("nix/b.nix", <<"options", "db", "port">>, 1, 2), Opt("nix/c.nix", <<"options", "db", "port">>, 1, 2),
                   Opt("nix/c.nix", <<"config", "web", "port">>, 4, 4), Opt("nix/c.nix", <<"db", "port">>, 5, 5), Opt("nix/c.nix", <<"web", "hosts", "name">>, 6, 6)>>,
        text |-> [f \in {"nix/a.nix", "nix/b.nix", "nix/c.nix"} |-> <<>>], links |-> <<>>]

MCProjects == {GoBase, GoTwins, GoSplit, Observers, Redux, Vue, Pairs2, Hap, Native, Mobile, Java, JavaTwins, CSharp, Cpp, Tables2, Python, Ruby, Php, Erl, ErlTwins, Nix}

\* Targets of references of another file, with what is written in them; a method
\* an interface asks for; a worker; a listener.
MCRemovable == {OnChange, Play, Mapper, Base, Module("erl/b.erl", "b"), FarGet, Handler, SaveIt, Worker("rb/b.rb", <<"B">>), MailHandle}
=============================================================================
