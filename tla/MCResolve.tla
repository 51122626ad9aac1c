------------------------------ MODULE MCResolve ------------------------------
(* Small projects for Resolver, one or two per language, each with the names  *)
(* that the strategies may confuse: a class twice, a barrel, a member of a    *)
(* name that is also elsewhere, a bridge between languages.                   *)
EXTENDS Resolver

\* Words and their forms with the first letter raised.
Raises == [user |-> "User", users |-> "Users", service |-> "Service", session |-> "Session", repo |-> "Repo", auth |-> "Auth", store |-> "Store",
           card |-> "Card", get |-> "GET", post |-> "POST", find |-> "Find", open |-> "Open", login |-> "Login", sign |-> "Sign",
           list |-> "List", run |-> "Run", parse |-> "Parse", show |-> "Show", send |-> "Send", main |-> "Main", home |-> "Home", order |-> "Order",
           index |-> "Index", name |-> "Name", app |-> "App", validate |-> "Validate", require |-> "Require", config |-> "Config",
           fetch |-> "Fetch", make |-> "Make", scan |-> "Scan", emit |-> "Emit", add |-> "Add", mod |-> "Mod", util |-> "Util", lib |-> "Lib",
           use |-> "Use", this |-> "This", tmp |-> "Tmp", cell |-> "Cell", base |-> "Base", play |-> "Play", with |-> "With", sound |-> "Sound",
           node |-> "Node", var |-> "Var", output |-> "Output", module |-> "Module", net |-> "Net", id |-> "Id", variables |-> "Variables",
           object |-> "Object", step |-> "Step", helper |-> "Helper", console |-> "Console", log |-> "Log", hook |-> "Hook", cron |-> "Cron", demo |-> "Demo"]
MCUpper == [w \in STRING |-> IF w \in DOMAIN Raises THEN Raises[w] ELSE w]
MCLower == [w \in STRING |-> IF \E v \in DOMAIN Raises : Raises[v] = w THEN CHOOSE v \in DOMAIN Raises : Raises[v] = w ELSE w]
MCFamily == [typescript |-> "web", tsx |-> "web", vue |-> "web", svelte |-> "web", astro |-> "web", java |-> "jvm", kotlin |-> "jvm", scala |-> "jvm",
             swift |-> "apple", objc |-> "apple", c |-> "c", cpp |-> "c", csharp |-> "dotnet", razor |-> "dotnet", python |-> "none", go |-> "none",
             rust |-> "none", php |-> "none", ruby |-> "none", nix |-> "none", terraform |-> "none", cobol |-> "none", cfml |-> "none",
             lua |-> "none", yaml |-> "none", erlang |-> "none"]
ByExt == (".ts" :> "typescript") @@ (".tsx" :> "tsx") @@ (".vue" :> "vue") @@ (".svelte" :> "svelte") @@ (".astro" :> "astro") @@ (".java" :> "java")
         @@ (".kt" :> "kotlin") @@ (".scala" :> "scala") @@ (".swift" :> "swift") @@ (".m" :> "objc") @@ (".cpp" :> "cpp") @@ (".h" :> "cpp")
         @@ (".cs" :> "csharp") @@ (".razor" :> "razor") @@ (".py" :> "python") @@ (".go" :> "go") @@ (".rs" :> "rust") @@ (".php" :> "php")
         @@ (".rb" :> "ruby") @@ (".nix" :> "nix") @@ (".tf" :> "terraform") @@ (".tfvars" :> "terraform") @@ (".cbl" :> "cobol") @@ (".cfc" :> "cfml") @@ (".lua" :> "lua")
         @@ (".yml" :> "yaml") @@ (".routes" :> "yaml") @@ (".module" :> "php") @@ (".erl" :> "erlang")

\* Files that are not indexed.
RequirementsTxt == At(<<"requirements", ".txt">>)   GoMod == At(<<"go", ".mod">>)   CargoToml == At(<<"Cargo", ".toml">>)
BuildSbt == At(<<"build", ".sbt">>)                 Artisan == At(<<"artisan">>)

At2(d, w, ext) == <<<<d>>, <<w, ext>>>>

\* Files of one project for each of the other frameworks.
UrlsPy == At2("web", "urls", ".py")         ViewsPy == At2("web", "views", ".py")
MainGo == At2("api", "main", ".go")         HandlerGo == At2("handlers", "users", ".go")
LibRs == At2("src", "lib", ".rs")           UtilRs == At2("src", "util", ".rs")
RoutesRb == At2("config", "routes", ".rb")  UsersRb == <<<<"app">>, <<"controllers">>, <<"users", "_controller", ".rb">>>>
UsersCs == <<<<"Controllers">>, <<"Users", "Controller", ".cs">>>>   PageRazor == At2("ui", "page", ".razor")
PlayRoutes == At2("conf", "play", ".routes") HomeScala == At2("app", "Home", ".scala")
ViewSwift == At2("ui", "home", ".swift")    ModuleM == At2("ios", "Cell", ".m")
ModuleKt == At2("kt", "Cell", ".kt")        NativeTs == At2("js", "cell", ".ts")
AppSvelte == <<<<"web">>, <<"routes">>, <<"+page", ".svelte">>>>   PageAstro == <<<<"src">>, <<"pages">>, <<"index", ".astro">>>>
BaseCfc == At2("model", "Base", ".cfc")     UserCfc == At2("web", "User", ".cfc")
NodeErl == At(<<"node", ".erl">>)           UtilLua == At(<<"util", ".lua">>)
ServerFiles == {UrlsPy, ViewsPy, MainGo, HandlerGo, LibRs, UtilRs, RoutesRb, UsersRb, UsersCs, PageRazor, PlayRoutes, HomeScala, ViewSwift, ModuleM,
                ModuleKt, NativeTs, AppSvelte, PageAstro, BaseCfc, UserCfc, NodeErl, UtilLua}
MCServers == {{UrlsPy, ViewsPy, RequirementsTxt}, {MainGo, HandlerGo, GoMod}, {LibRs, UtilRs, CargoToml}, {RoutesRb, UsersRb}, {UsersCs, PageRazor}, {PlayRoutes, HomeScala, BuildSbt},
              {ViewSwift, At(<<"Player", ".swift">>)}, {ModuleM, ModuleKt, NativeTs, PackageJson}, {AppSvelte, PageAstro}, {BaseCfc, UserCfc}, {NodeErl, UtilLua}}

\* Files.
Barrel == At2("src", "barrel", ".ts")       AuthTs == At2("src", "auth", ".ts")
StoreTs == At2("src", "store", ".ts")       RoutesTs == At2("src", "routes", ".ts")
RepoPy == At2("a", "repo", ".py")           JobsPy == At2("b", "jobs", ".py")
DefaultNix == At(<<"default", ".nix">>)     PkgsNix == At(<<"pkgs", ".nix">>)      FetchPy == At(<<"fetch", ".py">>)
RootTf == At(<<"main", ".tf">>)             NetTf == At2("net", "main", ".tf")     OtherTf == At2("other", "main", ".tf")
EnvTf == At2("env", "prod", ".tfvars")
ShopTs == At2("js", "shop", ".ts")          LegacyCs == At(<<"Legacy", ".cs">>)
UsersCtl == <<<<"users">>, <<"users", ".controller", ".ts">>>>   UsersMod == <<<<"users">>, <<"users", ".module", ".ts">>>>
Prog1 == At(<<"prog1", ".cbl">>)            Prog2 == At(<<"prog2", ".cbl">>)
ServiceJava == <<<<"com">>, <<"x">>, <<"UserService", ".java">>>>   OrderJava == <<<<"com">>, <<"x">>, <<"Order", ".java">>>>
AppYml == At(<<"application", ".yml">>)
CardVue == <<<<"web">>, <<"pages">>, <<"Card", ".vue">>>>   HomeTsx == <<<<"web">>, <<"pages">>, <<"home", ".tsx">>>>
MainCpp == At2("src", "main", ".cpp")       UtilH == At2("src", "util", ".h")
PlayerM == At(<<"Player", ".m">>)           PlayerSwift == At(<<"Player", ".swift">>)
CtlPhp == <<<<"app">>, <<"Http">>, <<"Controllers">>, <<"UserController", ".php">>>>   WebPhp == At2("routes", "web", ".php")
DemoModule == At2("demo", "demo", ".module")
AllFiles == {Barrel, AuthTs, StoreTs, RoutesTs, RepoPy, JobsPy, DefaultNix, PkgsNix, FetchPy, RootTf, NetTf, OtherTf, EnvTf, ShopTs, LegacyCs, UsersCtl, UsersMod,
             Prog1, Prog2, ServiceJava, OrderJava, AppYml, CardVue, HomeTsx, MainCpp, UtilH, PlayerM, PlayerSwift, CtlPhp, WebPhp, DemoModule} \cup ServerFiles
MCSorted == <<UsersCs, LegacyCs, PlayerM, PlayerSwift, RepoPy, MainGo, HomeScala, CtlPhp, UsersRb, AppYml, JobsPy, OrderJava, ServiceJava,
              PlayRoutes, RoutesRb, DefaultNix, DemoModule, EnvTf, FetchPy, HandlerGo, ModuleM, NativeTs, ShopTs, ModuleKt, RootTf, BaseCfc, NetTf,
              NodeErl, OtherTf, PkgsNix, Prog1, Prog2, WebPhp, AuthTs, Barrel, LibRs, MainCpp, PageAstro, RoutesTs, StoreTs, UtilH, UtilRs,
              ViewSwift, PageRazor, UsersCtl, UsersMod, UtilLua, UserCfc, CardVue, HomeTsx, AppSvelte, UrlsPy, ViewsPy>>
MCLangOf == [f \in AllFiles |-> ByExt[Last(Last(f))]]

Sym(kind, f, line, last, scope, name) ==
    [id |-> <<kind, f, line, name>>, name |-> name, kind |-> kind, lang |-> MCLangOf[f], file |-> f, line |-> line, last |-> last,
     scope |-> scope, ret |-> <<>>, exported |-> TRUE, marks |-> {}]
FileOf(f) == Sym("file", f, 1, 90, <<>>, Last(f))
Fun(f, line, name) == Sym("function", f, line, line + 9, <<>>, name)
Class(f, line, name) == Sym("class", f, line, line + 40, <<>>, name)
Method(f, line, cls, name) == Sym("method", f, line, line + 9, <<cls>>, name)
Ref(kind, m, line, recv, sep, name) ==
    [kind |-> kind, lang |-> m.lang, file |-> m.file, from |-> m.id, line |-> line, name |-> name, recv |-> recv, sep |-> sep, call |-> FALSE]
Calls(m, recv, name) == Ref("calls", m, m.line + 1, recv, IF recv = <<>> THEN "" ELSE ".", name)
Uses(m, name) == Ref("references", m, m.line + 1, <<>>, "", name)
Passing(m, name) == Ref("function_ref", m, m.line + 1, <<>>, "", name)
AsCall(r) == [r EXCEPT !.call = TRUE]
NoFile == <<>>

Session == <<"Session">>  SignIn == <<"sign", "In">>  Login == <<"login">>  Repo == <<"Repo">>  Find == <<"find">>  Open == <<"open">>
UserService == <<"User", "Service">>  Run == <<"run">>  Fetch == <<"fetch">>  Card == <<"Card">>  List == <<"list">>
Order == <<"Order">>  UserController == <<"User", "Controller">>  UsersController == <<"Users", "Controller">>  Parse == <<"parse">>
Helper == <<"Helper">>  Hold == <<"hold">>  Emit == <<"emit">>  Player == <<"Player">>  PlayIt == <<"play">>

OpenTs == Method(AuthTs, 11, Session, Open)
StartTs == Fun(RoutesTs, 30, <<"start">>)
RunPy == Fun(JobsPy, 60, Run)
EmitPy == Fun(JobsPy, 75, Emit)
ShellNix == Fun(DefaultNix, 2, <<"shell">>)
FetchAll == Fun(FetchPy, 2, <<"fetch", "All">>)
Var(f) == Sym("variable", f, 5, 7, <<<<"var">>>>, <<"id">>)
Out(f) == Sym("variable", f, 9, 11, <<<<"output">>>>, <<"id">>)
NetCall == Sym("module", RootTf, 20, 24, <<<<"module">>>>, <<"net">>)
OtherCall == Sym("module", OtherTf, 20, 24, <<<<"module">>>>, <<"net">>)
NetOutput(c) == Ref("references", c, 21, <<<<"module">>, <<"net">>, <<"output">>>>, "module:", <<"id">>)
VarId(m) == Ref("references", m, m.line + 1, <<<<"var">>>>, ".", <<"id">>)
ListM == Method(UsersCtl, 12, UsersController, List)
Cobol(f, name) == Sym("module", f, 1, 80, <<>>, name)
OrderM == Method(OrderJava, 12, Order, Run)
HomeC == Sym("component", HomeTsx, 3, 30, <<>>, <<"Home">>)
MainF == Fun(MainCpp, 10, <<"main">>)
PlayM == Method(PlayerM, 12, Player, <<"play", "With", "Sound", ":">>)
PlayS == Method(PlayerSwift, 12, <<"Deck">>, PlayIt)
ListGo == Fun(HandlerGo, 3, <<"List", "Handler">>)
MainGoF == Fun(MainGo, 3, <<"main">>)
RunRs == Fun(LibRs, 3, Run)
HomeS == Sym("struct", ViewSwift, 3, 30, <<>>, <<"Home", "View">>)
CellF == Fun(NativeTs, 30, <<"cell">>)
UserClass == Class(UserCfc, 1, <<"User">>)
NodeF == Fun(NodeErl, 3, <<"node">>)
LuaF == Fun(UtilLua, 3, <<"util">>)
PageC == Sym("component", PageRazor, 1, 40, <<>>, <<"page">>)
HomeIndex == Method(HomeScala, 3, <<"Home", "Controller">>, <<"index">>)
AstroC == Sym("component", PageAstro, 1, 40, <<>>, <<"index">>)
SvelteC == Sym("component", AppSvelte, 1, 40, <<>>, <<"+page">>)
HookF == Fun(DemoModule, 3, <<"demo", "_cron">>)
Data == Sym("variable", Prog1, 5, 5, <<<<"PROG1">>>>, <<"TX">>)

MCSymbols ==
    [f \in AllFiles |->
        <<FileOf(f)>> \o
        CASE f = AuthTs -> <<Fun(f, 1, SignIn), Class(f, 10, Session), OpenTs>>
          [] f = StoreTs -> <<Class(f, 1, Session), Method(f, 2, Session, Open), Fun(f, 50, <<"save">>)>>
          [] f = RoutesTs -> <<StartTs, Fun(f, 50, List)>>
          [] f = RepoPy -> <<Class(f, 1, Repo), Method(f, 2, Repo, Find), Fun(f, 50, Emit), Class(f, 60, Helper), Method(f, 61, Helper, Hold)>>
          [] f = JobsPy -> <<Class(f, 1, Repo), Method(f, 2, Repo, Find), RunPy, EmitPy>>
          [] f = DefaultNix -> <<ShellNix>>
          [] f = PkgsNix -> <<Fun(f, 2, Fetch), Fun(f, 20, Parse)>>
          [] f = FetchPy -> <<FetchAll, Fun(f, 20, Parse)>>
          [] f = RootTf -> <<Var(f), NetCall>>
          [] f = NetTf -> <<Var(f), Out(f)>>
          [] f = OtherTf -> <<Var(f), Out(f), OtherCall>>
          [] f = ShopTs -> <<[Class(f, 1, Card) EXCEPT !.scope = <<<<"Shop">>>>]>>
          [] f = LegacyCs -> <<[Class(f, 1, UserService) EXCEPT !.scope = <<<<"com", "x">>>>]>>
          [] f = UsersCtl -> <<Class(f, 10, UsersController), ListM>>
          [] f = UsersMod -> <<Class(f, 10, <<"Users", "Module">>), Class(f, 60, UserService)>>
          [] f = Prog1 -> <<Cobol(f, <<"PROG1">>), Data>>
          [] f = Prog2 -> <<Cobol(f, <<"PROG2">>)>>
          [] f = ServiceJava -> <<[Class(f, 3, UserService) EXCEPT !.scope = <<<<"com", "x">>>>], Method(f, 5, UserService, Find)>>
          [] f = OrderJava -> <<Class(f, 3, Order), OrderM, [Sym("field", f, 4, 4, <<Order>>, <<"service">>) EXCEPT !.ret = UserService]>>
          [] f = CardVue -> <<Sym("component", f, 1, 40, <<>>, Card)>>
          [] f = HomeTsx -> <<HomeC>>
          [] f = MainCpp -> <<MainF, [Fun(f, 30, <<"make">>) EXCEPT !.ret = Helper]>>
          [] f = UtilH -> <<Class(f, 1, Helper), Method(f, 2, Helper, Emit)>>
          [] f = PlayerM -> <<Class(f, 1, Player), PlayM>>
          [] f = PlayerSwift -> <<Class(f, 1, <<"Deck">>), PlayS>>
          [] f = CtlPhp -> <<Class(f, 1, UserController), Method(f, 2, UserController, <<"show">>)>>
          [] f = DemoModule -> <<HookF>>
          [] f = ViewsPy -> <<Class(f, 1, <<"User", "View">>), Fun(f, 50, List)>>
          [] f = HandlerGo -> <<ListGo, Sym("struct", f, 20, 25, <<>>, <<"User", "Store">>)>>
          [] f = MainGo -> <<MainGoF>>
          [] f = LibRs -> <<RunRs>>
          [] f = UtilRs -> <<Fun(f, 3, Parse)>>
          [] f = UsersRb -> <<Class(f, 1, UsersController), Method(f, 2, UsersController, <<"show">>), Method(f, 20, UsersController, <<"index">>)>>
          [] f = UsersCs -> <<Class(f, 10, UsersController), Method(f, 12, UsersController, List), [Class(f, 60, Card) EXCEPT !.scope = <<<<"Shop">>>>]>>
          [] f = PageRazor -> <<PageC>>
          [] f = HomeScala -> <<Class(f, 1, <<"Home", "Controller">>), HomeIndex>>
          [] f = ViewSwift -> <<HomeS>>
          [] f = ModuleM -> <<Class(f, 1, <<"RCT", "Cell", "Manager">>), Method(f, 3, <<"RCT", "Cell", "Manager">>, <<"show", "Cell", ":">>)>>
          [] f = ModuleKt -> <<Class(f, 1, <<"Cell">>)>>
          [] f = NativeTs -> <<CellF>>
          [] f = AppSvelte -> <<SvelteC>>
          [] f = PageAstro -> <<AstroC>>
          [] f = BaseCfc -> <<Class(f, 1, <<"Base">>)>>
          [] f = UserCfc -> <<UserClass>>
          [] f = NodeErl -> <<Sym("namespace", f, 1, 90, <<>>, <<"node">>), NodeF>>
          [] f = UtilLua -> <<LuaF>>
          [] OTHER -> <<>>]

MCAsked ==
    [f \in AllFiles |->
        CASE f = RoutesTs -> <<Calls(StartTs, <<Session>>, Open), Calls(StartTs, <<>>, Login), Passing(StartTs, <<"start">>), Passing(StartTs, SignIn),
                               Calls(StartTs, <<<<"console">>>>, <<"log">>), Ref("imports", StartTs, 1, <<<<"b">>>>, "/", <<"jobs", ".py">>)>>
          [] f = JobsPy -> <<Calls(RunPy, <<<<"repo">>>>, Find), Passing(RunPy, Emit), Passing(EmitPy, Emit), Uses(RunPy, Helper),
                             Ref("extends", Class(f, 1, Repo), 1, <<>>, "", Helper)>>
          [] f = RepoPy -> <<Calls(Fun(f, 50, Emit), <<<<"repo">>>>, Find), Calls(Fun(f, 50, Emit), <<<<"repo">>>>, Hold), Passing(Fun(f, 50, Emit), <<"fetch", "All">>)>>
          [] f = DefaultNix -> <<Calls(ShellNix, <<>>, Fetch), Ref("imports", ShellNix, 1, <<Dot>>, "/", <<"pkgs", ".nix">>)>>
          [] f = FetchPy -> <<Calls(FetchAll, <<>>, Fetch), Calls(FetchAll, <<>>, Parse)>>
          [] f = RootTf -> <<NetOutput(NetCall), VarId(NetCall)>>
          [] f = NetTf -> <<VarId(Out(f))>>
          [] f = OtherTf -> <<VarId(Out(f)), NetOutput(OtherCall)>>
          [] f = EnvTf -> <<VarId(FileOf(f))>>
          [] f = UsersCtl -> <<Uses(ListM, UserService), Ref("imports", ListM, 1, <<Dot, <<"users", ".module">>>>, "/", <<"x">>)>>
          [] f = Prog2 -> <<Ref("calls", Cobol(f, <<"PROG2">>), 9, <<>>, "cics-transid:", <<"TX01">>)>>
          [] f = OrderJava -> <<Ref("imports", OrderM, 1, <<<<"com">>, <<"x">>>>, ".", UserService), Calls(OrderM, <<<<"service">>>>, Find),
                                AsCall(Calls(OrderM, <<<<"Nowhere">>, <<"get">>>>, Find))>>
          [] f = HomeTsx -> <<Uses(HomeC, Card), Uses(HomeC, UserService), Ref("imports", HomeC, 1, <<<<"com">>, <<"x">>>>, "/", <<"UserService", ".java">>)>>
          [] f = MainCpp -> <<Calls(MainF, <<<<"tmp">>>>, Emit), AsCall(Calls(MainF, <<<<"make">>>>, Emit)),
                              Ref("imports", MainF, 1, <<>>, "", <<"util", ".h">>)>>
          [] f = PlayerSwift -> <<Calls(PlayS, <<>>, <<"play">>)>>
          [] f = PlayerM -> <<Ref("extends", PlayM, 1, <<>>, "", <<"Deck">>)>>
          [] f = MainGo -> <<Calls(MainGoF, <<>>, <<"List", "Handler">>), Uses(MainGoF, <<"User", "Store">>), AsCall(Calls(MainGoF, <<<<"make">>>>, Run))>>
          [] f = LibRs -> <<Ref("calls", RunRs, 4, <<<<"util">>>>, "::", Parse), Uses(RunRs, <<"util">>)>>
          [] f = PageRazor -> <<Uses(PageC, Card)>>
          [] f = ViewSwift -> <<Uses(HomeS, <<"Home", "View">>), Uses(HomeS, <<"Deck">>)>>
          [] f = NativeTs -> <<Calls(CellF, <<>>, <<"show", "Cell">>)>>
          [] f = AppSvelte -> <<Calls(SvelteC, <<>>, <<"$", "state">>), Calls(SvelteC, <<>>, Card)>>
          [] f = PageAstro -> <<Uses(AstroC, <<"Astro">>), Uses(AstroC, Card)>>
          [] f = UserCfc -> <<Ref("extends", UserClass, 1, <<<<"model">>>>, ".", <<"Base">>), Ref("extends", UserClass, 1, <<DotDot, <<"model">>>>, "/", <<"Base">>),
                              Ref("function_ref", UserClass, 3, <<<<"this">>>>, ".", <<"step">>)>>
          [] f = NodeErl -> <<Ref("implements", NodeF, 1, <<>>, "", <<"node">>)>>
          [] f = UtilLua -> <<Ref("imports", LuaF, 1, <<>>, "", <<"util">>)>>
          [] OTHER -> <<>>]

Import(form, default, names, star, source) == [form |-> form, default |-> default, names |-> names, star |-> star, source |-> source]
Names(n, m) == <<[name |-> n, as |-> m]>>
MCStatements ==
    [f \in AllFiles |->
        CASE f = Barrel -> <<Import("export", <<>>, Names(SignIn, Login), <<>>, <<Dot, <<"auth">>>>), Import("export *", <<>>, <<>>, <<>>, <<Dot, <<"store">>>>)>>
          [] f = RoutesTs -> <<Import("import", <<>>, Names(Login, Login) \o Names(Session, Session), <<>>, <<Dot, <<"barrel">>>>)>>
          [] f = OrderJava -> <<[semicolon |-> TRUE, source |-> <<<<"com">>, <<"x">>, UserService>>]>>
          [] f = JobsPy -> <<Import("from", <<>>, Names(Helper, Helper), <<>>, <<<<"a">>, <<"repo">>>>)>>
          [] f = MainCpp -> <<Import("import", <<>>, <<>>, <<>>, <<<<"util", ".h">>>>)>>
          [] OTHER -> <<>>]
Route(line, verb, path, args) ==
    [form |-> "app", line |-> line, verb |-> verb, path |-> path, rooted |-> TRUE, arrow |-> FALSE, args |-> args, calls |-> <<>>]
MCMarks ==
    (RoutesTs :> <<Route(40, "get", <<<<"users">>>>, <<<<List>>>>), [Route(41, "post", <<<<"open">>>>, <<>>) EXCEPT !.arrow = TRUE, !.calls = <<<<"save">>, <<"json">>>>]>>)
    @@ (UsersCtl :> <<[form |-> "class", line |-> 9, kind |-> "controller", path |-> <<<<"users">>>>],
                      [form |-> "http", line |-> 12, verb |-> "GET", path |-> <<<<"all">>>>, handler |-> <<List>>]>>)
    @@ (UsersMod :> <<[form |-> "RouterModule", items |-> <<[module |-> <<<<"Users", "Module">>>>, path |-> <<<<"admin">>>>, children |-> <<>>]>>],
                      [form |-> "Module", name |-> <<"Users", "Module">>, controllers |-> <<UsersController>>]>>)
    @@ (RootTf :> <<[form |-> "source", line |-> 21, value |-> <<Dot, <<"other">>>>]>>)
    @@ (OtherTf :> <<[form |-> "source", line |-> 21, value |-> <<DotDot, <<"net">>>>]>>)
    @@ (AppYml :> <<[form |-> "line", line |-> 1, indent |-> 0, leaf |-> FALSE, key |-> <<<<"app">>>>], [form |-> "line", line |-> 2, indent |-> 2, leaf |-> TRUE, key |-> <<<<"name">>>>]>>)
    @@ (OrderJava :> <<[form |-> "@Value", line |-> 6, key |-> <<<<"app">>, <<"name">>>>]>>)
    @@ (WebPhp :> <<[form |-> "verb", line |-> 3, verb |-> "get", path |-> <<<<"users">>>>, to |-> <<[cls |-> UserController, method |-> <<"show">>]>>]>>)
    @@ (DemoModule :> <<[form |-> "function", line |-> 3, name |-> <<"demo", "_cron">>, hook |-> <<>>]>>)
    @@ (HomeTsx :> <<[form |-> "export default"]>>)
    @@ (UrlsPy :> <<[form |-> "path", line |-> 3, path |-> <<<<"users">>>>, include |-> FALSE, handler |-> <<<<"views">>, <<"User", "View">>>>],
                    [form |-> "path", line |-> 4, path |-> <<<<"api">>>>, include |-> TRUE, handler |-> <<<<"web">>, <<"views">>>>],
                    [form |-> "register", line |-> 5, path |-> <<<<"user">>>>, name |-> <<"User", "View">>]>>)
    @@ (ViewsPy :> <<[form |-> "decorator", line |-> 49, path |-> <<<<"list">>>>, methods |-> <<>>, handler |-> <<List>>],
                     [form |-> "resource", line |-> 60, paths |-> <<<<<<"r">>>>>>, name |-> <<"User", "View">>],
                     [form |-> "verb", line |-> 70, verb |-> "get", path |-> <<<<"all">>>>, handler |-> <<List>>]>>)
    @@ (MainGo :> <<[form |-> "call", line |-> 5, verb |-> "HandleFunc", path |-> <<<<"users">>>>, handler |-> <<<<"List", "Handler">>>>],
                    [form |-> "g.Meta", line |-> 6, verb |-> "", path |-> <<<<"users">>>>, package |-> <<<<"api">>>>, type |-> <<"User", "Req">>]>>)
    @@ (LibRs :> <<[form |-> "attribute", line |-> 2, verb |-> "get", path |-> <<<<"run">>>>, handler |-> <<Run>>],
                   [form |-> "resource", line |-> 4, path |-> <<<<"r">>>>, methods |-> <<>>, to |-> <<Run>>]>>)
    @@ (RoutesRb :> <<[form |-> "verb", line |-> 2, verb |-> "get", path |-> <<<<"me">>>>, controller |-> <<<<"users">>>>, action |-> <<"show">>],
                      [form |-> "resources", line |-> 3, name |-> <<"users">>, plural |-> TRUE, only |-> <<{"index", "show"}>>, except |-> {}, controller |-> <<"users">>]>>)
    @@ (UsersCs :> <<[form |-> "class", path |-> <<<<"users">>>>], [form |-> "attribute", line |-> 12, verb |-> "get", path |-> <<<<"all">>>>, handler |-> <<List>>]>>)
    @@ (PageRazor :> <<[form |-> "@using", namespace |-> <<"Shop">>]>>)
    @@ (PlayRoutes :> <<[form |-> "route line", line |-> 2, verb |-> "GET", path |-> <<<<"home">>>>, calls |-> <<<<"controllers">>, <<"Home", "Controller">>, <<"index">>>>]>>)
    @@ (ViewSwift :> <<[form |-> "View", line |-> 3, name |-> <<"Home", "View">>],
                       [form |-> "grouped", var |-> "api", recv |-> "app", path |-> <<<<"api">>>>],
                       [form |-> "use", line |-> 9, recv |-> "api", verb |-> "get", path |-> <<<<"home">>>>, handler |-> <<"play">>]>>)
    @@ (ModuleM :> <<[form |-> "RCT_EXPORT_MODULE"], [form |-> "@implementation", line |-> 1, name |-> <<"RCT", "Cell", "Manager">>],
                     [form |-> "RCT_EXPORT_METHOD", line |-> 3, name |-> <<"show", "Cell">>, native |-> <<"show", "Cell">>],
                     [form |-> "VIEW_PROPERTY", line |-> 8, name |-> <<"color">>]>>)
    @@ (ModuleKt :> <<[form |-> ": Module"], [form |-> "Function", line |-> 5, name |-> <<"open">>]>>)
    @@ (NativeTs :> <<[form |-> "codegenNativeComponent", line |-> 3, name |-> <<"Cell">>], [form |-> "NativeProps", line |-> 4, name |-> <<"color">>],
                      [form |-> "TurboModule", name |-> <<"open">>]>>)

MCMentions == (RequirementsTxt :> {"django", "flask", "fastapi"}) @@ (GoMod :> {"github.com/gogf/gf"})
              @@ (UsersCs :> {"[ApiController"}) @@ (BuildSbt :> {"play"}) @@ (ViewSwift :> {"import SwiftUI", "import Vapor"})
              @@ (ModuleM :> {"RCT_EXPORT_MODULE"}) @@ (ModuleKt :> {": Module"}) @@ (PackageJson :> {"react-native"})
              @@ (OrderJava :> {"@Service"}) @@ (UsersCtl :> {"@Controller"}) @@ (RoutesTs :> {"express"}) @@ (PlayerSwift :> {"import UIKit"})
MCDecls == {[file |-> JobsPy, line |-> 61, var |-> <<<<"repo">>>>, type |-> Repo, init |-> <<>>],
            [file |-> RepoPy, line |-> 51, var |-> <<<<"repo">>>>, type |-> Repo, init |-> <<>>],
            [file |-> MainCpp, line |-> 11, var |-> <<<<"tmp">>>>, type |-> <<"auto">>, init |-> [recv |-> <<>>, name |-> <<"make">>, sep |-> ""]]}
Singles == {{Barrel, AuthTs, StoreTs, RoutesTs, JobsPy}, {RepoPy, JobsPy, FetchPy}, {DefaultNix, PkgsNix, FetchPy}, {RootTf, NetTf, OtherTf, EnvTf},
               {UsersCtl, UsersMod, HomeTsx}, {Prog1, Prog2}, {ServiceJava, OrderJava, AppYml}, {CardVue, HomeTsx, ServiceJava}, {MainCpp, UtilH},
               {PlayerM, PlayerSwift}, {CtlPhp, WebPhp, DemoModule, Artisan},
               {PageRazor, OrderJava, ShopTs, LegacyCs}} \cup MCServers
MCProjects == {p \cup q : p, q \in Singles}
MCStarts == ("_" :> {"_cron", "_controller"}) @@ [Depends |-> {}, Handle |-> {}, Auth |-> {"Auth"}, Log |-> {}, I |-> {}]
MCCargo == [members |-> <<>>, dirs |-> <<>>, package |-> <<>>]
MCPackages == [globs |-> <<>>, deps |-> <<>>]
MCBuildFiles == [db |-> <<>>, listing |-> <<>>]
MCStdlib == [typescript |-> {}, tsx |-> {}, arkts |-> {}, python |-> {}, c |-> {}, cpp |-> {}]
MCBuiltIns == [names |-> [typescript |-> {<<"parse", "Int">>}], receivers |-> [typescript |-> {<<"console">>}], methods |-> {Find}]
MCTransids == (Data.id :> <<"TX01">>)
None == <<>>
NoSet == {}
=============================================================================
