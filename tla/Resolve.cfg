CONSTANTS
  Upper <- MCUpper  Lower <- MCLower  Family <- MCFamily  LangOf <- MCLangOf  Statements <- MCStatements
  Decls <- MCDecls  Ceiling = 3  Aliases <- None  Packages <- MCPackages  BuildFiles <- MCBuildFiles
  GoModule <- None  Stdlib <- MCStdlib  Marks <- MCMarks  Sorted <- MCSorted  Starts <- MCStarts  Cargo <- MCCargo
  Exposed <- NoSet  Transids <- MCTransids  BuiltIns <- MCBuiltIns  Mentions <- MCMentions  Symbols <- MCSymbols
  Asked <- MCAsked  Projects <- MCProjects  MaxPasses = 3
SPECIFICATION Spec
CHECK_DEADLOCK FALSE

INVARIANTS LanguagesKept MembersCalled OwnFileFirst ModulesScoped
