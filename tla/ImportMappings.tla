---------------------------- MODULE ImportMappings ----------------------------
(* What the resolver reads from the text of a file: import mappings and       *)
(* re-exports (extractImportMappings and extractReExports of                  *)
(* import-resolver.ts).  A statement is a record of its form and of the names *)
(* it binds, [name, as] when it renames; a name is a sequence of words.       *)
EXTENDS Integers, Sequences, SequencesExt

CONSTANTS Statements,   \* the import statements of each file, in order
          LangOf        \* the language of each file

Mapping(local, exported, source) ==
    [local |-> local, exported |-> exported, source |-> source, isDefault |-> FALSE, isNamespace |-> FALSE]
Namespace(local, source) == [Mapping(local, <<"*">>, source) EXCEPT !.isNamespace = TRUE]
Default(local, source) == [Mapping(local, <<"default">>, source) EXCEPT !.isDefault = TRUE]

Forms(ss, fs) == SelectSeq(ss, LAMBDA s : s.form \in fs)
Each(ss, Of(_)) == FlattenSeq([i \in DOMAIN ss |-> Of(ss[i])])
Bindings(s) == [i \in DOMAIN s.names |-> Mapping(s.names[i].as, s.names[i].name, s.source)]

\* extractJSImports: every import statement, then every require.
Bound(s) == (IF s.default = <<>> THEN <<>> ELSE <<Default(s.default, s.source)>>)
            \o Bindings(s)
            \o (IF s.star = <<>> THEN <<>> ELSE <<Namespace(s.star, s.source)>>)
JsImports(ss) == Each(Forms(ss, {"import"}), Bound) \o Each(Forms(ss, {"require"}), Bound)

\* extractPythonImports: what "from ... import" binds, then modules by their
\* alias or their last name.
LastOr(alias, source) == IF alias = <<>> THEN Last(source) ELSE alias
PythonImports(ss) ==
    Each(Forms(ss, {"from"}), LAMBDA s : SelectSeq(Bindings(s), LAMBDA m : m.exported # <<"*">>))
    \o Each(Forms(ss, {"import"}), LAMBDA s : <<Namespace(LastOr(s.star, s.source), s.source)>>)

\* extractGoImports: single imports, then those of the blocks.
GoImports(ss) ==
    LET module(s) == <<Namespace(LastOr(s.star, s.source), s.source)>>
    IN  Each(Forms(ss, {"import"}), module) \o Each(Forms(ss, {"block"}), module)

\* extractJavaImports: a statement counts when it ends in ";" and names one symbol.
JavaImports(ss) ==
    Each(SelectSeq(ss, LAMBDA s : s.semicolon /\ Last(s.source) # <<"*">>),
         LAMBDA s : <<Mapping(Last(s.source), Last(s.source), s.source)>>)

\* extractPHPImports
PhpImports(ss) == Each(Forms(ss, {"import"}), LAMBDA s : <<Mapping(LastOr(s.star, s.source), Last(s.source), s.source)>>)

\* extractCppImports: the header's name without its extension.
HeaderExtensions == {".h", ".hpp", ".hxx", ".hh", ".inl", ".ipp", ".cxx", ".cc", ".cpp"}
Stem(name) == IF Len(name) > 1 /\ Last(name) \in HeaderExtensions THEN Front(name) ELSE name
CppImports(ss) == Each(Forms(ss, {"import"}), LAMBDA s : <<Namespace(Stem(Last(s.source)), s.source)>>)

\* extractImportMappings
JsFamily == {"typescript", "javascript", "tsx", "jsx", "arkts", "svelte", "vue", "astro"}
ExtractImportMappings(ss, lang) ==
    CASE lang \in JsFamily -> JsImports(ss)
      [] lang = "python" -> PythonImports(ss)
      [] lang = "go" -> GoImports(ss)
      [] lang \in {"java", "kotlin"} -> JavaImports(ss)
      [] lang = "php" -> PhpImports(ss)
      [] lang \in {"c", "cpp"} -> CppImports(ss)
      [] OTHER -> <<>>

\* getImportMappings: a file that is not there has none.
Imports(f) == IF f \in DOMAIN Statements THEN ExtractImportMappings(Statements[f], LangOf[f]) ELSE <<>>

\* extractReExports, getReExports: wildcards first, then the named ones; only
\* files of the JavaScript family have any.
ReExportsOf(f) ==
    IF f \notin DOMAIN Statements \/ LangOf[f] \notin JsFamily \ {"svelte", "vue", "astro"} THEN <<>>
    ELSE Each(Forms(Statements[f], {"export *"}), LAMBDA s : <<[kind |-> "wildcard", source |-> s.source]>>)
         \o Each(Forms(Statements[f], {"export"}), LAMBDA s :
                 [i \in DOMAIN s.names |-> [kind |-> "named", source |-> s.source,
                                            original |-> s.names[i].name, exported |-> s.names[i].as]])
=============================================================================
