----------------------------- MODULE MCIndexStore -----------------------------
(* A small project for TLC: f declares a function, on either of two lines;    *)
(* g calls it and q through a chain, declares another p, or does not parse. *)
EXTENDS IndexStore

CallsP == [ok |-> TRUE, line |-> 1, defs |-> {}, calls |-> {"p", "q"}]

DeclaresP(line) == [ok |-> TRUE, line |-> line, defs |-> {"p"}, calls |-> {}]

NotParsed == [CallsP EXCEPT !.ok = FALSE]

MCContents == [f |-> {DeclaresP(1), DeclaresP(2)}, g |-> {CallsP, DeclaresP(1), NotParsed}]
=============================================================================
