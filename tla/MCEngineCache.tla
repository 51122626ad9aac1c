---------------------------- MODULE MCEngineCache ----------------------------
(* EngineCache for TLC: the requests are interchangeable.                    *)
EXTENDS EngineCache, TLC

RequestSymmetry == Permutations(Requests)
=============================================================================
