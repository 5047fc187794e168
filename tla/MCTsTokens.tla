---- MODULE MCTsTokens ----
(***************************************************************************)
(* TsTokens for TLC: the callers are interchangeable.                      *)
(***************************************************************************)
EXTENDS TsTokens, TLC

TaskSymmetry == Permutations(Task)
====
