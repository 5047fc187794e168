---- MODULE MCGoFetch ----
(***************************************************************************)
(* GoFetch for TLC: the goroutines are interchangeable.                    *)
(***************************************************************************)
EXTENDS GoFetch, TLC

TaskSymmetry == Permutations(Task)
====
