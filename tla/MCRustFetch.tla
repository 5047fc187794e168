---- MODULE MCRustFetch ----
(***************************************************************************)
(* RustFetch for TLC: the tasks are interchangeable.                       *)
(***************************************************************************)
EXTENDS RustFetch, TLC

TaskSymmetry == Permutations(Task)
====
