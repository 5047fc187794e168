---- MODULE MCRustOAuth ----
(***************************************************************************)
(* RustOAuth for TLC: the tasks are interchangeable.                       *)
(***************************************************************************)
EXTENDS RustOAuth, TLC

TaskSymmetry == Permutations(Task)
====
