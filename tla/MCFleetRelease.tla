---- MODULE MCFleetRelease ----
(***************************************************************************)
(* FleetRelease for TLC: two repositories, in the script's order, one      *)
(* versioned by its tag alone and one with the version in its files.       *)
(***************************************************************************)
EXTENDS FleetRelease

TwoTargets == <<"go", "rust">>
OneStamped == {"rust"}
====
