---- MODULE MCLockedOAuth ----
(***************************************************************************)
(* LockedOAuth for TLC.                                                    *)
(***************************************************************************)
EXTENDS LockedOAuth
====
