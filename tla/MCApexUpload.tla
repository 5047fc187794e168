---- MODULE MCApexUpload ----
(***************************************************************************)
(* ApexUpload for TLC.                                                     *)
(***************************************************************************)
EXTENDS ApexUpload
====
