----------------------------- MODULE MCBuildLoop ----------------------------
(***************************************************************************)
(* Two builds of two cycles over one file, with one edit and one kill; two *)
(* flat scores in a row are a plateau.                                     *)
(***************************************************************************)
EXTENDS BuildLoop
=============================================================================
