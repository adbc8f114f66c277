------------------------------ MODULE MCAdvShell ------------------------------
(***************************************************************************)
(* Instances of AdvShell for TLC.                                          *)
(***************************************************************************)
EXTENDS AdvShell

CONSTANTS c1, c2, c3
===============================================================================
