------------------------------ MODULE MCCaddyHost ------------------------------
(***************************************************************************)
(* CaddyHost for TLC: the bounds of ProxyHost are given in the .cfg files. *)
(***************************************************************************)
EXTENDS CaddyHost
=============================================================================
