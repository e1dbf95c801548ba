----------------------------- MODULE MCHostSync -----------------------------
(***************************************************************************)
(* A small instance of HostSync, with one host and one team; teams, hosts  *)
(* and processes are model values.                                         *)
(***************************************************************************)
EXTENDS HostSync
=============================================================================
