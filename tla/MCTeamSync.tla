----------------------------- MODULE MCTeamSync -----------------------------
(***************************************************************************)
(* Small instances of TeamSync: one ordinary name beside the default group,*)
(* no role groups, and keys for every row and listed row at once.          *)
(***************************************************************************)
EXTENDS TeamSync

MCUid == 1..6
=============================================================================
