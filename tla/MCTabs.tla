------------------------------- MODULE MCTabs -------------------------------
(***************************************************************************)
(* The tabs of TabTable for TLC: all of them, and of the one that is       *)
(* mounted either the list or the dialogs, which share no state but the    *)
(* reload after a save (Written of TabLists).                              *)
(***************************************************************************)
EXTENDS TabLists, TabDialogs

MCInit == ListInit /\ DialogInit

MCNext ==
  \/ page = NoDialogs /\ ListNext /\ UNCHANGED dialogVars
  \/ ListInit /\ DialogNext /\ UNCHANGED listVars

\* Lists and dialogs hold what they may.
TabsTypeOK == ListTypeOK /\ DialogTypeOK

MCSpec == MCInit /\ [][MCNext]_<<listVars, dialogVars>> /\ ListFairness

=============================================================================
