----------------------------- MODULE MCUserSync -----------------------------
(***************************************************************************)
(* Small instances of UserSync.  The bounds are the names, the keys (as    *)
(* many as rows and stale copies of rows can carry at once), one team      *)
(* beside the default group, and the rows given out in Zabbix; and what may *)
(* happen at one time.                                                     *)
(***************************************************************************)
EXTENDS UserSync

MCUid == 1..8

NoChoice == {{"member"}}

Free == {FALSE}
Either == BOOLEAN

Login(f, t, g) == [name |-> "ann", form |-> f, type |-> t, group |-> g]

MixedUsers == {Login("mixed", 1, NoTeam)}

-----------------------------------------------------------------------------
VARIABLE overlap   \* whether syncs overlap one another, or one of them requests

Busy == {s \in Sync : pc[s] # "idle"}

First == CHOOSE s \in Sync : TRUE

\* While syncs overlap requests wait, and Zabbix changes under the first of them
\* only; a sync that runs alone meets both.
Bounded ==
  /\ overlap' = overlap
  /\ ~overlap => Busy' \subseteq {First}
  /\ overlap => /\ Busy' = {} \/ \A c \in Client : Idle(c)'
                /\ ~(Busy \subseteq {First}) => zbx' = zbx

MCInit == Init /\ overlap \in BOOLEAN

MCSpec ==
  /\ MCInit /\ [][Next /\ Bounded]_<<vars, overlap>>
  /\ \A s \in Sync : WF_vars(HealthyStep(s) /\ Bounded)
  /\ \A c \in Client : WF_vars(FinishRequest(c) /\ Bounded)
=============================================================================
