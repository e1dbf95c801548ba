------------------------------ MODULE MCItems ------------------------------
(***************************************************************************)
(* Small instances of the item forms, of the settings and of the dialogs   *)
(* of the teams.  They share no state, so one of the seven moves at a      *)
(* time: a run that moved all of them would visit the product of their     *)
(* states and see no more.                                                 *)
(***************************************************************************)
EXTENDS ItemForms, AuthSettings, BatchDialogs, GroupOrder

Plain(t) == t = NoCondition(panel) \/ t = [NoCondition(panel) EXCEPT !.text = ~@]

\* One control is changed beyond the required ones, hosts are chosen in the mode
\* that uses them, and a form left after its request is typed into again only
\* by filling it.
Small ==
  /\ Cardinality(form.set) + (IF form.period = "none" THEN 0 ELSE 1)
       + (IF Plain(form.trigger) THEN 0 ELSE 1) <= 1
  /\ IF form.bulk THEN form.host = "none" ELSE form.hosts = {}
  /\ post # NoPost /\ ~mine => form = [Fresh(panel) EXCEPT !.filled = form.filled]
\* While a request is in flight the form is at most filled.
TypesLittle ==
  post # NoPost /\ post' # NoPost /\ panel' = panel => form' = [form EXCEPT !.filled = form'.filled]

\* Batches take the slots in order; each load of the page shows a group with one
\* host, and one it was not shown with before; hosts are picked one at a time, by
\* themselves or by their group; a team is given at most two things (a host or a
\* group), and at most two rules are made, one of them in haste.
GiveSmall ==
  /\ \A n \in Slot \ {1} :
       batches[n] = NoBatch /\ batches'[n] # NoBatch => batches[n - 1] # NoBatch
  /\ within' # within => held' # held /\ \A f \in Folder : Cardinality(within'[f]) = 1
  /\ kind = AssignHosts => Cardinality(picked') <= IF folders' = {} THEN 1 ELSE 0
  /\ \A t \in Team : Cardinality(chosen'[t]) <= IF kind = AssignHosts THEN 1 ELSE 2
RuleSmall ==
  /\ Cardinality(rules') <= 2 /\ Cardinality(loose') <= 1
  /\ \A n \in Slot \ {1} : adding[n].idle /\ ~adding'[n].idle => ~adding[n - 1].idle

\* Teams are moved only in a dialog whose last load was in order.
OrderSmall == clean \/ persist' \in {persist, <<>>}

NoSettings == settingsTab = NoSettingsTab /\ atZabbix = [f \in Field |-> "off"]
TeamsInit == BatchInit /\ OrderInit
MCInit == ItemInit /\ AuthInit /\ TeamsInit
teamsVars == <<batchVars, orderVars>>

MCNext ==
  \/ NoSettings /\ PortalInit /\ ServerInit /\ TeamsInit
     /\ ItemNext /\ TypesLittle /\ Small' /\ UNCHANGED <<authVars, teamsVars>>
  \/ ItemInit /\ PortalInit /\ ServerInit /\ TeamsInit
     /\ SettingsNext /\ UNCHANGED <<portalVars, serverVars, itemVars, teamsVars>>
  \/ NoSettings /\ ItemInit /\ ServerInit /\ TeamsInit
     /\ PortalNext /\ UNCHANGED <<settingVars, serverVars, itemVars, teamsVars>>
  \/ NoSettings /\ ItemInit /\ PortalInit /\ TeamsInit
     /\ ServerNext /\ UNCHANGED <<settingVars, portalVars, itemVars, teamsVars>>
  \/ NoSettings /\ ItemInit /\ PortalInit /\ ServerInit /\ RuleInit /\ OrderInit
     /\ GiveNext /\ GiveSmall /\ UNCHANGED <<itemVars, authVars, ruleVars, orderVars>>
  \/ NoSettings /\ ItemInit /\ PortalInit /\ ServerInit /\ GiveInit /\ OrderInit
     /\ RuleNext /\ RuleSmall /\ UNCHANGED <<itemVars, authVars, giveVars, orderVars>>
  \/ NoSettings /\ ItemInit /\ PortalInit /\ ServerInit /\ BatchInit
     /\ OrderNext /\ OrderSmall /\ UNCHANGED <<itemVars, authVars, batchVars>>
\* Forms, settings and dialogs hold what they may.
ItemsTypeOK == ItemTypeOK /\ AuthTypeOK /\ BatchTypeOK /\ OrderTypeOK

MCSpec == MCInit /\ [][MCNext]_<<itemVars, authVars, teamsVars>>
=============================================================================
