---------------------------- MODULE AuthSettings ----------------------------
(***************************************************************************)
(* Settings that are edited in place: the Authentication tab, the          *)
(* Housekeeping tab, the LDAP login of the portal and the dialog of an     *)
(* LDAP server.                                                            *)
(*                                                                         *)
(* Two settings stand for all of them: "ldap", the switch that Zabbix      *)
(* calls ldap_auth_enabled, and "type", the default method.  The           *)
(* Authentication tab sends its whole form back, the Housekeeping tab what *)
(* was edited; the auto-refresh reloads both, also under the user's hand.  *)
(***************************************************************************)
EXTENDS FiniteSets, Sequences, SequencesExt

CONSTANTS
  Directory,  \* LDAP servers
  Fetch       \* loads of the settings in flight at one time (a bound)

ASSUME DirectoryAssumption == Directory \cap {"new", "blank"} = {}

Field == {"type", "ldap"}
Value == {"off", "on"}
Known == [Field -> Value]
Partly == [Field -> Value \cup {"none"}]
Nothing == [f \in Field |-> "none"]
\* Settings laid over others.
Over(new, old) == [f \in Field |-> IF new[f] = "none" THEN old[f] ELSE new[f]]

\* What the request of a tab leaves out: AuthSettingsUpdateRequest knows the
\* switch only by the name it had before Zabbix 6.4, which the tab uses until it
\* has loaded the settings.
AuthenticationTab == [sends |-> "form", drops |-> {"ldap"}]
HousekeepingTab == [sends |-> "edits", drops |-> {}]
NoSettingsTab == [sends |-> "none", drops |-> {}]
NoSettingsSave == [data |-> Nothing, base |-> Nothing, shown |-> Nothing, set |-> {}]

VARIABLES
  settingsTab,  \* the tab on display
  atZabbix,     \* the settings at Zabbix
  settings,     \* as they were loaded
  draft,        \* the form, or the edits
  hidden,       \* the Authentication tab shows a progress bar instead
  fetching,     \* loads in flight: "free", "asked", or what was read
  saveJob,      \* a save in flight
  touched       \* history: fields set by the user since the draft was reset

settingVars == <<settingsTab, atZabbix, settings, draft, hidden, fetching, saveJob, touched>>

SettingsTypeOK ==
  /\ settingsTab \in {AuthenticationTab, HousekeepingTab, NoSettingsTab}
  /\ atZabbix \in Known /\ settings \in Partly /\ draft \in Partly /\ hidden \in BOOLEAN
  /\ fetching \in [Fetch -> {<<"free">>, <<"asked">>} \cup {<<"read", k>> : k \in Known}]
  /\ saveJob \in [data : Partly, base : Partly, shown : Partly, set : SUBSET Field]
  /\ touched \in SUBSET Field

SettingsInit ==
  /\ settingsTab = NoSettingsTab
  /\ atZabbix \in Known /\ settings = Nothing /\ draft = Nothing /\ hidden = TRUE
  /\ fetching = [n \in Fetch |-> <<"free">>]
  /\ saveJob = NoSettingsSave /\ touched = {}

-----------------------------------------------------------------------------
MountSettings(t, n) ==
  /\ settingsTab = NoSettingsTab
  /\ settingsTab' = t /\ fetching' = [fetching EXCEPT ![n] = <<"asked">>]
  /\ UNCHANGED <<atZabbix, settings, draft, hidden, saveJob, touched>>

LoadSilently(n) ==
  /\ settingsTab # NoSettingsTab /\ fetching[n] = <<"free">>
  /\ fetching' = [fetching EXCEPT ![n] = <<"asked">>]
  /\ UNCHANGED <<settingsTab, atZabbix, settings, draft, hidden, saveJob, touched>>

ReadSettings(n) ==
  /\ fetching[n] = <<"asked">>
  /\ fetching' = [fetching EXCEPT ![n] = <<"read", atZabbix>>]
  /\ UNCHANGED <<settingsTab, atZabbix, settings, draft, hidden, saveJob, touched>>

\* Whatever was typed goes, unsaved.
SettingsLoaded(n) ==
  /\ Len(fetching[n]) = 2
  /\ settings' = fetching[n][2]
  /\ draft' = IF settingsTab.sends = "form" THEN fetching[n][2] ELSE Nothing
  /\ hidden' = FALSE /\ touched' = {}
  /\ fetching' = [fetching EXCEPT ![n] = <<"free">>]
  /\ UNCHANGED <<settingsTab, atZabbix, saveJob>>

SettingsNotLoaded(n) ==
  /\ fetching[n] = <<"asked">>
  /\ hidden' = FALSE
  /\ fetching' = [fetching EXCEPT ![n] = <<"free">>]
  /\ UNCHANGED <<settingsTab, atZabbix, settings, draft, saveJob, touched>>

\* Where nothing was loaded, every switch shows off.
Shown == Over(Over(draft, settings), [f \in Field |-> "off"])

SetSetting(f, v) ==
  /\ settingsTab # NoSettingsTab
  /\ settingsTab.sends = "form" => ~hidden
  /\ draft' = [draft EXCEPT ![f] = v] /\ touched' = touched \cup {f}
  /\ UNCHANGED <<settingsTab, atZabbix, settings, hidden, fetching, saveJob>>

Payload == draft

SaveSettings ==
  /\ saveJob = NoSettingsSave /\ settingsTab # NoSettingsTab
  /\ IF settingsTab.sends = "form" THEN ~hidden ELSE draft # Nothing
  /\ saveJob' = [data |-> Payload, base |-> settings, shown |-> Shown, set |-> touched]
  /\ UNCHANGED <<settingsTab, atZabbix, settings, draft, hidden, fetching, touched>>

\* The request without what its schema does not know.  With LDAP as the default
\* method the tab adds the switch, under its old name.
UpdateRequest(job) ==
  [f \in Field |->
     IF f = "ldap" /\ settingsTab.sends = "form" /\ job.data["type"] = "on" THEN "on"
     ELSE IF f \in settingsTab.drops /\ job.base # Nothing THEN "none" ELSE job.data[f]]

\* A success loads the tab anew.
SettingsSaved(n) ==
  /\ saveJob # NoSettingsSave /\ fetching[n] = <<"free">>
  /\ atZabbix' = Over(UpdateRequest(saveJob), atZabbix)
  /\ fetching' = [fetching EXCEPT ![n] = <<"asked">>]
  /\ hidden' = TRUE
  /\ draft' = IF settingsTab.sends = "form" THEN draft ELSE Nothing
  /\ touched' = IF settingsTab.sends = "form" THEN touched ELSE {}
  /\ saveJob' = NoSettingsSave
  /\ UNCHANGED <<settingsTab, settings>>

SettingsRefused ==
  /\ saveJob # NoSettingsSave
  /\ saveJob' = NoSettingsSave
  /\ UNCHANGED <<settingsTab, atZabbix, settings, draft, hidden, fetching, touched>>

OtherSetting(f, v) ==
  /\ atZabbix' = [atZabbix EXCEPT ![f] = v]
  /\ UNCHANGED <<settingsTab, settings, draft, hidden, fetching, saveJob, touched>>

SettingsNext ==
  \/ \E n \in Fetch : \/ \E t \in {AuthenticationTab, HousekeepingTab} : MountSettings(t, n)
                      \/ LoadSilently(n) \/ ReadSettings(n) \/ SettingsLoaded(n)
                      \/ SettingsNotLoaded(n) \/ SettingsSaved(n)
  \/ \E f \in Field, v \in Value : SetSetting(f, v) \/ OtherSetting(f, v)
  \/ SaveSettings \/ SettingsRefused

-----------------------------------------------------------------------------
(* The LDAP login of the portal: its configuration is "defaults" where the *)
(* form was never filled, and the password is not given away.              *)
VARIABLES
  portal,       \* the stored configuration
  portalForm,
  portalError,  \* it could not be loaded
  portalLoads,  \* it is being loaded
  portalJob,    \* the form that is being saved, or "none"
  answered,     \* history: it has been loaded
  early         \* history: it was saved before it had been loaded

portalVars == <<portal, portalForm, portalError, portalLoads, portalJob, answered, early>>

PortalConfig == [conf : {"defaults", "stored", "typed"}, password : {"", "old", "new"}]
Defaults == [conf |-> "defaults", password |-> ""]

PortalTypeOK ==
  /\ portal \in PortalConfig /\ portalForm \in PortalConfig
  /\ portalError \in BOOLEAN /\ portalLoads \in BOOLEAN
  /\ portalJob \in PortalConfig \cup {<<>>}
  /\ answered \in BOOLEAN /\ early \in BOOLEAN

PortalInit ==
  /\ portal = [conf |-> "stored", password |-> "old"]
  /\ portalForm = Defaults
  /\ portalError = FALSE /\ portalLoads = TRUE /\ portalJob = <<>>
  /\ answered = FALSE /\ early = FALSE

loadPortalLdap ==
  /\ portalLoads /\ portalLoads' = FALSE
  /\ portalForm' = [portal EXCEPT !.password = ""]
  /\ portalError' = FALSE /\ answered' = TRUE
  /\ UNCHANGED <<portal, portalJob, early>>

loadPortalLdapFails ==
  /\ portalLoads /\ portalLoads' = FALSE
  /\ portalError' = TRUE
  /\ UNCHANGED <<portal, portalForm, portalJob, answered, early>>

setPortalLdapField ==
  /\ \/ portalForm' = [portalForm EXCEPT !.conf = "typed"]
     \/ \E p \in {"", "new"} : portalForm' = [portalForm EXCEPT !.password = p]
  /\ UNCHANGED <<portal, portalError, portalLoads, portalJob, answered, early>>

\* Seeded bug: Save is not disabled by a failed load.
MaySavePortalAnyway == portalJob = <<>>
MaySavePortal == portalJob = <<>> /\ ~portalError

savePortalLdap ==
  /\ MaySavePortal
  /\ portalJob' = portalForm /\ early' = (early \/ (~answered /\ portalLoads))
  /\ UNCHANGED <<portal, portalForm, portalError, portalLoads, answered>>

\* A blank password leaves the stored one.
save_portal_ldap ==
  /\ portalJob # <<>>
  /\ portal' = IF portalJob.password = "" THEN [portalJob EXCEPT !.password = portal.password]
               ELSE portalJob
  /\ portalJob' = <<>> /\ portalLoads' = TRUE
  /\ UNCHANGED <<portalForm, portalError, answered, early>>

\* The connection test of an enabled configuration failed, or the request did.
save_portal_ldapFails ==
  /\ portalJob # <<>> /\ portalJob' = <<>>
  /\ UNCHANGED <<portal, portalForm, portalError, portalLoads, answered, early>>

PortalNext ==
  \/ loadPortalLdap \/ loadPortalLdapFails \/ setPortalLdapField
  \/ savePortalLdap \/ save_portal_ldap \/ save_portal_ldapFails

-----------------------------------------------------------------------------
(* The dialog of an LDAP server, with the list of its group mappings and   *)
(* the dialog of one mapping above it.  What is shown is named by the      *)
(* server it came from, or over whose form it was typed.                   *)
VARIABLES
  serverOpen,    \* serverDialogOpen
  editServerId,  \* a server, or "new"
  serverForm,    \* whose values the form was filled with
  mappings,      \* provisionGroups: where each came from, and whether it was added
  groupDialog,   \* the mapping dialog is open
  groupIdx,      \* editGroupIdx, 0 for a new mapping
  group,         \* where what it holds came from, or "blank"
  getServer,     \* servers being fetched for their dialog
  serverJob      \* the save in flight, or <<>>

serverVars == <<serverOpen, editServerId, serverForm, mappings, groupDialog, groupIdx, group,
                getServer, serverJob>>

Source == Directory \cup {"new"}
Mapping == Source \X BOOLEAN
ServerTypeOK ==
  /\ serverOpen \in BOOLEAN /\ editServerId \in Source /\ serverForm \in Source
  /\ mappings \in Seq(Mapping) /\ Len(mappings) <= 2
  /\ groupDialog \in BOOLEAN /\ groupIdx \in 0..2
  /\ group \in Source \cup {"blank"}
  /\ getServer \subseteq Directory
  /\ serverJob \in Source \X Source \X Seq(Mapping) \cup {<<>>}

ServerInit ==
  /\ serverOpen = FALSE /\ editServerId = "new" /\ serverForm = "new" /\ mappings = <<>>
  /\ groupDialog = FALSE /\ groupIdx = 0 /\ group = "blank"
  /\ getServer = {} /\ serverJob = <<>>

\* Seeded bug: the mapping dialog is filled in when it opens only.
GroupKept(list) == group
\* What an open mapping dialog shows of a list: it follows its mapping there, and
\* has fields of its own where there is none, neither before nor now.
GroupShown(list) ==
  IF ~groupDialog \/ groupIdx \notin DOMAIN list \cup DOMAIN mappings THEN group
  ELSE IF groupIdx \in DOMAIN list THEN list[groupIdx][1] ELSE "blank"

\* The dialog starts from the given form whenever it, or its openness, changes.
Restart(s, list) ==
  /\ serverForm' = s /\ mappings' = list /\ group' = GroupShown(list)
  /\ UNCHANGED <<groupDialog, groupIdx>>
\* A stored server has one mapping.
buildLdapServerForm(d) == << <<d, FALSE>> >>
FormOfServer(s) == IF s = "new" THEN <<>> ELSE buildLdapServerForm(s)

openAdd ==
  /\ ~serverOpen /\ ~groupDialog
  /\ serverOpen' = TRUE /\ editServerId' = "new"
  /\ Restart("new", <<>>)
  /\ UNCHANGED <<getServer, serverJob>>

openEdit(d) ==
  /\ ~serverOpen /\ ~groupDialog
  /\ getServer' = getServer \cup {d}
  /\ UNCHANGED <<serverOpen, editServerId, serverForm, mappings, groupDialog, groupIdx, group, serverJob>>

\* The answer opens the dialog, or turns the open one into that of this server.
ServerFetched(d) ==
  /\ d \in getServer /\ getServer' = getServer \ {d}
  /\ serverOpen' = TRUE /\ editServerId' = d
  /\ Restart(d, buildLdapServerForm(d))
  /\ UNCHANGED serverJob

ServerNotFetched(d) ==
  /\ d \in getServer /\ getServer' = getServer \ {d}
  /\ UNCHANGED <<serverOpen, editServerId, serverForm, mappings, groupDialog, groupIdx, group, serverJob>>

CloseServer ==
  /\ serverOpen' = FALSE
  /\ Restart(editServerId, FormOfServer(editServerId))
  /\ UNCHANGED editServerId
CancelServer ==
  /\ serverOpen /\ ~groupDialog /\ CloseServer /\ UNCHANGED <<getServer, serverJob>>

SaveServer ==
  /\ serverOpen /\ ~groupDialog /\ serverJob = <<>>
  /\ serverJob' = <<editServerId, serverForm, mappings>>
  /\ UNCHANGED <<serverOpen, editServerId, serverForm, mappings, groupDialog, groupIdx, group, getServer>>

\* The success closes the dialog, though it may be another by then.
ServerSaved ==
  /\ serverJob # <<>> /\ serverJob' = <<>>
  /\ IF serverOpen THEN CloseServer
     ELSE UNCHANGED <<serverOpen, editServerId, serverForm, mappings, groupDialog, groupIdx, group>>
  /\ UNCHANGED getServer

ServerRefused ==
  /\ serverJob # <<>> /\ serverJob' = <<>>
  /\ UNCHANGED <<serverOpen, editServerId, serverForm, mappings, groupDialog, groupIdx, group, getServer>>

OpenMapping(i) ==
  /\ serverOpen /\ ~groupDialog /\ i \in 0..Len(mappings)
  /\ groupDialog' = TRUE /\ groupIdx' = i
  /\ group' = IF i = 0 THEN "blank" ELSE mappings[i][1]
  /\ UNCHANGED <<serverOpen, editServerId, serverForm, mappings, getServer, serverJob>>

CancelMapping ==
  /\ groupDialog /\ groupDialog' = FALSE /\ groupIdx' = 0
  /\ UNCHANGED <<serverOpen, editServerId, serverForm, mappings, group, getServer, serverJob>>

TypeMapping ==
  /\ groupDialog /\ group = "blank" /\ group' = serverForm
  /\ UNCHANGED <<serverOpen, editServerId, serverForm, mappings, groupDialog, groupIdx, getServer, serverJob>>

\* An edited mapping replaces the one at its place, if there is one.
addOrEditGroup ==
  /\ groupDialog /\ group # "blank" /\ groupDialog' = FALSE /\ groupIdx' = 0
  /\ mappings' = IF groupIdx = 0 THEN Append(mappings, <<group, TRUE>>)
                 ELSE IF groupIdx \in DOMAIN mappings THEN [mappings EXCEPT ![groupIdx][1] = group]
                 ELSE mappings
  /\ Len(mappings') <= 2  \* a bound
  /\ UNCHANGED <<serverOpen, editServerId, serverForm, group, getServer, serverJob>>

RemoveMapping(i) ==
  /\ serverOpen /\ ~groupDialog /\ i \in 1..Len(mappings)
  /\ mappings' = RemoveAt(mappings, i)
  /\ UNCHANGED <<serverOpen, editServerId, serverForm, groupDialog, groupIdx, group, getServer, serverJob>>

ServerNext ==
  \/ openAdd \/ CancelServer \/ SaveServer \/ ServerSaved \/ ServerRefused
  \/ \E d \in Directory : openEdit(d) \/ ServerFetched(d) \/ ServerNotFetched(d)
  \/ \E i \in 0..2 : OpenMapping(i) \/ RemoveMapping(i)
  \/ CancelMapping \/ TypeMapping \/ addOrEditGroup

-----------------------------------------------------------------------------
authVars == <<settingVars, portalVars, serverVars>>
AuthInit == SettingsInit /\ PortalInit /\ ServerInit
AuthNext ==
  \/ SettingsNext /\ UNCHANGED <<portalVars, serverVars>>
  \/ PortalNext /\ UNCHANGED <<settingVars, serverVars>>
  \/ ServerNext /\ UNCHANGED <<settingVars, portalVars>>

AuthSpec == AuthInit /\ [][AuthNext]_authVars

AuthTypeOK == SettingsTypeOK /\ PortalTypeOK /\ ServerTypeOK

\* The configuration of the portal's login is never replaced by the defaults of
\* a form that could not be loaded, nor is its password lost ("Could not load
\* saved configuration").  Between mount and first answer it may be.
PortalKept == portal.password # "" /\ (early \/ portal.conf # "defaults")

\* The update of a server was filled in from that server, with the mappings that
\* it has, edited or not, whichever of the answers for several dialogs came last.
\* Only a mapping that was added may be none of its own: what is typed into the
\* dialog of a new mapping stays while the server below it changes.
ServersStayApart ==
  serverJob # <<>> =>
    /\ serverJob[2] = serverJob[1]
    /\ \A i \in DOMAIN serverJob[3] : serverJob[3][i][2] \/ serverJob[3][i][1] = serverJob[1]

\* "Enable LDAP authentication", "Authentication settings updated.": a save
\* that succeeded leaves the switch where it was shown.
SwitchTakesEffect ==
  [][\A n \in Fetch : SettingsSaved(n) /\ "ldap" \in saveJob.set =>
       atZabbix'["ldap"] = saveJob.shown["ldap"]]_settingVars
=============================================================================
