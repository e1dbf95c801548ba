------------------------------ MODULE TabTable ------------------------------
(***************************************************************************)
(* The list tabs of the portal's administration pages, read off their      *)
(* files.  All of them follow one protocol, the one of TabLists and        *)
(* TabDialogs, and each differs from the next in the few points named      *)
(* here:                                                                   *)
(*                                                                         *)
(*   Load  - the lists one load fetches together, whether the auto-refresh *)
(*           tick reloads them, and whether the Refresh button shows the   *)
(*           spinner ("always": also while one turns).                     *)
(*           The tabs that hand load itself to the button make             *)
(*           the click event its argument "silent", so theirs does not.    *)
(*           Users loads silently, too, when it is mounted after the first *)
(*           event of a sync.                                              *)
(*   Rows  - what the Add button does to the form that opens, and the      *)
(*           buttons of a row.  A "toggle" sends the state it wants, and   *)
(*           so does a "patch", after which the tab does not load again; a *)
(*           "flip" leaves it to the server to turn the row round.         *)
(*   Save  - the writes of a save, in order; whether one busy flag serves  *)
(*           both dialogs, each has its own, or there is none; which       *)
(*           dialogs a success closes; whether the success of a create     *)
(*           clears the form.                                              *)
(*   Form  - the fields that must be filled before the form can be sent,   *)
(*           whether add and edit share it, whether the Enter key sends it *)
(*           past the busy flag, what is fetched when it opens, and        *)
(*           whether something else than the user resets it.               *)
(***************************************************************************)

Load(lists, ticks, refresh) ==
  [lists |-> lists, ticks |-> ticks, refresh |-> refresh, quiet |-> FALSE]
Rows(add, row) == [add |-> add, row |-> row]
Save(add, edit, closes, clears) ==
  [add |-> add, edit |-> edit, closes |-> closes, clears |-> clears, busy |-> "one"]
Form(add, edit, shared) ==
  [add |-> add, edit |-> edit, shared |-> shared,
   enter |-> FALSE, fetch |-> "none", reset |-> FALSE]
NoSave == Save(<<>>, <<>>, "same", FALSE)
NoForm == Form({}, {}, FALSE)
Tab(load, rows, save, form) == [load |-> load, rows |-> rows, save |-> save, form |-> form]

-----------------------------------------------------------------------------
(* Data collection *)

HostGroupsLoad == Load({"groups"}, TRUE, "silent")
HostGroupsOpen == [add |-> "blank", fetch |-> "guarded"]
HostGroupsSave == Save(<<"create", "members">>, <<"update", "members">>, "both", TRUE)
HostGroupsRows == Rows(HostGroupsOpen.add, {"edit", "delete"})
HostGroupsForm ==
  [Form({"name"}, {"name"}, TRUE) EXCEPT !.enter = TRUE, !.fetch = HostGroupsOpen.fetch]
HostGroups == Tab(HostGroupsLoad, HostGroupsRows, HostGroupsSave, HostGroupsForm)

TemplateGroupsLoad == Load({"groups"}, TRUE, "silent")
TemplateGroupsOpen == [add |-> "blank", fetch |-> "guarded"]
TemplateGroupsSave == Save(<<"create", "members">>, <<"update", "members">>, "both", TRUE)
TemplateGroupsRows == Rows(TemplateGroupsOpen.add, {"edit", "delete"})
TemplateGroupsForm ==
  [Form({"name"}, {"name"}, TRUE) EXCEPT !.enter = TRUE, !.fetch = TemplateGroupsOpen.fetch]
TemplateGroups ==
  Tab(TemplateGroupsLoad, TemplateGroupsRows, TemplateGroupsSave, TemplateGroupsForm)

MaintenanceLoad == Load({"maintenances", "hostGroups"}, TRUE, "silent")
MaintenanceSave == Save(<<"create">>, <<>>, "same", FALSE)
MaintenanceRows == Rows("blank", {"delete"})
MaintenanceForm == Form({"name"}, {}, FALSE)
Maintenance == Tab(MaintenanceLoad, MaintenanceRows, MaintenanceSave, MaintenanceForm)

DiscoveryLoad == Load({"rules"}, TRUE, "silent")
DiscoverySave == Save(<<"create">>, <<>>, "same", TRUE)
DiscoveryRows == Rows("blank", {"delete"})
DiscoveryForm == Form({"name", "iprange"}, {}, FALSE)  \* "icmp" is ticked from the start
Discovery == Tab(DiscoveryLoad, DiscoveryRows, DiscoverySave, DiscoveryForm)

CorrelationLoad == Load({"correlations"}, TRUE, "silent")
CorrelationSave == Save(<<"create">>, <<>>, "same", TRUE)
CorrelationRows == Rows("blank", {"delete"})
CorrelationForm == Form({"name"}, {}, FALSE)
Correlation == Tab(CorrelationLoad, CorrelationRows, CorrelationSave, CorrelationForm)

TemplatesLoad == Load({"templates", "groups"}, TRUE, "loud")
TemplatesSave == Save(<<"create">>, <<>>, "same", FALSE)
TemplatesRows == Rows("blank", {"delete"})
TemplatesForm == Form({"name", "group_ids"}, {}, FALSE)
Templates == Tab(TemplatesLoad, TemplatesRows, TemplatesSave, TemplatesForm)

-----------------------------------------------------------------------------
(* Administration *)

MacrosLoad == Load({"macros"}, TRUE, "loud")
MacrosSave == Save(<<"create">>, <<"update">>, "same", TRUE)
MacrosRows == Rows("kept", {"edit", "delete"})
MacrosForm == Form({"macro"}, {}, FALSE)
Macros == Tab(MacrosLoad, MacrosRows, MacrosSave, MacrosForm)

ProxiesLoad == Load({"proxies", "proxyGroups"}, TRUE, "loud")
ProxiesSave == Save(<<"create">>, <<"update">>, "same", TRUE)
ProxiesRows == Rows("blank", {"edit", "delete"})
ProxiesForm == Form({"name"}, {"name"}, FALSE)  \* an active proxy outside any group
Proxies == Tab(ProxiesLoad, ProxiesRows, ProxiesSave, ProxiesForm)

ProxyGroupsLoad == Load({"proxyGroups"}, TRUE, "loud")
ProxyGroupsSave == Save(<<"create">>, <<>>, "same", TRUE)
ProxyGroupsRows == Rows("kept", {"delete"})
ProxyGroupsForm == Form({"name", "failover_delay"}, {}, FALSE)
ProxyGroups == Tab(ProxyGroupsLoad, ProxyGroupsRows, ProxyGroupsSave, ProxyGroupsForm)

QueueLoad == Load({"queue"}, TRUE, "loud")
Queue == Tab(QueueLoad, Rows("none", {}), NoSave, NoForm)

-----------------------------------------------------------------------------
(* Alerts: actions, media types, scripts *)

ActionsLoad == Load({"actions"}, TRUE, "loud")
ActionsSave == Save(<<"create">>, <<>>, "same", TRUE)
ActionsRows == Rows("kept", {"toggle", "delete"})
ActionsForm == Form({"name"}, {}, FALSE)
Actions == Tab(ActionsLoad, ActionsRows, ActionsSave, ActionsForm)

MediaTypesLoad == Load({"mediaTypes"}, TRUE, "loud")
MediaTypesSave == [Save(<<"create">>, <<"update">>, "same", TRUE) EXCEPT !.busy = "each"]
MediaTypesRows == Rows("kept", {"toggle", "edit", "delete"})
MediaTypesForm == Form({"name"}, {"name"}, FALSE)
MediaTypes == Tab(MediaTypesLoad, MediaTypesRows, MediaTypesSave, MediaTypesForm)

ScriptsLoad == Load({"scripts"}, TRUE, "loud")
ScriptsSave == Save(<<"create">>, <<>>, "same", TRUE)
ScriptsRows == Rows("kept", {"delete"})
ScriptsForm == Form({"name", "command"}, {}, FALSE)
Scripts == Tab(ScriptsLoad, ScriptsRows, ScriptsSave, ScriptsForm)

NotificationsLoad == Load({"history"}, FALSE, "loud")
Notifications == Tab(NotificationsLoad, Rows("none", {}), NoSave, NoForm)

-----------------------------------------------------------------------------
(* Users: groups, roles, tokens *)

UserGroupsLoad == Load({"groups"}, TRUE, "loud")
UserGroupsSave == Save(<<"create">>, <<>>, "same", FALSE)
UserGroupsRows == Rows("blank", {"delete"})
UserGroupsForm == Form({"name"}, {}, FALSE)
UserGroups == Tab(UserGroupsLoad, UserGroupsRows, UserGroupsSave, UserGroupsForm)

RolesLoad == Load({"roles"}, TRUE, "loud")
RolesSave == Save(<<"create">>, <<"update">>, "same", TRUE)
RolesRows == Rows("blank", {"edit", "delete"})
RolesForm == Form({"name"}, {"name"}, FALSE)
Roles == Tab(RolesLoad, RolesRows, RolesSave, RolesForm)

ApiTokensLoad == Load({"tokens", "users"}, TRUE, "loud")
ApiTokensSave == Save(<<"create">>, <<>>, "same", TRUE)
ApiTokensRows == Rows("kept", {"delete"})
ApiTokensForm == Form({"name", "userid"}, {}, FALSE)
ApiTokens == Tab(ApiTokensLoad, ApiTokensRows, ApiTokensSave, ApiTokensForm)

-----------------------------------------------------------------------------
(* Services *)

ServicesLoad == Load({"services"}, TRUE, "loud")
ServicesSave == Save(<<"create">>, <<"update">>, "same", TRUE)
ServicesRows == Rows("blank", {"edit", "delete"})
ServicesForm == Form({"name"}, {"name"}, TRUE)
Services == Tab(ServicesLoad, ServicesRows, ServicesSave, ServicesForm)

SlaLoad == Load({"slas"}, TRUE, "loud")
SlaSave == Save(<<"create">>, <<>>, "same", TRUE)
SlaRows == Rows("kept", {"delete"})
SlaForm == Form({"name"}, {}, FALSE)
Sla == Tab(SlaLoad, SlaRows, SlaSave, SlaForm)

-----------------------------------------------------------------------------
(* Users and teams of the portal: pages without a busy flag.  The page of the *)
(* teams has two add dialogs, for a team and for a user; its load, which      *)
(* shows the teams before it has their groups, is not modelled.               *)

UsersLoad == [Load({"users", "teams"}, TRUE, "loud") EXCEPT !.quiet = TRUE]
UsersSave == [Save(<<"create">>, <<"update">>, "same", TRUE) EXCEPT !.busy = "none"]
UsersRows == Rows("kept", {"edit", "delete"})
UsersForm == Form({"username", "password"}, {"roles"}, FALSE)
Users == Tab(UsersLoad, UsersRows, UsersSave, UsersForm)

TeamsSave == [Save(<<"create">>, <<>>, "same", TRUE) EXCEPT !.busy = "none"]
TeamsForm == Form({"name"}, {}, FALSE)
Teams == Tab(Load({}, TRUE, "none"), Rows("kept", {"delete"}), TeamsSave, TeamsForm)

TeamUsersSave == [Save(<<"create">>, <<>>, "same", TRUE) EXCEPT !.busy = "none"]
TeamUsersForm == Form({"username"}, {}, FALSE)
TeamUsers == Tab(Load({}, TRUE, "none"), Rows("kept", {"delete"}), TeamUsersSave, TeamUsersForm)

-----------------------------------------------------------------------------
(* Problems and hosts.  An acknowledged problem is put right in the list     *)
(* that is shown; of the dialogs of a host only the one that edits it.       *)

ProblemsLoad == Load({"problems", "hosts", "hostGroups"}, TRUE, "loud")
Problems == Tab(ProblemsLoad, Rows("none", {"patch"}), NoSave, NoForm)

HostsLoad == [Load({"hosts"}, TRUE, "always") EXCEPT !.quiet = TRUE]
HostsSave == Save(<<>>, <<"update">>, "same", FALSE)
HostsRows == Rows("none", {"edit", "delete"})
Hosts == Tab(HostsLoad, HostsRows, HostsSave, NoForm)

-----------------------------------------------------------------------------
(* Alert rules.  A form being edited starts afresh when the sounds of the  *)
(* rules change, which another browser tab may do at any time.             *)

AlertRulesLoad == Load({"rules"}, FALSE, "none")
AlertRulesSave == [Save(<<"create">>, <<"update">>, "same", FALSE) EXCEPT !.busy = "each"]
AlertRulesRows == Rows("blank", {"flip", "edit", "delete"})
AlertRulesForm == [Form({"items", "threshold"}, {}, FALSE) EXCEPT !.reset = TRUE]
AlertRules == Tab(AlertRulesLoad, AlertRulesRows, AlertRulesSave, AlertRulesForm)

-----------------------------------------------------------------------------
Tabs == {HostGroups, TemplateGroups, Maintenance, Discovery, Correlation, Templates,
         Macros, Proxies, ProxyGroups, Queue,
         Actions, MediaTypes, Scripts, Notifications,
         UserGroups, Roles, ApiTokens, Services, Sla,
         Users, Teams, TeamUsers, Problems, Hosts, AlertRules}
=============================================================================
