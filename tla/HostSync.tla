------------------------------ MODULE HostSync ------------------------------
(***************************************************************************)
(* Which hosts belong to which team.                                       *)
(*                                                                         *)
(* The portal keeps pairs of host and team in host_assignments.  Zabbix    *)
(* shows them in two places: in the host group named like the team, and in *)
(* a tag "team" of the host.  A request changes the row first and then     *)
(* tag and group, each by reading the whole list of the host, changing it, *)
(* and writing it back.  The last part of full_sync makes the rows follow  *)
(* what Zabbix showed when it fetched the hosts.                           *)
(***************************************************************************)
EXTENDS Naturals

CONSTANTS
  Host,    \* host names
  Team,    \* names of teams
  Other,   \* a host group that is no team's
  Sync,    \* threads that run full_sync
  Client   \* request threads, and the startup thread

ASSUME HostAssumption == Other \notin Team

HostGroup == Team \cup {Other}
Pair == Host \X Team
NoJob == [op |-> "none"]
Job == [op : {"add", "remove", "tag", "group", "retag"}, part : {"tags", "groups"},
        host : Host, team : Team, read : BOOLEAN, seen : SUBSET HostGroup]
         \cup [op : {"deleteHost"}, host : Host]
         \cup [op : {"deleteTeam"}, team : Team]

VARIABLES
  teams,     \* the names in table teams
  assigned,  \* rows of host_assignments, the team by its name
  hosts,     \* hosts in Zabbix
  groups,    \* the host groups of each
  tags,      \* the values of its tags "team"
  pc,        \* where the host part of each full_sync is: idle, fetch, assign, remove
  listed,    \* the teams it listed: portal_team_map
  stale,     \* those that were deleted since, so that their ids mean nothing
  fetched,   \* the pairs Zabbix showed it
  todo,      \* the pairs it has yet to assign
  gone,      \* the rows it found stale and will delete
  job,       \* what a request still has to do in Zabbix
  unshown    \* history: the pairs Zabbix did not show at some moment of it

portalVars == <<teams, assigned>>
zabbixVars == <<hosts, groups, tags>>
syncVars == <<pc, listed, stale, fetched, todo, gone>>
vars == <<portalVars, zabbixVars, syncVars, job>>

-----------------------------------------------------------------------------
\* What Zabbix shows: _host_group_assignments and _host_tag_assignments.
ByGroup == {p \in Pair : p[1] \in hosts /\ p[2] \in groups[p[1]]}
Shown == {p \in Pair : p[1] \in hosts /\ p[2] \in groups[p[1]] \cup tags[p[1]]}

Init ==
  /\ teams = {} /\ assigned = {}
  /\ hosts = {}
  /\ groups = [h \in Host |-> {}] /\ tags = [h \in Host |-> {}]
  /\ pc = [s \in Sync |-> "idle"]
  /\ listed = [s \in Sync |-> {}] /\ stale = [s \in Sync |-> {}]
  /\ fetched = [s \in Sync |-> {}] /\ todo = [s \in Sync |-> {}]
  /\ gone = [s \in Sync |-> {}] /\ unshown = [s \in Sync |-> {}]
  /\ job = [c \in Client |-> NoJob]

-----------------------------------------------------------------------------
(* FULL_SYNC, THE HOST PART *)

\* list_teams, empty when it fails.
ListInto(s, ts) ==
  /\ pc[s] = "idle"
  /\ pc' = [pc EXCEPT ![s] = "fetch"]
  /\ listed' = [listed EXCEPT ![s] = ts]
  /\ stale' = [stale EXCEPT ![s] = {}]
  /\ UNCHANGED <<portalVars, zabbixVars, fetched, todo, gone, job>>
ListTeams(s) == ListInto(s, teams)
ListTeamsFails(s) == ListInto(s, {})

\* host.get.  Host groups are assigned anew, tags only keep what is assigned.
FetchHosts(s) ==
  /\ pc[s] = "fetch"
  /\ pc' = [pc EXCEPT ![s] = "assign"]
  /\ fetched' = [fetched EXCEPT ![s] = Shown]
  /\ todo' = [todo EXCEPT ![s] = {p \in ByGroup : p[2] \in listed[s] \ stale[s]}]
  /\ UNCHANGED <<portalVars, zabbixVars, listed, stale, gone, job>>

FetchHostsFails(s) ==
  /\ pc[s] = "fetch"
  /\ pc' = [pc EXCEPT ![s] = "idle"]
  /\ UNCHANGED <<portalVars, zabbixVars, listed, stale, fetched, todo, gone, job>>

\* assign_host for one pair; it fails for a team deleted since (see DropTeam).
AssignShown(s) ==
  /\ \E p \in todo[s] :
       /\ assigned' = assigned \cup {p}
       /\ todo' = [todo EXCEPT ![s] = @ \ {p}]
  /\ UNCHANGED <<teams, zabbixVars, pc, listed, stale, fetched, gone, job>>

\* Seeded bug: teams that were not listed are not left out.
MissingUnlisted(s, rows) == {p \in rows : p \notin fetched[s]}

\* Seeded bug: when Zabbix shows nothing, nothing is removed.
MissingFromSome(s, rows) ==
  {p \in rows : fetched[s] # {} /\ p[2] \in listed[s] /\ p \notin fetched[s]}

\* The rows of listed teams that Zabbix did not show.
Missing(s, rows) == {p \in rows : p[2] \in listed[s] /\ p \notin fetched[s]}

\* get_overview, empty when it fails.
OverviewInto(s, rows) ==
  /\ pc[s] = "assign" /\ todo[s] = {}
  /\ pc' = [pc EXCEPT ![s] = "remove"]
  /\ gone' = [gone EXCEPT ![s] = Missing(s, rows)]
  /\ UNCHANGED <<portalVars, zabbixVars, listed, stale, fetched, todo, job>>
Overview(s) == OverviewInto(s, assigned)
OverviewFails(s) == OverviewInto(s, {})

\* unassign_host
RemoveStale(s) ==
  /\ \E p \in gone[s] :
       /\ assigned' = assigned \ {p}
       /\ gone' = [gone EXCEPT ![s] = @ \ {p}]
  /\ UNCHANGED <<teams, zabbixVars, pc, listed, stale, fetched, todo, job>>

EndSync(s) ==
  /\ pc[s] = "remove" /\ gone[s] = {}
  /\ pc' = [pc EXCEPT ![s] = "idle"]
  /\ listed' = [listed EXCEPT ![s] = {}]
  /\ stale' = [stale EXCEPT ![s] = {}]
  /\ fetched' = [fetched EXCEPT ![s] = {}]
  /\ UNCHANGED <<portalVars, zabbixVars, todo, gone, job>>

-----------------------------------------------------------------------------
(* REQUESTS *)

Owe(c, j) == job' = [job EXCEPT ![c] = j]
Edit(op, h, t) ==
  [op |-> op, part |-> IF op = "group" THEN "groups" ELSE "tags",
   host |-> h, team |-> t, read |-> FALSE, seen |-> {}]

CreateTeam ==
  /\ \E t \in Team \ teams : teams' = teams \cup {t}
  /\ UNCHANGED <<assigned, zabbixVars, syncVars, job>>

\* Seeded bug: the rows outlive the team.
DropTeamOnly(t) ==
  /\ teams' = teams \ {t}
  /\ stale' = [s \in Sync |-> stale[s] \cup ({t} \cap listed[s])]
  /\ UNCHANGED assigned
  /\ todo' = [s \in Sync |-> {p \in todo[s] : p[2] # t}]
  /\ gone' = [s \in Sync |-> {p \in gone[s] : p[2] # t}]

\* The rows go with the team, and what syncs would do by its id has no effect:
\* an INSERT breaks the foreign key, a DELETE finds nothing.
DropTeam(t) ==
  /\ teams' = teams \ {t}
  /\ assigned' = {p \in assigned : p[2] # t}
  /\ stale' = [s \in Sync |-> stale[s] \cup ({t} \cap listed[s])]
  /\ todo' = [s \in Sync |-> {p \in todo[s] : p[2] # t}]
  /\ gone' = [s \in Sync |-> {p \in gone[s] : p[2] # t}]

\* DELETE /teams/{id}, and the removal of a team by full_sync, which owes
\* nothing to Zabbix.
DeleteTeam(c) ==
  /\ job[c] = NoJob
  /\ \E t \in teams :
       /\ DropTeam(t)
       /\ job' = job \/ Owe(c, [op |-> "deleteTeam", team |-> t])
  /\ UNCHANGED <<zabbixVars, pc, listed, fetched>>

\* POST /teams/{id}/hosts.  The host need not be in Zabbix.
AssignHost(c) ==
  /\ job[c] = NoJob
  /\ \E h \in Host, t \in teams :
       /\ assigned' = assigned \cup {<<h, t>>}
       /\ Owe(c, Edit("add", h, t))
  /\ UNCHANGED <<teams, zabbixVars, syncVars>>

\* DELETE /teams/{id}/hosts/{hostname}: 404 without a row.
UnassignHost(c) ==
  /\ job[c] = NoJob
  /\ \E p \in assigned :
       /\ assigned' = assigned \ {p}
       /\ Owe(c, Edit("remove", p[1], p[2]))
  /\ UNCHANGED <<teams, zabbixVars, syncVars>>

\* PUT /hosts/{hostname}/tags, and the startup thread, which tags the hosts
\* of the overview and puts them into the group of the team.
Retag(c) ==
  /\ job[c] = NoJob
  /\ \/ \E h \in Host, t \in Team : Owe(c, Edit("retag", h, t))
     \/ \E p \in assigned, op \in {"tag", "group"} : Owe(c, Edit(op, p[1], p[2]))
  /\ UNCHANGED <<portalVars, zabbixVars, syncVars>>

\* POST /hosts: host.create, then the row of the creator's team, if he has
\* one, then tag and group, unless he opted out of them.
CreateHost(c) ==
  /\ job[c] = NoJob
  /\ \E h \in Host \ hosts, gs \in (SUBSET HostGroup) \ {{}} :
       /\ hosts' = hosts \cup {h}
       /\ groups' = [groups EXCEPT ![h] = gs]
       /\ \/ UNCHANGED <<assigned, job>>
          \/ \E t \in teams :
               /\ assigned' = assigned \cup {<<h, t>>}
               /\ job' = job \/ Owe(c, Edit("add", h, t))
  /\ UNCHANGED <<teams, tags, syncVars>>

\* DELETE /hosts/{hostname}: unassign_host_all, then delete_server.
DeleteHost(c) ==
  /\ job[c] = NoJob
  /\ \E h \in hosts :
       /\ assigned' = {p \in assigned : p[1] # h}
       /\ Owe(c, [op |-> "deleteHost", host |-> h])
  /\ UNCHANGED <<teams, zabbixVars, syncVars>>

-----------------------------------------------------------------------------
(* ... AND WHAT FOLLOWS IN ZABBIX *)

Editing(c) == job[c].op \in {"add", "remove", "tag", "group", "retag"}

\* The tags are done, whether they were written or not, and the group is next.
After(j) ==
  IF j.op \in {"add", "remove"} /\ j.part = "tags"
    THEN [j EXCEPT !.part = "groups", !.read = FALSE, !.seen = {}]
    ELSE NoJob

\* host.get with the tags or the groups of the host.
Read(c) ==
  /\ Editing(c) /\ ~job[c].read
  /\ LET j == job[c]
     IN  Owe(c, IF j.host \notin hosts THEN After(j)
                ELSE [j EXCEPT !.read = TRUE,
                          !.seen = IF j.part = "tags" THEN tags[j.host] ELSE groups[j.host]])
  /\ UNCHANGED <<portalVars, zabbixVars, syncVars>>

\* host.update with the whole list.  A tag or group that is there already is
\* not written, and a host is not left without a group.  When the group of the
\* team does not exist, a removal ends early.
WriteTags(c) ==
  /\ Editing(c) /\ job[c].read /\ job[c].part = "tags"
  /\ LET j == job[c]
     IN  /\ Owe(c, After(j))
         /\ tags' = CASE j.op \in {"add", "tag"} /\ j.team \notin j.seen ->
                           [tags EXCEPT ![j.host] = j.seen \cup {j.team}]
                      [] j.op = "remove" -> [tags EXCEPT ![j.host] = j.seen \ {j.team}]
                      [] j.op = "retag" -> [tags EXCEPT ![j.host] = j.seen]
                      [] OTHER -> tags
  /\ UNCHANGED <<portalVars, hosts, groups, syncVars>>

WriteGroups(c) ==
  /\ Editing(c) /\ job[c].read /\ job[c].part = "groups"
  /\ LET j == job[c]
         new == IF j.op = "remove" THEN j.seen \ {j.team} ELSE j.seen \cup {j.team}
     IN  /\ Owe(c, After(j))
         /\ \/ j.op = "remove" /\ new # {} /\ groups' = [groups EXCEPT ![j.host] = new]
            \/ j.op = "remove" /\ (new = {} \/ new = j.seen) /\ groups' = groups
            \/ j.op # "remove" /\ new # j.seen /\ groups' = [groups EXCEPT ![j.host] = new]
            \/ j.op # "remove" /\ new = j.seen /\ groups' = groups
  /\ UNCHANGED <<portalVars, hosts, tags, syncVars>>

\* A host goes, and with it the id that others hold: what they would write fails.
DropHost(h, done) ==
  /\ hosts' = hosts \ {h}
  /\ groups' = [groups EXCEPT ![h] = {}]
  /\ tags' = [tags EXCEPT ![h] = {}]
  /\ job' = [k \in Client |->
               IF k \in done THEN NoJob
               ELSE IF Editing(k) /\ job[k].host = h /\ job[k].read THEN After(job[k])
               ELSE job[k]]

\* delete_server
PushDeleteHost(c) ==
  /\ job[c].op = "deleteHost"
  /\ IF job[c].host \in hosts THEN DropHost(job[c].host, {c})
                              ELSE Owe(c, NoJob) /\ UNCHANGED zabbixVars
  /\ UNCHANGED <<portalVars, syncVars>>

\* hostgroup.delete, which Zabbix refuses while a host has no other group.  The
\* id of the group is gone, even if a group of its name is created again.
PushDeleteTeam(c) ==
  /\ job[c].op = "deleteTeam"
  /\ LET t == job[c].team
     IN  IF \E h \in hosts : groups[h] = {t}
           THEN Owe(c, NoJob) /\ UNCHANGED groups
           ELSE /\ groups' = [h \in Host |-> groups[h] \ {t}]
                /\ job' = [k \in Client |->
                     IF k = c \/ (Editing(k) /\ job[k].part = "groups"
                                  /\ job[k].read /\ t \in job[k].seen)
                       THEN NoJob ELSE job[k]]
  /\ UNCHANGED <<portalVars, hosts, tags, syncVars>>

\* Zabbix does not answer, or refuses.  The next part is tried all the same.
CallFails(c) ==
  /\ job[c] # NoJob
  /\ Owe(c, IF Editing(c) THEN After(job[c]) ELSE NoJob)
  /\ UNCHANGED <<portalVars, zabbixVars, syncVars>>

Restart ==
  /\ pc' = [s \in Sync |-> "idle"]
  /\ listed' = [s \in Sync |-> {}] /\ stale' = [s \in Sync |-> {}]
  /\ fetched' = [s \in Sync |-> {}] /\ todo' = [s \in Sync |-> {}]
  /\ gone' = [s \in Sync |-> {}]
  /\ job' = [c \in Client |-> NoJob]
  /\ UNCHANGED <<portalVars, zabbixVars>>

-----------------------------------------------------------------------------
(* IN ZABBIX, BY ITS ADMINISTRATORS OR BY PUT /HOSTS/{HOSTNAME} *)

SetGroups ==
  /\ \E h \in hosts, gs \in (SUBSET HostGroup) \ {{}} : groups' = [groups EXCEPT ![h] = gs]
  /\ UNCHANGED <<portalVars, hosts, tags, syncVars, job>>

SetTags ==
  /\ \E h \in hosts, ts \in SUBSET Team : tags' = [tags EXCEPT ![h] = ts]
  /\ UNCHANGED <<portalVars, hosts, groups, syncVars, job>>

RemoveHost ==
  /\ \E h \in hosts : DropHost(h, {})
  /\ UNCHANGED <<portalVars, syncVars>>

-----------------------------------------------------------------------------
HealthyStep(s) ==
  \/ ListTeams(s) \/ FetchHosts(s) \/ AssignShown(s)
  \/ Overview(s) \/ RemoveStale(s) \/ EndSync(s)
SyncStep(s) ==
  \/ HealthyStep(s)
  \/ ListTeamsFails(s) \/ FetchHostsFails(s) \/ OverviewFails(s)

FinishRequest(c) ==
  \/ Read(c) \/ WriteTags(c) \/ WriteGroups(c)
  \/ PushDeleteHost(c) \/ PushDeleteTeam(c) \/ CallFails(c)
NewRequest(c) ==
  \/ DeleteTeam(c) \/ AssignHost(c) \/ UnassignHost(c)
  \/ Retag(c) \/ CreateHost(c) \/ DeleteHost(c)

Next ==
  \/ \E s \in Sync : SyncStep(s)
  \/ \E c \in Client : NewRequest(c) \/ FinishRequest(c)
  \/ CreateTeam \/ SetGroups \/ SetTags \/ RemoveHost \/ Restart

\* A pair that Zabbix once fails to show is noted for the syncs under way.
Watch ==
  unshown' = [s \in Sync |-> IF pc'[s] = "idle" THEN {} ELSE unshown[s] \cup (Pair \ Shown')]

Spec == Init /\ [][Next /\ Watch]_<<vars, unshown>>

\* Syncs are run again and again, and requests run to their end.
FairSpec ==
  /\ Spec
  /\ \A s \in Sync : WF_vars(HealthyStep(s))
  /\ \A c \in Client : WF_vars(FinishRequest(c))

-----------------------------------------------------------------------------
(* PROPERTIES *)

PortalOK == teams \subseteq Team /\ assigned \subseteq Host \X teams
ZabbixOK ==
  /\ hosts \subseteq Host
  /\ groups \in [Host -> SUBSET HostGroup]
  /\ \A h \in Host : h \in hosts <=> groups[h] # {}
  /\ tags \in [Host -> SUBSET Team]
  /\ \A h \in Host \ hosts : tags[h] = {}
SyncOK ==
  /\ pc \in [Sync -> {"idle", "fetch", "assign", "remove"}]
  /\ listed \in [Sync -> SUBSET Team]
  /\ stale \in [Sync -> SUBSET Team]
  /\ fetched \in [Sync -> SUBSET Pair]
  /\ todo \in [Sync -> SUBSET Pair]
  /\ gone \in [Sync -> SUBSET Pair]
  /\ \A s \in Sync : listed[s] \ stale[s] \subseteq teams /\ todo[s] \subseteq Host \X teams
JobsOK == job \in [Client -> Job \cup {NoJob}]

\* Types; an assignment has a team, as the foreign key of the table says, and
\* no read-modify-write leaves a host of Zabbix without a group.
TypeOK == PortalOK /\ ZabbixOK /\ SyncOK /\ JobsOK

\* What a request is about to write was read from a host that is still there.
ReadsLive ==
  \A c \in Client : Editing(c) /\ job[c].read =>
    /\ job[c].host \in hosts
    /\ job[c].part = "tags" => job[c].seen \subseteq Team

\* However syncs overlap one another and requests, a sync leaves a row alone that
\* Zabbix has shown at every moment since that sync began, and those of a team
\* whose name was not listed then.  The row of a host assigned while the sync
\* runs is not safe: it is there before its tag and its group are, and a team
\* deleted and created again meanwhile counts as the listed one.
ShownStays ==
  [][\A s \in Sync : RemoveStale(s) =>
       assigned \ assigned' \subseteq {p \in unshown[s] : p[2] \in listed[s]}]_vars

\* Each group of a team has its row, and each row is shown by Zabbix.
Mirrored ==
  /\ \A p \in ByGroup : p[2] \in teams => p \in assigned
  /\ assigned \subseteq Shown

\* Once requests, Zabbix administrators and failures stop, the syncs, however
\* they overlap and however old what they fetched, make the assignments follow
\* Zabbix and keep them so.
Converges == <>[][\E s \in Sync : HealthyStep(s)]_vars => <>[]Mirrored
=============================================================================
