------------------------------ MODULE TeamSync ------------------------------
(***************************************************************************)
(* Teams of the portal and user groups of Zabbix, which share their names. *)
(*                                                                         *)
(* A request changes the table first and Zabbix afterwards, in calls that  *)
(* may fail unnoticed.  A full_sync reads the groups, then the teams, and  *)
(* makes the teams follow the groups; before that, while it goes through   *)
(* the Zabbix users it fetched at its start, it creates the teams they     *)
(* belong to.  Nothing keeps requests and syncs apart.                     *)
(***************************************************************************)
EXTENDS Naturals

CONSTANTS
  Uid,          \* values of the serial primary key of teams
  Name,         \* names of teams and of Zabbix user groups
  DefaultGroup, \* constants.DEFAULT_GROUP
  RoleGroup,    \* the names in constants.GROUP_ROLE_MAP
  SkipGroup,    \* constants.SKIP_GROUPS
  Sync,         \* threads that run full_sync
  Client        \* request threads, and the startup thread

Kept == RoleGroup \cup {DefaultGroup}   \* never removed by a sync
Ignored == RoleGroup \cup SkipGroup     \* never imported by a sync

Team == [id : Uid, name : Name]
Job == [op : {"create", "push", "delete"}, name : Name]
NoJob == [op |-> "none"]

ASSUME TeamAssumption ==
  /\ Uid \subseteq Nat
  /\ Kept \cup Ignored \subseteq Name
  /\ DefaultGroup \notin Ignored

VARIABLES
  teams,   \* rows of teams
  groups,  \* names of the user groups in Zabbix
  pc,      \* where each full_sync is: idle, users, groups, import
  seen,    \* the user groups it fetched
  todo,    \* the groups it has yet to create teams for
  gone,    \* the rows it listed and will delete
  job      \* what a request still owes Zabbix

syncVars == <<pc, seen, todo, gone>>
vars == <<teams, groups, syncVars, job>>

-----------------------------------------------------------------------------
Names(rows) == {r.name : r \in rows}

\* Serial keys are never given twice; as keys are only compared for equality,
\* the smallest one that no row and no copy of a row carries stands for the next.
InUseGone(u) == \E r \in UNION {gone[s] : s \in Sync} : r.id = u  \* seeded bug: sequence behind
InUse(u) == \E r \in teams \cup UNION {gone[s] : s \in Sync} : r.id = u
FreshUid == {u \in Uid : ~InUse(u) /\ \A v \in Uid : v < u => InUse(v)}

\* create_team: an INSERT under UNIQUE(name).
Insert(name) ==
  IF name \in Names(teams)
    THEN teams' = teams
    ELSE \E u \in FreshUid : teams' = teams \cup {[id |-> u, name |-> name]}

Init ==
  /\ teams = {}
  /\ groups \in SUBSET (Name \ {DefaultGroup})
  /\ pc = [s \in Sync |-> "idle"]
  /\ seen = [s \in Sync |-> {}] /\ todo = [s \in Sync |-> {}]
  /\ gone = [s \in Sync |-> {}]
  /\ job = [c \in Client |-> NoJob]

-----------------------------------------------------------------------------
(* FULL_SYNC, THE TEAM PARTS *)

\* user.get and list_teams.  _get_or_create_team_id is called for the first
\* relevant group of each user, whose groups are some of those there are, and
\* creates the teams that were not listed; the listing is empty when it fails.
FetchUsers(s) ==
  /\ pc[s] = "idle"
  /\ pc' = [pc EXCEPT ![s] = "users"]
  /\ \E missing \in SUBSET (groups \ Ignored) : todo' = [todo EXCEPT ![s] = missing]
  /\ UNCHANGED <<teams, groups, seen, gone, job>>

\* create_team for a group of a user, or for a group that has no listed team.
ImportTeam(s) ==
  /\ \E n \in todo[s] :
       /\ todo' = [todo EXCEPT ![s] = @ \ {n}]
       /\ Insert(n)
  /\ UNCHANGED <<groups, pc, seen, gone, job>>

\* usergroup.get.  When it fails the teams stay as they are.
FetchGroups(s) ==
  /\ pc[s] = "users" /\ todo[s] = {}
  /\ pc' = [pc EXCEPT ![s] = "groups"]
  /\ seen' = [seen EXCEPT ![s] = groups]
  /\ UNCHANGED <<teams, groups, todo, gone, job>>

FetchGroupsFails(s) ==
  /\ pc[s] = "users" /\ todo[s] = {}
  /\ pc' = [pc EXCEPT ![s] = "idle"]
  /\ UNCHANGED <<teams, groups, seen, todo, gone, job>>

\* Seeded bug: what is exempt from removal is not imported either.
NewGroupsNotKept(s, rows) == seen[s] \ (Kept \cup Ignored \cup Names(rows))

\* The groups without a listed team, and the listed teams without a group.
NewGroups(s, rows) == seen[s] \ (Ignored \cup Names(rows))
GoneTeams(s, rows) == {r \in rows : r.name \notin Kept /\ r.name \notin seen[s]}

\* list_teams, empty when it fails.
ListInto(s, rows) ==
  /\ pc[s] = "groups"
  /\ pc' = [pc EXCEPT ![s] = "import"]
  /\ seen' = [seen EXCEPT ![s] = {}]
  /\ todo' = [todo EXCEPT ![s] = NewGroups(s, rows)]
  /\ gone' = [gone EXCEPT ![s] = GoneTeams(s, rows)]
  /\ UNCHANGED <<teams, groups, job>>
ListTeams(s) == ListInto(s, teams)
ListTeamsFails(s) == ListInto(s, {})

\* Seeded bug: the team is deleted by its name.
RemoveNamed(s) ==
  /\ pc[s] = "import" /\ todo[s] = {}
  /\ \E r \in gone[s] :
       /\ teams' = {q \in teams : q.name # r.name}
       /\ gone' = [gone EXCEPT ![s] = @ \ {r}]
  /\ UNCHANGED <<groups, pc, seen, todo, job>>

\* delete_team by id, after the imports.
RemoveTeam(s) ==
  /\ pc[s] = "import" /\ todo[s] = {}
  /\ \E r \in gone[s] :
       /\ teams' = {q \in teams : q.id # r.id}
       /\ gone' = [gone EXCEPT ![s] = @ \ {r}]
  /\ UNCHANGED <<groups, pc, seen, todo, job>>

EndSync(s) ==
  /\ pc[s] = "import" /\ todo[s] = {} /\ gone[s] = {}
  /\ pc' = [pc EXCEPT ![s] = "idle"]
  /\ UNCHANGED <<teams, groups, seen, todo, gone, job>>

-----------------------------------------------------------------------------
(* REQUESTS *)

Owe(c, op, name) == job' = [job EXCEPT ![c] = [op |-> op, name |-> name]]

\* POST /teams: 400 when the name exists, else push_team comes next.
CreateTeam(c) ==
  /\ job[c] = NoJob
  /\ \E n \in Name \ Names(teams) : Insert(n) /\ Owe(c, "create", n)
  /\ UNCHANGED <<groups, syncVars>>

\* DELETE /teams/{id}
DeleteTeam(c) ==
  /\ job[c] = NoJob
  /\ \E r \in teams :
       /\ teams' = teams \ {r}
       /\ Owe(c, "delete", r.name)
  /\ UNCHANGED <<groups, syncVars>>

\* push_user puts a user into the group of its team or the default group, and
\* bootstrap_teams pushes the teams it listed: both create what is missing.
UseGroup(c) ==
  /\ job[c] = NoJob
  /\ \E n \in Names(teams) \cup {DefaultGroup} : Owe(c, "push", n)
  /\ UNCHANGED <<teams, groups, syncVars>>

\* _get_or_create_usergroup
PushGroup(c) ==
  /\ job[c].op \in {"create", "push"}
  /\ groups' = groups \cup {job[c].name}
  /\ job' = [job EXCEPT ![c] = NoJob]
  /\ UNCHANGED <<teams, syncVars>>

\* delete_team of the push mixin
PushDelete(c) ==
  /\ job[c].op = "delete"
  /\ groups' = groups \ {job[c].name}
  /\ job' = [job EXCEPT ![c] = NoJob]
  /\ UNCHANGED <<teams, syncVars>>

\* Zabbix does not answer, refuses, or the backend dies.
PushFails(c) ==
  /\ job[c] # NoJob
  /\ job' = [job EXCEPT ![c] = NoJob]
  /\ UNCHANGED <<teams, groups, syncVars>>

Restart ==
  /\ pc' = [s \in Sync |-> "idle"]
  /\ seen' = [s \in Sync |-> {}] /\ todo' = [s \in Sync |-> {}]
  /\ gone' = [s \in Sync |-> {}]
  /\ job' = [c \in Client |-> NoJob]
  /\ UNCHANGED <<teams, groups>>

-----------------------------------------------------------------------------
(* ADMINISTRATORS IN ZABBIX *)

ZabbixCreate ==
  /\ \E n \in Name : groups' = groups \cup {n}
  /\ UNCHANGED <<teams, syncVars, job>>

ZabbixDelete ==
  /\ \E n \in groups : groups' = groups \ {n}
  /\ UNCHANGED <<teams, syncVars, job>>

-----------------------------------------------------------------------------
HealthyStep(s) ==
  \/ FetchUsers(s) \/ ImportTeam(s) \/ FetchGroups(s) \/ ListTeams(s)
  \/ RemoveTeam(s) \/ EndSync(s)
SyncStep(s) == HealthyStep(s) \/ FetchGroupsFails(s) \/ ListTeamsFails(s)

FinishRequest(c) == PushGroup(c) \/ PushDelete(c) \/ PushFails(c)
NewRequest(c) == CreateTeam(c) \/ DeleteTeam(c) \/ UseGroup(c)

Next ==
  \/ \E s \in Sync : SyncStep(s)
  \/ \E c \in Client : NewRequest(c) \/ FinishRequest(c)
  \/ ZabbixCreate \/ ZabbixDelete \/ Restart

Spec == Init /\ [][Next]_vars

\* Syncs are run again and again, and requests run to their end.
FairSpec ==
  /\ Spec
  /\ \A s \in Sync : WF_vars(HealthyStep(s))
  /\ \A c \in Client : WF_vars(FinishRequest(c))

-----------------------------------------------------------------------------
(* PROPERTIES *)

\* Types; ids and names of the rows are keys.
TypeOK ==
  /\ teams \subseteq Team
  /\ \A r, q \in teams : r.id = q.id \/ r.name = q.name => r = q
  /\ groups \subseteq Name
  /\ pc \in [Sync -> {"idle", "users", "groups", "import"}]
  /\ seen \in [Sync -> SUBSET Name]
  /\ todo \in [Sync -> SUBSET Name]
  /\ gone \in [Sync -> SUBSET Team]
  /\ job \in [Client -> Job \cup {NoJob}]

\* When others delete a team that a sync has listed for removal and create it
\* again under the same name, the sync spares the new team.  No sync removes a
\* team that stands for a role or for the default group.
NewRowsSpared ==
  [][\A s \in Sync, r \in teams :
       gone'[s] # gone[s] /\ r \notin teams' => r \in gone[s] /\ r.name \notin Kept]_vars

\* The teams that follow the groups are those that neither is kept nor
\* ignored; a group that is imported has a team in any case.
Mirrored ==
  /\ groups \ Ignored \subseteq Names(teams)
  /\ Names(teams) \ Kept \subseteq groups

\* Once requests, Zabbix administrators and failures stop, the syncs, however
\* they overlap and however old the user groups are they started from, bring
\* teams and groups together and keep them so.
Converges == <>[][\E s \in Sync : HealthyStep(s)]_vars => <>[]Mirrored
=============================================================================
