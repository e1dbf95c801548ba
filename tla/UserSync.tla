------------------------------ MODULE UserSync ------------------------------
(***************************************************************************)
(* User accounts between the portal database (team_users) and Zabbix.      *)
(*                                                                         *)
(* Three kinds of actors change accounts concurrently:                     *)
(*   - every thread running ZabbixSync.full_sync (the realtime listener,   *)
(*     the periodic thread, a POST /sync request): no lock excludes them;  *)
(*   - every request thread of the user routes and of the login route;     *)
(*   - administrators working in Zabbix itself.                            *)
(* A full_sync reads Zabbix once, reads the portal, and then works through *)
(* those copies one transaction at a time, so everything it writes rests   *)
(* on rows that may have changed since.                                    *)
(*                                                                         *)
(* Names stand for logins up to letter case; Form tells the two spellings  *)
(* that matter apart: the lowercase one every portal-created account has   *)
(* and one other spelling Zabbix may hold.  A Zabbix user carries only its *)
(* first relevant user group, the one the sync looks at.                   *)
(***************************************************************************)
EXTENDS Naturals

CONSTANTS
  Uid,         \* values of the serial primary key of team_users
  Name,        \* logins up to letter case, "guest" excluded
  RootName,    \* the login seed_root gives the first account
  TeamGroup,   \* Zabbix user groups that are portal team names
  DefaultGroup,\* constants.DEFAULT_GROUP, where portal users without team go
  NoTeam,      \* team_id NULL; for a Zabbix user, no relevant group
  Sync,        \* threads that run full_sync
  Client,      \* request threads of the portal API
  RoleChoice,  \* role sets an administrator may give in the portal
  Restriction, \* whether an administrator may set restrictions, or lift them
  ZabbixUser   \* user rows an administrator may give a login in Zabbix

Form == {"lower", "mixed"}
Source == {"local", "ldap", "zabbix"}
Role == {"root", "team_lead", "operator", "auditor", "member"}

ROLE_TO_TYPE ==
  [r \in Role |-> IF r = "root" THEN 3 ELSE IF r = "team_lead" THEN 2 ELSE 1]
TYPE_TO_ROLES ==
  [t \in 1..3 |-> {IF t = 3 THEN "root" ELSE IF t = 2 THEN "team_lead" ELSE "member"}]
GROUP_ROLE_MAP ==
  [g \in {"Zabbix administrators", "Guests", "Internal"} |->
     IF g = "Zabbix administrators" THEN "root" ELSE "member"]
RoleGroup == DOMAIN GROUP_ROLE_MAP

Team == TeamGroup \cup {NoTeam}
ZUser == [name : Name, form : Form, type : 1..3, group : Team \cup RoleGroup]

\* What an INSERT into team_users supplies, and the row it makes.
NewUser == [name : Name, form : Form, source : Source, roles : SUBSET Role,
            team : Team, restricted : BOOLEAN]
User == [id : Uid, name : Name, form : Form, source : Source,
         roles : SUBSET Role, team : Team, restricted : BOOLEAN]

Job == [op : {"push", "delete"}, name : Name, form : Form,
        roles : SUBSET Role, team : Team]
NoJob == [op |-> "none"]
Proc == Sync \cup Client

ASSUME ConstantsAssumption ==
  /\ Uid \subseteq Nat /\ 1 \in Uid
  /\ RootName \in Name
  /\ DefaultGroup \in TeamGroup
  /\ NoTeam \notin TeamGroup
  /\ RoleGroup \cap Team = {}
  /\ Sync \cap Client = {}
  /\ RoleChoice \subseteq SUBSET Role
  /\ Restriction \subseteq BOOLEAN
  /\ ZabbixUser \subseteq ZUser

VARIABLES
  users,    \* rows of team_users
  teams,    \* names of the rows of teams
  zbx,      \* the user accounts Zabbix holds
  pc,       \* where each full_sync is: idle, fetched, import, prune
  zsnap,    \* the Zabbix users it fetched
  ztodo,    \* those it has not imported yet
  tsnap,    \* the team names it listed (portal_teams)
  usnap,    \* the user rows it listed; while pruning, those it will delete
  pending,  \* a creation past create_user's duplicate check, not inserted yet
  job       \* the Zabbix call a route still owes after its commit

vars == <<users, teams, zbx, pc, zsnap, ztodo, tsnap, usnap, pending, job>>
syncVars == <<pc, zsnap, ztodo, tsnap, usnap>>

-----------------------------------------------------------------------------
(* ROLE MAPPING *)

\* helpers._user_type: the highest Zabbix type any of the roles maps to.
UserType(roles) ==
  CHOOSE t \in 1..3 :
    /\ t = 1 \/ \E r \in roles : ROLE_TO_TYPE[r] = t
    /\ \A r \in roles : ROLE_TO_TYPE[r] <= t

\* The roles the sync derives from a Zabbix user.
ResolvedRoles(z) ==
  IF z.group \in RoleGroup THEN {GROUP_ROLE_MAP[z.group]} ELSE TYPE_TO_ROLES[z.type]

-----------------------------------------------------------------------------
(* THE USERS TABLE *)

\* Seeded bug: the duplicate check compares spellings, as UNIQUE does.
TakenAsSpelled(name) == \E r \in users : r.name = name /\ r.form = "lower"

Taken(name) == \E r \in users : r.name = name
SpelledTaken(n) == \E r \in users : r.name = n.name /\ r.form = n.form

\* A serial key is never given twice.  Keys are only compared for equality, so
\* the smallest one that no row and no copy of a row held by a running sync
\* carries stands for the next.
\* Seeded bug: the sequence is behind the table.
UnusedBehind(u) == \A s \in Sync : \A r \in usnap[s] : r.id # u

Unused(u) ==
  /\ \A r \in users : r.id # u
  /\ \A s \in Sync : \A r \in usnap[s] : r.id # u
FreshUid == {u \in Uid : Unused(u) /\ \A v \in Uid : Unused(v) => u <= v}

WithId(u, n) ==
  [id |-> u, name |-> n.name, form |-> n.form, source |-> n.source,
   roles |-> n.roles, team |-> n.team, restricted |-> n.restricted]

\* UPDATE team_users SET roles, restrictions, team_id WHERE id = u: no row has
\* the id any more when the account was deleted meanwhile.
Edited(u, roles, team, restricted) ==
  {IF r.id = u
     THEN [r EXCEPT !.roles = roles, !.team = team, !.restricted = restricted]
     ELSE r : r \in users}

Init ==
  /\ \E f \in Form :
       users = {[id |-> 1, name |-> RootName, form |-> f, source |-> "local",
                 roles |-> {"root"}, team |-> NoTeam, restricted |-> FALSE]}
  /\ teams = {}
  /\ zbx = {}
  /\ pc = [s \in Sync |-> "idle"]
  /\ zsnap = [s \in Sync |-> {}] /\ ztodo = [s \in Sync |-> {}]
  /\ tsnap = [s \in Sync |-> {}] /\ usnap = [s \in Sync |-> {}]
  /\ pending = [p \in Proc |-> {}]
  /\ job = [c \in Client |-> NoJob]

\* create_user's first statement: the case-insensitive duplicate check.  The
\* INSERT is a second statement; other transactions commit in between.
CheckDuplicate(p, n) ==
  pending' = [pending EXCEPT ![p] = IF Taken(n.name) THEN {} ELSE {n}]

\* create_user's INSERT succeeds.  POST /users goes on to push the account to
\* Zabbix; the login route and the sync do not.
InsertUser(p) ==
  \E n \in pending[p] :
    /\ ~SpelledTaken(n)
    /\ \E u \in FreshUid : users' = users \cup {WithId(u, n)}
    /\ pending' = [pending EXCEPT ![p] = {}]
    /\ job' = IF p \in Client /\ n.source = "local"
                THEN [job EXCEPT ![p] = [op |-> "push", name |-> n.name, form |-> n.form,
                                         roles |-> n.roles, team |-> n.team]]
                ELSE job
    /\ UNCHANGED <<teams, zbx, syncVars>>

\* The INSERT meets UNIQUE(username): create_user rolls back, returns None.
InsertRejected(p) ==
  /\ \E n \in pending[p] : SpelledTaken(n)
  /\ pending' = [pending EXCEPT ![p] = {}]
  /\ UNCHANGED <<users, teams, zbx, syncVars, job>>

-----------------------------------------------------------------------------
(* FULL_SYNC, THE USER PART *)

\* user.get: one snapshot of Zabbix for the whole cycle.  A failing call ends
\* the cycle with nothing changed.
FetchUsers(s) ==
  /\ pc[s] = "idle"
  /\ pc' = [pc EXCEPT ![s] = "fetched"]
  /\ zsnap' = [zsnap EXCEPT ![s] = zbx]
  /\ UNCHANGED <<users, teams, zbx, ztodo, tsnap, usnap, pending, job>>

\* list_teams and list_users at the head of _sync_users_import.
ListInto(s, teamRows, userRows) ==
  /\ pc[s] = "fetched"
  /\ pc' = [pc EXCEPT ![s] = "import"]
  /\ ztodo' = [ztodo EXCEPT ![s] = zsnap[s]]
  /\ tsnap' = [tsnap EXCEPT ![s] = teamRows]
  /\ usnap' = [usnap EXCEPT ![s] = userRows]
  /\ UNCHANGED <<users, teams, zbx, zsnap, pending, job>>

ListPortal(s) == ListInto(s, teams, users)

\* On a database error both functions log it and return an empty list.
ListPortalFails(s) ==
  \/ ListInto(s, {}, users)
  \/ ListInto(s, teams, {})
  \/ ListInto(s, {}, {})

\* portal_users.get(username.lower()): with several rows of one name the dict
\* keeps whichever the ORDER BY puts last.
Known(s, z) == {r \in usnap[s] : r.name = z.name}

\* _get_or_create_team_id: a group missing from the listing is created; when
\* it exists after all, create_team returns None and the user gets no team.
ResolvedTeam(s, z) ==
  IF z.group \in TeamGroup /\ (z.group \in tsnap[s] \/ z.group \notin teams)
    THEN z.group ELSE NoTeam

NextZabbixUser(s, z) ==
  /\ pc[s] = "import"
  /\ pending[s] = {}
  /\ z \in ztodo[s]
  /\ ztodo' = [ztodo EXCEPT ![s] = @ \ {z}]
  /\ teams' = teams \cup ({z.group} \cap TeamGroup)
  /\ tsnap' = [tsnap EXCEPT ![s] = @ \cup ({ResolvedTeam(s, z)} \ {NoTeam})]
  /\ UNCHANGED <<zbx, pc, zsnap, usnap, job>>

\* Accounts that did not come from Zabbix are left alone.
SkipManaged(s) ==
  \E z \in ztodo[s] :
    /\ NextZabbixUser(s, z)
    /\ \E r \in Known(s, z) : r.source # "zabbix"
    /\ UNCHANGED <<users, pending>>

\* _update_existing_zabbix_user compares with the listed row and calls
\* update_user_profile without restrictions, which stores an empty list.
UpdateImported(s) ==
  \E z \in ztodo[s] :
    /\ NextZabbixUser(s, z)
    /\ \E r \in Known(s, z) :
         /\ r.source = "zabbix"
         /\ users' = IF r.roles # ResolvedRoles(z) \/ r.team # ResolvedTeam(s, z)
                       THEN Edited(r.id, ResolvedRoles(z), ResolvedTeam(s, z), FALSE)
                       ELSE users
    /\ UNCHANGED pending

\* _import_new_zabbix_user keeps the spelling Zabbix has.
ImportNew(s) ==
  \E z \in ztodo[s] :
    /\ NextZabbixUser(s, z)
    /\ Known(s, z) = {}
    /\ CheckDuplicate(s, [name |-> z.name, form |-> z.form, source |-> "zabbix",
                          roles |-> ResolvedRoles(z), team |-> ResolvedTeam(s, z),
                          restricted |-> FALSE])
    /\ UNCHANGED users

\* _sync_users_removed lists the table again and picks the rows to delete.
\* Seeded bugs: the source is not looked at; an empty answer prunes nothing.
GoneAnySource(s, r) ==
  "root" \notin r.roles /\ \A z \in zsnap[s] : z.name # r.name
GoneButSome(s, r) ==
  /\ "root" \notin r.roles /\ r.source = "zabbix"
  /\ zsnap[s] # {} /\ \A z \in zsnap[s] : z.name # r.name

GoneFromZabbix(s, r) ==
  /\ "root" \notin r.roles
  /\ r.source = "zabbix"
  /\ \A z \in zsnap[s] : z.name # r.name

PruneInto(s, rows) ==
  /\ pc[s] = "import" /\ ztodo[s] = {} /\ pending[s] = {}
  /\ pc' = [pc EXCEPT ![s] = "prune"]
  /\ usnap' = [usnap EXCEPT ![s] = {r \in rows : GoneFromZabbix(s, r)}]
  /\ UNCHANGED <<users, teams, zbx, zsnap, ztodo, tsnap, pending, job>>

ListForPrune(s) == PruneInto(s, users)
ListForPruneFails(s) == PruneInto(s, {})

\* delete_user by id, whatever the row has become since it was listed.
PruneUser(s) ==
  \E r \in usnap[s] :
    /\ pc[s] = "prune"
    /\ users' = {q \in users : q.id # r.id}
    /\ usnap' = [usnap EXCEPT ![s] = @ \ {r}]
    /\ UNCHANGED <<teams, zbx, pc, zsnap, ztodo, tsnap, pending, job>>

EndSync(s) ==
  /\ pc[s] = "prune" /\ usnap[s] = {}
  /\ pc' = [pc EXCEPT ![s] = "idle"]
  /\ zsnap' = [zsnap EXCEPT ![s] = {}]
  /\ tsnap' = [tsnap EXCEPT ![s] = {}]
  /\ UNCHANGED <<users, teams, zbx, ztodo, usnap, pending, job>>

-----------------------------------------------------------------------------
(* THE ROUTES *)

Idle(c) == pending[c] = {} /\ job[c] = NoJob

\* POST /users by an administrator: stored lowercase.
CreateUser(c) ==
  /\ Idle(c)
  /\ \E n \in Name, roles \in RoleChoice, t \in teams \cup {NoTeam}, x \in Restriction :
       /\ ~Taken(n)
       /\ CheckDuplicate(c, [name |-> n, form |-> "lower", source |-> "local",
                             roles |-> roles, team |-> t, restricted |-> x])
  /\ UNCHANGED <<users, teams, zbx, syncVars, job>>

\* First login of a directory user: no row answers the lookup, LDAP accepts
\* the password, and the account is provisioned as a lowercase operator.
JitLogin(c) ==
  /\ Idle(c)
  /\ \E n \in Name :
       /\ ~Taken(n)
       /\ CheckDuplicate(c, [name |-> n, form |-> "lower", source |-> "ldap",
                             roles |-> {"operator"}, team |-> NoTeam,
                             restricted |-> FALSE])
  /\ UNCHANGED <<users, teams, zbx, syncVars, job>>

\* PUT /users/{id}
UpdateUser(c) ==
  /\ Idle(c)
  /\ \E r \in users, roles \in RoleChoice, t \in teams \cup {NoTeam}, x \in Restriction :
       /\ users' = Edited(r.id, roles, t, x)
       /\ job' = [job EXCEPT ![c] = [op |-> "push", name |-> r.name, form |-> r.form,
                                     roles |-> roles, team |-> t]]
  /\ UNCHANGED <<teams, zbx, syncVars, pending>>

\* DELETE /users/{id}: first the row, then the Zabbix account.
DeleteUser(c) ==
  /\ Idle(c)
  /\ \E r \in users :
       /\ users' = {q \in users : q.id # r.id}
       /\ job' = [job EXCEPT ![c] = [op |-> "delete", name |-> r.name, form |-> r.form,
                                     roles |-> r.roles, team |-> r.team]]
  /\ UNCHANGED <<teams, zbx, syncVars, pending>>

\* POST /teams/{id}/members pushes the user with that team as its only group;
\* the membership table is not part of this module.
AddTeamMember(c) ==
  /\ Idle(c)
  /\ \E r \in users, t \in teams :
       job' = [job EXCEPT ![c] = [op |-> "push", name |-> r.name, form |-> r.form,
                                  roles |-> r.roles, team |-> t]]
  /\ UNCHANGED <<users, teams, zbx, syncVars, pending>>

SameLogin(z, j) == z.name = j.name /\ z.form = j.form

\* push_user: update the account spelled exactly so, or create it.
PushUser(c) ==
  /\ job[c].op = "push"
  /\ LET j == job[c] IN
       zbx' = {z \in zbx : ~SameLogin(z, j)} \cup
              {[name |-> j.name, form |-> j.form, type |-> UserType(j.roles),
                group |-> IF j.team = NoTeam THEN DefaultGroup ELSE j.team]}
  /\ job' = [job EXCEPT ![c] = NoJob]
  /\ UNCHANGED <<users, teams, syncVars, pending>>

\* delete_user of the push mixin, which also looks the login up as spelled.
PushDelete(c) ==
  /\ job[c].op = "delete"
  /\ zbx' = {z \in zbx : ~SameLogin(z, job[c])}
  /\ job' = [job EXCEPT ![c] = NoJob]
  /\ UNCHANGED <<users, teams, syncVars, pending>>

\* Every failure of a push is logged and swallowed: the route still answers OK.
PushFails(c) ==
  /\ job[c] # NoJob
  /\ job' = [job EXCEPT ![c] = NoJob]
  /\ UNCHANGED <<users, teams, zbx, syncVars, pending>>

\* The backend dies and starts again: nothing a thread had in hand survives.
Restart ==
  /\ pc' = [s \in Sync |-> "idle"]
  /\ zsnap' = [s \in Sync |-> {}] /\ ztodo' = [s \in Sync |-> {}]
  /\ tsnap' = [s \in Sync |-> {}] /\ usnap' = [s \in Sync |-> {}]
  /\ pending' = [p \in Proc |-> {}]
  /\ job' = [c \in Client |-> NoJob]
  /\ UNCHANGED <<users, teams, zbx>>

-----------------------------------------------------------------------------
(* ADMINISTRATORS IN ZABBIX *)

\* Add an account, or change the type or the group of one.

ZabbixPut ==
  /\ \E z \in ZabbixUser : zbx' = {y \in zbx : ~SameLogin(y, z)} \cup {z}
  /\ UNCHANGED <<users, teams, syncVars, pending, job>>

ZabbixDelete ==
  /\ \E z \in zbx : zbx' = zbx \ {z}
  /\ UNCHANGED <<users, teams, syncVars, pending, job>>

-----------------------------------------------------------------------------
HealthyStep(s) ==
  \/ FetchUsers(s) \/ ListPortal(s)
  \/ SkipManaged(s) \/ UpdateImported(s) \/ ImportNew(s)
  \/ InsertUser(s) \/ InsertRejected(s)
  \/ ListForPrune(s) \/ PruneUser(s) \/ EndSync(s)

SyncStep(s) == HealthyStep(s) \/ ListPortalFails(s) \/ ListForPruneFails(s)

FinishRequest(c) ==
  \/ InsertUser(c) \/ InsertRejected(c)
  \/ PushUser(c) \/ PushDelete(c) \/ PushFails(c)

NewRequest(c) ==
  \/ CreateUser(c) \/ JitLogin(c) \/ UpdateUser(c) \/ DeleteUser(c) \/ AddTeamMember(c)

Next ==
  \/ \E s \in Sync : SyncStep(s)
  \/ \E c \in Client : NewRequest(c) \/ FinishRequest(c)
  \/ ZabbixPut \/ ZabbixDelete \/ Restart

Spec == Init /\ [][Next]_vars

\* The threads that sync loop for ever, and a request that started is run to
\* its end.
FairSpec ==
  /\ Spec
  /\ \A s \in Sync : WF_vars(HealthyStep(s))
  /\ \A c \in Client : WF_vars(FinishRequest(c))

-----------------------------------------------------------------------------
(* PROPERTIES *)

\* Every variable holds values of its type; in particular keys are unique.
TypeOK ==
  /\ users \subseteq User
  /\ \A r, q \in users : r.id = q.id => r = q
  /\ teams \subseteq TeamGroup
  /\ zbx \subseteq ZUser
  /\ pc \in [Sync -> {"idle", "fetched", "import", "prune"}]
  /\ zsnap \in [Sync -> SUBSET ZUser]
  /\ ztodo \in [Sync -> SUBSET ZUser]
  /\ tsnap \in [Sync -> SUBSET TeamGroup]
  /\ usnap \in [Sync -> SUBSET User]
  /\ pending \in [Proc -> SUBSET NewUser]
  /\ job \in [Client -> Job \cup {NoJob}]

\* Two accounts answer to one login only when Zabbix spelled one of them with
\* capitals: neither two portal requests, nor a request and a login, nor one
\* of them and a sync of a lowercase login can get both rows past
\* create_user's check and the UNIQUE constraint.
DuplicatesComeFromZabbix ==
  \A r, q \in users :
    r.name = q.name /\ r # q =>
      \E x \in {r, q} : x.source = "zabbix" /\ x.form = "mixed"

\* A step in which some full_sync moves on (its INSERTs, which only add rows,
\* are the steps left out).
SyncMoves == syncVars' # syncVars

\* No step of a sync changes or removes an account that did not come from
\* Zabbix, however stale the rows it works from are.
SyncSparesManaged ==
  [][SyncMoves => \A r \in users : r.source # "zabbix" => r \in users']_vars

\* Restrictions are set by administrators of the portal and independent of
\* the roles: no step of a sync lifts them.
RestrictionsKept ==
  [][SyncMoves => \A r \in users, q \in users' :
                    r.id = q.id /\ r.restricted => q.restricted]_vars

\* The account and its Zabbix user are the only ones of their login.
Paired(r, z) ==
  /\ {q \in users : q.name = r.name} = {r}
  /\ {y \in zbx : y.name = r.name} = {z}

\* The portal mirrors Zabbix: every Zabbix login has an account, imported
\* accounts have a Zabbix user unless they are root, and roles and team follow.
Agree ==
  /\ \A z \in zbx : \E r \in users : r.name = z.name
  /\ \A r \in users : r.source = "zabbix" /\ "root" \notin r.roles =>
       \E z \in zbx : z.name = r.name
  /\ \A r \in users, z \in zbx : r.source = "zabbix" /\ Paired(r, z) =>
       /\ r.roles = ResolvedRoles(z)
       /\ r.team = IF z.group \in TeamGroup THEN z.group ELSE NoTeam

\* Once administrators and requests fall silent and the database answers, the
\* syncs, however they overlap, bring the portal to agree with Zabbix and keep
\* it there.  (A failing list_teams takes imported accounts their team until
\* the next good cycle: it must not recur for ever.)
Converges == <>[][\E s \in Sync : HealthyStep(s)]_vars => <>[]Agree
=============================================================================
