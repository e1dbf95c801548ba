--------------------------- MODULE UserSyncProofs ---------------------------
(***************************************************************************)
(* Proofs about UserSync, for any set of threads, logins, keys and teams.  *)
(***************************************************************************)
EXTENDS UserSync, TLAPS

-----------------------------------------------------------------------------
(* LEMMAS ON THE OPERATORS *)

\* Some Zabbix type is the highest the roles map to.
LEMMA UserTypeBound ==
  ASSUME NEW roles \in SUBSET Role
  PROVE  UserType(roles) \in 1..3
<1> DEFINE P(t) == /\ t = 1 \/ \E r \in roles : ROLE_TO_TYPE[r] = t
                   /\ \A r \in roles : ROLE_TO_TYPE[r] <= t
<1>1. \A r \in roles : ROLE_TO_TYPE[r] \in 1..3
  BY DEF ROLE_TO_TYPE, Role
<1>2. \E t \in 1..3 : P(t)
  <2>1. CASE \E r \in roles : ROLE_TO_TYPE[r] = 3
    BY <1>1, <2>1
  <2>2. CASE /\ ~\E r \in roles : ROLE_TO_TYPE[r] = 3
             /\ \E r \in roles : ROLE_TO_TYPE[r] = 2
    BY <1>1, <2>2
  <2>3. CASE ~\E r \in roles : ROLE_TO_TYPE[r] \in {2, 3}
    BY <1>1, <2>3
  <2> QED
    BY <2>1, <2>2, <2>3
<1> QED
  BY <1>2 DEF UserType

\* An UPDATE by key gives rows of the type, each with the key, the login and
\* the source of a row there was; rows of other keys stay as they are.
LEMMA EditedRows ==
  ASSUME users \subseteq User, NEW u, NEW roles \in SUBSET Role, NEW team \in Team,
         NEW x \in BOOLEAN
  PROVE  /\ Edited(u, roles, team, x) \subseteq User
         /\ \A q \in Edited(u, roles, team, x) : \E r \in users :
              q.id = r.id /\ q.name = r.name /\ q.form = r.form /\ q.source = r.source
         /\ \A r \in users : r.id # u => r \in Edited(u, roles, team, x)
<1> DEFINE E(r) == IF r.id = u THEN [r EXCEPT !.roles = roles, !.team = team,
                                              !.restricted = x] ELSE r
<1>1. Edited(u, roles, team, x) = {E(r) : r \in users}
  BY DEF Edited
<1>2. \A r \in users : /\ E(r) \in User /\ E(r).id = r.id /\ E(r).name = r.name
                       /\ E(r).form = r.form /\ E(r).source = r.source
                       /\ r.id # u => E(r) = r
  BY DEF User
<1> HIDE DEF E
<1> QED
  BY <1>1, <1>2

\* An UPDATE by key keeps keys unique.
LEMMA EditedKeys ==
  ASSUME users \subseteq User, NEW u, NEW roles \in SUBSET Role, NEW team \in Team,
         NEW x \in BOOLEAN, \A r, q \in users : r.id = q.id => r = q
  PROVE  \A r, q \in Edited(u, roles, team, x) : r.id = q.id => r = q
<1> DEFINE E(r) == IF r.id = u THEN [r EXCEPT !.roles = roles, !.team = team,
                                              !.restricted = x] ELSE r
<1>1. Edited(u, roles, team, x) = {E(r) : r \in users}
  BY DEF Edited
<1>2. \A r \in users : E(r).id = r.id
  BY DEF User
<1> HIDE DEF E
<1> QED
  BY <1>1, <1>2

\* The roles and the team the sync derives are roles and a team.
LEMMA Resolved ==
  ASSUME ConstantsAssumption, NEW s, NEW z \in ZUser
  PROVE  ResolvedRoles(z) \in SUBSET Role /\ ResolvedTeam(s, z) \in Team
<1>1. ResolvedRoles(z) \in SUBSET Role
  BY DEF ResolvedRoles, RoleGroup, GROUP_ROLE_MAP, TYPE_TO_ROLES, Role, ZUser
<1>2. ResolvedTeam(s, z) \in Team
  BY DEF ResolvedTeam, Team
<1> QED
  BY <1>1, <1>2

\* A row made of a new row and a key.
LEMMA WithIdUser ==
  ASSUME NEW u \in Uid, NEW n \in NewUser
  PROVE  /\ WithId(u, n) \in User /\ WithId(u, n).id = u
         /\ WithId(u, n).name = n.name /\ WithId(u, n).form = n.form
         /\ WithId(u, n).source = n.source
BY DEF WithId, User, NewUser

-----------------------------------------------------------------------------
(* TYPES AND KEYS *)

LEMMA InitType == ConstantsAssumption /\ Init => TypeOK
BY DEF ConstantsAssumption, Init, TypeOK, User, Form, Source, Role, Team, Job, Proc

\* Every case in which users, zbx and the requests are as before.
LEMMA SyncReadsType ==
  ASSUME TypeOK, NEW s \in Sync,
         \/ FetchUsers(s) \/ ListPortal(s) \/ ListPortalFails(s) \/ SkipManaged(s)
         \/ ListForPrune(s) \/ ListForPruneFails(s) \/ EndSync(s)
  PROVE  TypeOK'
<1>1. CASE FetchUsers(s)
  BY <1>1 DEF TypeOK, FetchUsers
<1>2. CASE ListPortal(s) \/ ListPortalFails(s)
  BY <1>2 DEF TypeOK, ListPortal, ListPortalFails, ListInto
<1>3. CASE SkipManaged(s)
  <2>1. PICK z \in ztodo[s] : NextZabbixUser(s, z) /\ UNCHANGED <<users, pending>>
    BY <1>3 DEF SkipManaged
  <2>2. ResolvedTeam(s, z) \in TeamGroup \cup {NoTeam}
    BY DEF ResolvedTeam
  <2> QED
    BY <2>1, <2>2 DEF TypeOK, NextZabbixUser
<1>4. CASE ListForPrune(s) \/ ListForPruneFails(s)
  BY <1>4 DEF TypeOK, ListForPrune, ListForPruneFails, PruneInto
<1>5. CASE EndSync(s)
  BY <1>5 DEF TypeOK, EndSync
<1> QED
  BY <1>1, <1>2, <1>3, <1>4, <1>5

\* The steps of a sync that write accounts, or are about to.
LEMMA SyncWritesType ==
  ASSUME ConstantsAssumption, TypeOK, NEW s \in Sync,
         UpdateImported(s) \/ ImportNew(s) \/ PruneUser(s)
  PROVE  TypeOK'
<1>1. CASE UpdateImported(s)
  <2>1. PICK z \in ztodo[s] :
          /\ NextZabbixUser(s, z)
          /\ UNCHANGED pending
          /\ \/ UNCHANGED users
             \/ \E u : users' = Edited(u, ResolvedRoles(z), ResolvedTeam(s, z), FALSE)
    BY <1>1 DEF UpdateImported
  <2>2. z \in ZUser
    BY DEF TypeOK
  <2>3. ResolvedRoles(z) \in SUBSET Role /\ ResolvedTeam(s, z) \in TeamGroup \cup {NoTeam}
    BY <2>2, Resolved DEF Team
  <2>4. users' \subseteq User /\ \A q1, q2 \in users' : q1.id = q2.id => q1 = q2
    <3>1. CASE UNCHANGED users
      BY <3>1 DEF TypeOK
    <3>2. CASE \E u : users' = Edited(u, ResolvedRoles(z), ResolvedTeam(s, z), FALSE)
      <4>1. PICK u : users' = Edited(u, ResolvedRoles(z), ResolvedTeam(s, z), FALSE)
        BY <3>2
      <4>2. PICK roles \in SUBSET Role, team \in Team, x \in BOOLEAN :
              users' = Edited(u, roles, team, x)
        BY <2>3, <4>1 DEF Team
      <4>3. users \subseteq User /\ \A r, q \in users : r.id = q.id => r = q
        BY DEF TypeOK
      <4>4. /\ Edited(u, roles, team, x) \subseteq User
            /\ \A r, q \in Edited(u, roles, team, x) : r.id = q.id => r = q
        BY <4>3, EditedRows, EditedKeys
      <4> QED
        BY <4>2, <4>4
    <3> QED
      BY <2>1, <3>1, <3>2
  <2>5. UNCHANGED pending /\ NextZabbixUser(s, z)
    BY <2>1
  <2> QED
    BY <2>3, <2>4, <2>5 DEF TypeOK, NextZabbixUser
<1>2. CASE ImportNew(s)
  <2>1. PICK z \in ztodo[s] :
          /\ NextZabbixUser(s, z)
          /\ CheckDuplicate(s, [name |-> z.name, form |-> z.form, source |-> "zabbix",
                          roles |-> ResolvedRoles(z), team |-> ResolvedTeam(s, z),
                          restricted |-> FALSE])
          /\ UNCHANGED users
    BY <1>2 DEF ImportNew
  <2>2. z \in ZUser
    BY DEF TypeOK
  <2>3. ResolvedRoles(z) \in SUBSET Role /\ ResolvedTeam(s, z) \in TeamGroup \cup {NoTeam}
    BY <2>2, Resolved DEF Team
  <2>4. [name |-> z.name, form |-> z.form, source |-> "zabbix",
         roles |-> ResolvedRoles(z), team |-> ResolvedTeam(s, z),
         restricted |-> FALSE] \in NewUser
    BY <2>2, <2>3 DEF NewUser, ZUser, Source, Team
  <2>5. pending' \in [Proc -> SUBSET NewUser]
    BY <2>1, <2>4 DEF CheckDuplicate, TypeOK
  <2> QED
    BY <2>1, <2>3, <2>5 DEF TypeOK, NextZabbixUser
<1>3. CASE PruneUser(s)
  BY <1>3 DEF TypeOK, PruneUser
<1> QED
  BY <1>1, <1>2, <1>3

\* INSERT, accepted or rejected, by a sync or a request.
LEMMA InsertType ==
  ASSUME ConstantsAssumption, TypeOK, NEW p \in Proc, InsertUser(p) \/ InsertRejected(p)
  PROVE  TypeOK'
<1>1. CASE InsertUser(p)
  <2>1. PICK n \in pending[p], u \in FreshUid :
          /\ users' = users \cup {WithId(u, n)}
          /\ pending' = [pending EXCEPT ![p] = {}]
          /\ job' = IF p \in Client /\ n.source = "local"
                      THEN [job EXCEPT ![p] = [op |-> "push", name |-> n.name,
                              form |-> n.form, roles |-> n.roles, team |-> n.team]]
                      ELSE job
          /\ UNCHANGED <<teams, zbx, syncVars>>
    BY <1>1 DEF InsertUser
  <2>2. n \in NewUser
    BY DEF TypeOK
  <2>3. users' \subseteq User /\ \A q1, q2 \in users' : q1.id = q2.id => q1 = q2
    BY <2>1, <2>2, WithIdUser DEF TypeOK, FreshUid, Unused
  <2>4. job' \in [Client -> Job \cup {NoJob}]
    BY <2>1, <2>2 DEF TypeOK, Job, NewUser
  <2> QED
    BY <2>1, <2>3, <2>4 DEF TypeOK, syncVars
<1>2. CASE InsertRejected(p)
  BY <1>2 DEF TypeOK, InsertRejected, syncVars
<1> QED
  BY <1>1, <1>2

LEMMA RequestType ==
  ASSUME ConstantsAssumption, TypeOK, NEW c \in Client, NewRequest(c)
  PROVE  TypeOK'
<1>0. teams \cup {NoTeam} \subseteq Team /\ Restriction \subseteq BOOLEAN
  BY DEF TypeOK, Team, ConstantsAssumption
<1>1. CASE CreateUser(c) \/ JitLogin(c)
  <2>1. PICK n \in NewUser : CheckDuplicate(c, n)
    <3>1. CASE CreateUser(c)
      BY <1>0, <3>1 DEF CreateUser, NewUser, Form, Source, ConstantsAssumption
    <3>2. CASE JitLogin(c)
      BY <3>2 DEF JitLogin, NewUser, Form, Source, Role, Team
    <3> QED
      BY <1>1, <3>1, <3>2
  <2>2. pending' \in [Proc -> SUBSET NewUser]
    BY <2>1 DEF CheckDuplicate, TypeOK
  <2>3. UNCHANGED <<users, teams, zbx, syncVars, job>>
    BY <1>1 DEF CreateUser, JitLogin
  <2> QED
    BY <2>2, <2>3 DEF TypeOK, syncVars
<1>2. CASE UpdateUser(c)
  <2>1. PICK r \in users, roles \in RoleChoice, t \in teams \cup {NoTeam}, x \in Restriction :
          /\ users' = Edited(r.id, roles, t, x)
          /\ job' = [job EXCEPT ![c] = [op |-> "push", name |-> r.name, form |-> r.form,
                                        roles |-> roles, team |-> t]]
    BY <1>2 DEF UpdateUser
  <2>2. roles \in SUBSET Role /\ t \in Team /\ x \in BOOLEAN /\ r \in User
    BY <1>0, <2>1 DEF ConstantsAssumption, TypeOK
  <2>3. users \subseteq User /\ \A q1, q2 \in users : q1.id = q2.id => q1 = q2
    BY DEF TypeOK
  <2>4. users' \subseteq User /\ \A q1, q2 \in users' : q1.id = q2.id => q1 = q2
    BY <2>1, <2>2, <2>3, EditedRows, EditedKeys
  <2>5. job' \in [Client -> Job \cup {NoJob}]
    BY <2>1, <2>2 DEF TypeOK, Job, User
  <2>6. UNCHANGED <<teams, zbx, syncVars, pending>>
    BY <1>2 DEF UpdateUser
  <2> QED
    BY <2>4, <2>5, <2>6 DEF TypeOK, syncVars
<1>3. CASE DeleteUser(c) \/ AddTeamMember(c)
  <2>1. job' \in [Client -> Job \cup {NoJob}]
    BY <1>0, <1>3 DEF DeleteUser, AddTeamMember, TypeOK, Job, User
  <2>2. users' \subseteq users /\ UNCHANGED <<teams, zbx, syncVars, pending>>
    BY <1>3 DEF DeleteUser, AddTeamMember
  <2> QED
    BY <2>1, <2>2 DEF TypeOK, syncVars
<1> QED
  BY <1>1, <1>2, <1>3 DEF NewRequest

LEMMA ZabbixType ==
  ASSUME ConstantsAssumption, TypeOK,
         \/ \E c \in Client : PushUser(c) \/ PushDelete(c) \/ PushFails(c)
         \/ ZabbixPut \/ ZabbixDelete
  PROVE  TypeOK'
<1>1. ASSUME NEW c \in Client, PushUser(c) PROVE TypeOK'
  <2>1. job[c] \in Job
    BY <1>1 DEF PushUser, TypeOK, NoJob
  <2>2. UserType(job[c].roles) \in 1..3
    BY <2>1, UserTypeBound DEF Job
  <2>3. (IF job[c].team = NoTeam THEN DefaultGroup ELSE job[c].team) \in Team
    BY <2>1 DEF Job, Team, ConstantsAssumption
  <2>4. zbx' \subseteq ZUser
    BY <1>1, <2>1, <2>2, <2>3 DEF PushUser, TypeOK, ZUser, Job
  <2>5. job' \in [Client -> Job \cup {NoJob}] /\ UNCHANGED <<users, teams, syncVars, pending>>
    BY <1>1 DEF PushUser, TypeOK
  <2> QED
    BY <2>4, <2>5 DEF TypeOK, syncVars
<1>2. ASSUME NEW c \in Client, PushDelete(c) \/ PushFails(c) PROVE TypeOK'
  BY <1>2 DEF PushDelete, PushFails, TypeOK, syncVars
<1>3. CASE ZabbixPut \/ ZabbixDelete
  BY <1>3 DEF ZabbixPut, ZabbixDelete, TypeOK, syncVars, ConstantsAssumption
<1> QED
  BY <1>1, <1>2, <1>3

LEMMA RestartType == TypeOK /\ Restart => TypeOK'
BY DEF TypeOK, Restart

LEMMA NextType == ConstantsAssumption /\ TypeOK /\ [Next]_vars => TypeOK'
<1> SUFFICES ASSUME ConstantsAssumption, TypeOK, [Next]_vars PROVE TypeOK'
  OBVIOUS
<1>1. ASSUME NEW s \in Sync, SyncStep(s) PROVE TypeOK'
  BY <1>1, SyncReadsType, SyncWritesType, InsertType DEF SyncStep, HealthyStep, Proc
<1>2. ASSUME NEW c \in Client, NewRequest(c) \/ FinishRequest(c) PROVE TypeOK'
  BY <1>2, RequestType, InsertType, ZabbixType DEF FinishRequest, Proc
<1>3. CASE ZabbixPut \/ ZabbixDelete \/ Restart
  BY <1>3, ZabbixType, RestartType
<1>4. CASE UNCHANGED vars
  BY <1>4 DEF vars, TypeOK
<1> QED
  BY <1>1, <1>2, <1>3, <1>4 DEF Next

\* The rows, the copies of rows and the calls under way keep their types, and
\* no two accounts share a key.
THEOREM TypeCorrect == Spec => []TypeOK
<1>1. Init => TypeOK
  BY ConstantsAssumption, InitType
<1>2. TypeOK /\ [Next]_vars => TypeOK'
  BY ConstantsAssumption, NextType
<1> QED
  BY <1>1, <1>2, PTL DEF Spec

-----------------------------------------------------------------------------
(* THE SYNC SPARES ACCOUNTS THAT ARE NOT FROM ZABBIX *)

\* What a sync holds of a row is stale, but never wrong about its source: a
\* source is written once and a key is never given again.
SnapshotSources ==
  \A s \in Sync : \A r \in usnap[s], q \in users : r.id = q.id => r.source = q.source

\* Rows picked for removal came from Zabbix.
PickedFromZabbix ==
  \A s \in Sync : pc[s] = "prune" => \A r \in usnap[s] : r.source = "zabbix"

SpareInv == TypeOK /\ SnapshotSources /\ PickedFromZabbix

\* Steps that leave the copies alone and write rows only by key, or insert
\* rows whose key no copy has, keep both.
LEMMA SpareRows ==
  ASSUME SnapshotSources, PickedFromZabbix, usnap' = usnap, pc' = pc,
         \A q \in users' : \/ \E r \in users : q.id = r.id /\ q.source = r.source
                          \/ \A s \in Sync : \A r \in usnap[s] : r.id # q.id
  PROVE  SnapshotSources' /\ PickedFromZabbix'
BY DEF SnapshotSources, PickedFromZabbix

\* A row written by key has the key and the source of the row there was.
LEMMA EditedSources ==
  ASSUME users \subseteq User, NEW u, NEW roles \in SUBSET Role, NEW team \in Team,
         NEW x \in BOOLEAN
  PROVE  \A q \in Edited(u, roles, team, x) : \E r \in users :
           q.id = r.id /\ q.source = r.source
BY EditedRows

LEMMA SpareSync ==
  ASSUME ConstantsAssumption, SpareInv, NEW s \in Sync,
         \/ FetchUsers(s) \/ ListPortal(s) \/ ListPortalFails(s) \/ SkipManaged(s)
         \/ ImportNew(s) \/ PruneUser(s)
         \/ ListForPrune(s) \/ ListForPruneFails(s) \/ EndSync(s)
  PROVE  SnapshotSources' /\ PickedFromZabbix'
<1> USE DEF SpareInv
<1>1. CASE FetchUsers(s) \/ EndSync(s)
  BY <1>1 DEF FetchUsers, EndSync, SnapshotSources, PickedFromZabbix, TypeOK
<1>2. CASE ListPortal(s) \/ ListPortalFails(s)
  <2>1. PICK rows \in SUBSET users : /\ pc' = [pc EXCEPT ![s] = "import"]
                                     /\ usnap' = [usnap EXCEPT ![s] = rows]
                                     /\ users' = users
    BY <1>2 DEF ListPortal, ListPortalFails, ListInto
  <2> QED
    BY <2>1 DEF SnapshotSources, PickedFromZabbix, TypeOK
<1>3. CASE SkipManaged(s) \/ ImportNew(s)
  BY <1>3, SpareRows DEF SkipManaged, ImportNew, NextZabbixUser
<1>4. CASE ListForPrune(s) \/ ListForPruneFails(s)
  <2>1. PICK rows \in SUBSET users :
          /\ pc' = [pc EXCEPT ![s] = "prune"]
          /\ usnap' = [usnap EXCEPT ![s] = rows]
          /\ \A r \in rows : r.source = "zabbix"
          /\ users' = users
    BY <1>4 DEF ListForPrune, ListForPruneFails, PruneInto, GoneFromZabbix
  <2> QED
    BY <2>1 DEF SnapshotSources, PickedFromZabbix, TypeOK
<1>5. CASE PruneUser(s)
  BY <1>5 DEF PruneUser, SnapshotSources, PickedFromZabbix, TypeOK
<1> QED
  BY <1>1, <1>2, <1>3, <1>4, <1>5

LEMMA SpareWrites ==
  ASSUME ConstantsAssumption, SpareInv,
         \/ \E s \in Sync : UpdateImported(s)
         \/ \E p \in Proc : InsertUser(p) \/ InsertRejected(p)
         \/ \E c \in Client : UpdateUser(c)
  PROVE  SnapshotSources' /\ PickedFromZabbix'
<1> USE DEF SpareInv
<1>1. ASSUME NEW s \in Sync, UpdateImported(s)
      PROVE  SnapshotSources' /\ PickedFromZabbix'
  <2>1. PICK z \in ztodo[s] :
          /\ NextZabbixUser(s, z)
          /\ \/ UNCHANGED users
             \/ \E u : users' = Edited(u, ResolvedRoles(z), ResolvedTeam(s, z), FALSE)
    BY <1>1 DEF UpdateImported
  <2>2. ResolvedRoles(z) \in SUBSET Role /\ ResolvedTeam(s, z) \in Team
    BY Resolved DEF TypeOK
  <2>3. \A q \in users' : \E r \in users : q.id = r.id /\ q.source = r.source
    <3>1. CASE UNCHANGED users
      BY <3>1
    <3>2. CASE \E u : users' = Edited(u, ResolvedRoles(z), ResolvedTeam(s, z), FALSE)
      <4>1. PICK u : users' = Edited(u, ResolvedRoles(z), ResolvedTeam(s, z), FALSE)
        BY <3>2
      <4>2. PICK roles \in SUBSET Role, team \in Team, x \in BOOLEAN :
              users' = Edited(u, roles, team, x)
        BY <2>2, <4>1
      <4> QED
        BY <4>2, EditedSources DEF TypeOK
    <3> QED
      BY <2>1, <3>1, <3>2
  <2>4. usnap' = usnap /\ pc' = pc
    BY <2>1 DEF NextZabbixUser
  <2> QED
    BY <2>3, <2>4, SpareRows
<1>2. ASSUME NEW p \in Proc, InsertUser(p)
      PROVE  SnapshotSources' /\ PickedFromZabbix'
  <2>1. PICK n \in pending[p], u \in FreshUid : users' = users \cup {WithId(u, n)}
    BY <1>2 DEF InsertUser
  <2>2. n \in NewUser
    BY DEF TypeOK
  <2>3. WithId(u, n).id = u /\ \A s \in Sync : \A r \in usnap[s] : r.id # u
    BY <2>2, WithIdUser DEF FreshUid, Unused
  <2>4. usnap' = usnap /\ pc' = pc
    BY <1>2 DEF InsertUser, syncVars
  <2> QED
    BY <2>1, <2>3, <2>4, SpareRows
<1>3. ASSUME NEW p \in Proc, InsertRejected(p)
      PROVE  SnapshotSources' /\ PickedFromZabbix'
  BY <1>3, SpareRows DEF InsertRejected, syncVars
<1>4. ASSUME NEW c \in Client, UpdateUser(c)
      PROVE  SnapshotSources' /\ PickedFromZabbix'
  <2>1. PICK r \in users, roles \in SUBSET Role, team \in Team, x \in BOOLEAN :
          users' = Edited(r.id, roles, team, x)
    BY <1>4 DEF UpdateUser, TypeOK, Team, ConstantsAssumption
  <2>2. \A q \in users' : \E old \in users : q.id = old.id /\ q.source = old.source
    BY <2>1, EditedSources DEF TypeOK
  <2> QED
    BY <1>4, <2>2, SpareRows DEF UpdateUser, syncVars
<1> QED
  BY <1>1, <1>2, <1>3, <1>4

LEMMA SpareStep == ConstantsAssumption /\ SpareInv /\ [Next]_vars => SpareInv'
<1> SUFFICES ASSUME ConstantsAssumption, SpareInv, [Next]_vars PROVE SpareInv'
  OBVIOUS
<1>1. TypeOK'
  BY NextType DEF SpareInv
<1>2. ASSUME NEW s \in Sync, SyncStep(s) PROVE SnapshotSources' /\ PickedFromZabbix'
  BY <1>2, SpareSync, SpareWrites DEF SyncStep, HealthyStep, Proc
<1>3. ASSUME NEW c \in Client, UpdateUser(c) \/ InsertUser(c) \/ InsertRejected(c)
      PROVE  SnapshotSources' /\ PickedFromZabbix'
  BY <1>3, SpareWrites DEF Proc
<1>4. ASSUME \/ UNCHANGED vars
             \/ ZabbixPut \/ ZabbixDelete
             \/ \E c \in Client : \/ CreateUser(c) \/ JitLogin(c) \/ DeleteUser(c)
                                 \/ AddTeamMember(c) \/ PushUser(c) \/ PushDelete(c)
                                 \/ PushFails(c)
      PROVE  SnapshotSources' /\ PickedFromZabbix'
  <2>1. users' \subseteq users /\ UNCHANGED syncVars
    BY <1>4 DEF vars, syncVars, ZabbixPut, ZabbixDelete, CreateUser, JitLogin, DeleteUser,
                AddTeamMember, PushUser, PushDelete, PushFails
  <2> QED
    BY <2>1, SpareRows DEF SpareInv, syncVars
<1>5. ASSUME Restart PROVE SnapshotSources' /\ PickedFromZabbix'
  BY <1>5 DEF Restart, SnapshotSources, PickedFromZabbix
<1>6. SnapshotSources' /\ PickedFromZabbix'
  BY <1>2, <1>3, <1>4, <1>5 DEF Next, NewRequest, FinishRequest
<1> QED
  BY <1>1, <1>6 DEF SpareInv

\* However stale what it works from, no step of a full_sync removes or changes
\* an account that did not come from Zabbix.
THEOREM SyncSparesManagedAlways == Spec => SyncSparesManaged
<1>1. Init => SpareInv
  BY ConstantsAssumption, InitType DEF Init, SpareInv, SnapshotSources, PickedFromZabbix
<1>2. SpareInv /\ [Next]_vars => SpareInv'
  BY ConstantsAssumption, SpareStep
<1>3. SpareInv /\ [Next]_vars =>
        [SyncMoves => \A r \in users : r.source # "zabbix" => r \in users']_vars
  <2> SUFFICES ASSUME SpareInv, Next, SyncMoves, NEW r \in users, r.source # "zabbix"
               PROVE  r \in users'
    BY DEF vars
  <2>1. ASSUME NEW s \in Sync, UpdateImported(s) PROVE r \in users'
    <3>1. PICK z \in ztodo[s] : \E q \in usnap[s] :
            /\ q.source = "zabbix"
            /\ \/ users' = users
               \/ users' = Edited(q.id, ResolvedRoles(z), ResolvedTeam(s, z), FALSE)
      BY <2>1 DEF UpdateImported, Known
    <3>2. PICK q \in usnap[s] :
            /\ q.source = "zabbix"
            /\ \/ users' = users
               \/ users' = Edited(q.id, ResolvedRoles(z), ResolvedTeam(s, z), FALSE)
      BY <3>1
    <3>3. r.id # q.id
      BY <3>2 DEF SpareInv, SnapshotSources
    <3> QED
      BY <3>2, <3>3 DEF Edited
  <2>2. ASSUME NEW s \in Sync, PruneUser(s) PROVE r \in users'
    BY <2>2 DEF PruneUser, SpareInv, SnapshotSources, PickedFromZabbix
  <2>3. ASSUME NEW s \in Sync,
               \/ FetchUsers(s) \/ ListPortal(s) \/ ListPortalFails(s) \/ SkipManaged(s)
               \/ ImportNew(s) \/ InsertUser(s) \/ InsertRejected(s)
               \/ ListForPrune(s) \/ ListForPruneFails(s) \/ EndSync(s)
        PROVE  r \in users'
    BY <2>3 DEF FetchUsers, ListPortal, ListPortalFails, ListInto, SkipManaged, ImportNew,
                NextZabbixUser, InsertUser, InsertRejected, ListForPrune,
                ListForPruneFails, PruneInto, EndSync
  <2>4. ASSUME NEW c \in Client, NewRequest(c) \/ FinishRequest(c) PROVE r \in users'
    BY <2>4 DEF NewRequest, FinishRequest, CreateUser, JitLogin, UpdateUser, DeleteUser,
                AddTeamMember, InsertUser, InsertRejected, PushUser, PushDelete, PushFails,
                SyncMoves
  <2>5. CASE ZabbixPut \/ ZabbixDelete \/ Restart
    BY <2>5 DEF ZabbixPut, ZabbixDelete, Restart
  <2> QED
    BY <2>1, <2>2, <2>3, <2>4, <2>5 DEF Next, SyncStep, HealthyStep
<1> QED
  BY <1>1, <1>2, <1>3, PTL DEF Spec, SyncSparesManaged

-----------------------------------------------------------------------------
(* DUPLICATE LOGINS *)

\* Only an import spells a login with capitals; the seeded account may too,
\* and whoever has a name like its own in hand was refused by the check.
MixedPending ==
  \A p \in Proc : \A n \in pending[p] : n.form = "mixed" => n.source = "zabbix"
SeededAlone ==
  \A r \in users : r.form = "mixed" /\ r.source # "zabbix" =>
    \A p \in Proc : \A n \in pending[p] : n.name # r.name

DuplicateInv == TypeOK /\ MixedPending /\ SeededAlone /\ DuplicatesComeFromZabbix

\* Rows keep key, login and source, and no creation is under way that was not.
LEMMA DuplicateRows ==
  ASSUME MixedPending, SeededAlone, DuplicatesComeFromZabbix,
         \A r, q \in users : r.id = q.id => r = q,
         \A r, q \in users' : r.id = q.id => r = q,
         \A p \in Proc : pending'[p] \subseteq pending[p],
         \A q \in users' : \E r \in users :
           q.id = r.id /\ q.name = r.name /\ q.form = r.form /\ q.source = r.source
  PROVE  MixedPending' /\ SeededAlone' /\ DuplicatesComeFromZabbix'
<1>1. MixedPending' /\ SeededAlone'
  BY DEF MixedPending, SeededAlone
<1>2. ASSUME NEW r \in users', NEW q \in users', r.name = q.name, r # q
      PROVE  \E x \in {r, q} : x.source = "zabbix" /\ x.form = "mixed"
  <2>1. PICK r0 \in users : r.id = r0.id /\ r.name = r0.name /\ r.form = r0.form
                            /\ r.source = r0.source
    OBVIOUS
  <2>2. PICK q0 \in users : q.id = q0.id /\ q.name = q0.name /\ q.form = q0.form
                            /\ q.source = q0.source
    OBVIOUS
  <2>3. r.id # q.id
    BY <1>2
  <2>4. r0 # q0 /\ r0.name = q0.name
    BY <1>2, <2>1, <2>2, <2>3
  <2> QED
    BY <2>1, <2>2, <2>4 DEF DuplicatesComeFromZabbix
<1> QED
  BY <1>1, <1>2 DEF DuplicatesComeFromZabbix

\* A creation that passed the check: lowercase unless it is an import.
LEMMA DuplicateCheck ==
  ASSUME TypeOK, MixedPending, SeededAlone, DuplicatesComeFromZabbix,
         NEW p \in Proc, NEW n, CheckDuplicate(p, n), users' = users,
         n.form = "mixed" => n.source = "zabbix"
  PROVE  MixedPending' /\ SeededAlone' /\ DuplicatesComeFromZabbix'
<1>1. \A o \in Proc : \A m \in pending'[o] : m \in pending[o] \/ (m = n /\ ~Taken(n.name))
  BY DEF CheckDuplicate, TypeOK
<1>2. MixedPending'
  BY <1>1 DEF MixedPending
<1>3. SeededAlone'
  BY <1>1 DEF SeededAlone, Taken
<1> QED
  BY <1>2, <1>3 DEF DuplicatesComeFromZabbix

LEMMA DuplicateInsert ==
  ASSUME DuplicateInv, NEW p \in Proc, InsertUser(p)
  PROVE  MixedPending' /\ SeededAlone' /\ DuplicatesComeFromZabbix'
<1> USE DEF DuplicateInv
<1>1. PICK n \in pending[p], u \in FreshUid :
        /\ ~SpelledTaken(n)
        /\ users' = users \cup {WithId(u, n)}
        /\ pending' = [pending EXCEPT ![p] = {}]
  BY DEF InsertUser
<1> DEFINE w == WithId(u, n)
<1>2. n \in NewUser
  BY DEF TypeOK
<1>3. w.name = n.name /\ w.form = n.form /\ w.source = n.source
  BY <1>2, WithIdUser DEF FreshUid
<1>4. \A o \in Proc : pending'[o] \subseteq pending[o]
  BY <1>1 DEF TypeOK
<1>5. n.form = "mixed" => n.source = "zabbix"
  BY DEF MixedPending
<1> HIDE DEF w
<1>6. MixedPending' /\ SeededAlone'
  BY <1>1, <1>3, <1>4, <1>5 DEF MixedPending, SeededAlone, w
<1>7. ASSUME NEW r \in users, r.name = w.name
      PROVE  \E x \in {r, w} : x.source = "zabbix" /\ x.form = "mixed"
  <2>1. r.form # w.form /\ r.form \in Form /\ w.form \in Form
    BY <1>1, <1>2, <1>3, <1>7 DEF SpelledTaken, TypeOK, User, NewUser
  <2>2. CASE w.form = "mixed"
    BY <1>3, <1>5, <2>2
  <2>3. CASE r.form = "mixed"
    BY <1>3, <1>7, <2>3 DEF SeededAlone
  <2> QED
    BY <2>1, <2>2, <2>3 DEF Form
<1>8. users' = users \cup {w}
  BY <1>1 DEF w
<1>9. DuplicatesComeFromZabbix'
  BY <1>7, <1>8 DEF DuplicatesComeFromZabbix
<1> QED
  BY <1>6, <1>9

LEMMA DuplicateStep == ConstantsAssumption /\ DuplicateInv /\ [Next]_vars => DuplicateInv'
<1> SUFFICES ASSUME ConstantsAssumption, DuplicateInv, [Next]_vars PROVE DuplicateInv'
  OBVIOUS
<1> DEFINE Goal == MixedPending /\ SeededAlone /\ DuplicatesComeFromZabbix
<1>1. TypeOK'
  BY NextType DEF DuplicateInv
<1>2. \A r, q \in users : r.id = q.id => r = q
  BY DEF DuplicateInv, TypeOK
<1>3. \A r, q \in users' : r.id = q.id => r = q
  BY <1>1 DEF TypeOK
<1>4. ASSUME \A p \in Proc : pending'[p] \subseteq pending[p],
             \A q \in users' : \E r \in users :
               q.id = r.id /\ q.name = r.name /\ q.form = r.form /\ q.source = r.source
      PROVE  Goal'
  BY <1>2, <1>3, <1>4, DuplicateRows DEF DuplicateInv
<1>5. ASSUME NEW s \in Sync, UpdateImported(s) PROVE Goal'
  <2>1. PICK z \in ztodo[s] :
          /\ UNCHANGED pending
          /\ \/ UNCHANGED users
             \/ \E u : users' = Edited(u, ResolvedRoles(z), ResolvedTeam(s, z), FALSE)
    BY <1>5 DEF UpdateImported
  <2>2. ResolvedRoles(z) \in SUBSET Role /\ ResolvedTeam(s, z) \in Team
    BY Resolved DEF DuplicateInv, TypeOK
  <2>3. CASE UNCHANGED users
    BY <1>4, <2>1, <2>3
  <2>4. CASE \E u : users' = Edited(u, ResolvedRoles(z), ResolvedTeam(s, z), FALSE)
    <3>1. PICK u : users' = Edited(u, ResolvedRoles(z), ResolvedTeam(s, z), FALSE)
      BY <2>4
    <3>2. PICK roles \in SUBSET Role, team \in Team, x \in BOOLEAN :
            users' = Edited(u, roles, team, x)
      BY <2>2, <3>1
    <3>3. users \subseteq User
      BY DEF DuplicateInv, TypeOK
    <3>4. \A q \in users' : \E r \in users :
            q.id = r.id /\ q.name = r.name /\ q.form = r.form /\ q.source = r.source
      BY <3>2, <3>3, EditedRows
    <3> QED
      BY <1>4, <2>1, <3>4
  <2> QED
    BY <2>1, <2>3, <2>4
<1>6. ASSUME NEW s \in Sync, ImportNew(s) PROVE Goal'
  <2>1. PICK z \in ztodo[s] :
          /\ CheckDuplicate(s, [name |-> z.name, form |-> z.form, source |-> "zabbix",
                          roles |-> ResolvedRoles(z), team |-> ResolvedTeam(s, z),
                          restricted |-> FALSE])
          /\ UNCHANGED users
    BY <1>6 DEF ImportNew
  <2> QED
    BY <2>1, DuplicateCheck DEF DuplicateInv, Proc
<1>7. ASSUME NEW p \in Proc, InsertUser(p) PROVE Goal'
  BY <1>7, DuplicateInsert
<1>8. ASSUME NEW c \in Client, CreateUser(c) \/ JitLogin(c) PROVE Goal'
  <2>1. \E n : CheckDuplicate(c, n) /\ n.form = "lower"
    <3>1. CASE CreateUser(c)
      <4>1. PICK m \in Name, roles \in RoleChoice, t \in teams \cup {NoTeam},
                 x \in Restriction :
              CheckDuplicate(c, [name |-> m, form |-> "lower", source |-> "local",
                                 roles |-> roles, team |-> t, restricted |-> x])
        BY <3>1 DEF CreateUser
      <4> QED
        BY <4>1
    <3>2. CASE JitLogin(c)
      <4>1. PICK m \in Name :
              CheckDuplicate(c, [name |-> m, form |-> "lower", source |-> "ldap",
                                 roles |-> {"operator"}, team |-> NoTeam,
                                 restricted |-> FALSE])
        BY <3>2 DEF JitLogin
      <4> QED
        BY <4>1
    <3> QED
      BY <1>8, <3>1, <3>2
  <2>2. users' = users
    BY <1>8 DEF CreateUser, JitLogin
  <2> QED
    BY <2>1, <2>2, DuplicateCheck DEF DuplicateInv, Proc
<1>9. ASSUME NEW c \in Client, UpdateUser(c) PROVE Goal'
  <2>1. PICK r \in users, roles \in SUBSET Role, team \in Team, x \in BOOLEAN :
          users' = Edited(r.id, roles, team, x)
    BY <1>9 DEF UpdateUser, DuplicateInv, TypeOK, Team, ConstantsAssumption
  <2>2. users \subseteq User
    BY DEF DuplicateInv, TypeOK
  <2>3. \A q \in users' : \E p \in users :
          q.id = p.id /\ q.name = p.name /\ q.form = p.form /\ q.source = p.source
    BY <2>1, <2>2, EditedRows
  <2> QED
    BY <1>4, <1>9, <2>3 DEF UpdateUser
<1>10. ASSUME NEW s \in Sync,
              \/ FetchUsers(s) \/ ListPortal(s) \/ ListPortalFails(s) \/ SkipManaged(s)
              \/ PruneUser(s) \/ ListForPrune(s) \/ ListForPruneFails(s) \/ EndSync(s)
       PROVE  Goal'
  <2>1. users' \subseteq users /\ pending' = pending
    BY <1>10 DEF FetchUsers, ListPortal, ListPortalFails, ListInto, SkipManaged,
                 PruneUser, ListForPrune, ListForPruneFails, PruneInto, EndSync
  <2> QED
    BY <1>4, <2>1
<1>11. ASSUME NEW p \in Proc, InsertRejected(p) PROVE Goal'
  <2>1. users' = users /\ \A o \in Proc : pending'[o] \subseteq pending[o]
    BY <1>11 DEF InsertRejected, DuplicateInv, TypeOK
  <2> QED
    BY <1>4, <2>1
<1>12. ASSUME NEW c \in Client, \/ DeleteUser(c) \/ AddTeamMember(c) \/ PushUser(c)
                                \/ PushDelete(c) \/ PushFails(c)
       PROVE  Goal'
  <2>1. users' \subseteq users /\ pending' = pending
    BY <1>12 DEF DeleteUser, AddTeamMember, PushUser, PushDelete, PushFails
  <2> QED
    BY <1>4, <2>1
<1>13. ASSUME ZabbixPut \/ ZabbixDelete \/ Restart \/ UNCHANGED vars PROVE Goal'
  <2>1. users' = users /\ \A o \in Proc : pending'[o] \subseteq pending[o]
    BY <1>13 DEF ZabbixPut, ZabbixDelete, Restart, vars
  <2> QED
    BY <1>4, <2>1
<1>14. Goal'
  BY <1>5, <1>6, <1>7, <1>8, <1>9, <1>10, <1>11, <1>12, <1>13
  DEF Next, SyncStep, HealthyStep, NewRequest, FinishRequest, Proc
<1> QED
  BY <1>1, <1>14 DEF DuplicateInv

\* Two accounts of one login are possible only if one of them was imported
\* from Zabbix with capitals, whatever requests and syncs interleave.
THEOREM DuplicatesComeFromZabbixAlways == Spec => []DuplicatesComeFromZabbix
<1>1. Init => DuplicateInv
  <2> SUFFICES ASSUME Init PROVE DuplicateInv
    OBVIOUS
  <2>1. TypeOK
    BY ConstantsAssumption, InitType
  <2>2. \A p \in Proc : pending[p] = {}
    BY DEF Init
  <2>3. DuplicatesComeFromZabbix
    BY DEF Init, DuplicatesComeFromZabbix
  <2> QED
    BY <2>1, <2>2, <2>3 DEF DuplicateInv, MixedPending, SeededAlone
<1>2. DuplicateInv /\ [Next]_vars => DuplicateInv'
  BY ConstantsAssumption, DuplicateStep
<1>3. DuplicateInv => DuplicatesComeFromZabbix
  BY DEF DuplicateInv
<1> QED
  BY <1>1, <1>2, <1>3, PTL DEF Spec

-----------------------------------------------------------------------------
(* WHAT AN UNDISTURBED SYNC LEAVES BEHIND *)

\* The team a Zabbix user belongs into.
TeamOf(z) == IF z.group \in TeamGroup THEN z.group ELSE NoTeam

\* The row follows the Zabbix user, if these two are the only ones of the login.
Follows(r, z) ==
  r.source = "zabbix" /\ Paired(r, z) => r.roles = ResolvedRoles(z) /\ r.team = TeamOf(z)
Settled(z) == Taken(z.name) /\ \A r \in users : Follows(r, z)

\* The users of Zabbix a sync has been through.
Through(s) == zbx \ ztodo[s]
ComesFrom(n, z) ==
  n.name = z.name /\ n.roles = ResolvedRoles(z) /\ n.team = TeamOf(z)

\* A sync that is alone since its fetch knows Zabbix and the teams as they are.
\* The rows it listed are there and, until it gets to their login, unchanged; the
\* others it has inserted itself, or is about to.
ImportsAlone(s) ==
  /\ tsnap[s] = teams /\ zsnap[s] = zbx /\ ztodo[s] \subseteq zbx
  /\ \A u \in usnap[s] :
       /\ \E r \in users : r.id = u.id /\ r.name = u.name /\ r.source = u.source
       /\ (\A z \in Through(s) : z.name # u.name) => u \in users
  /\ \A r \in users :
       \/ \E u \in usnap[s] : u.name = r.name
       \/ \E z \in Through(s) : z.name = r.name
  /\ \A m, n \in pending[s] : m = n
  /\ \A n \in pending[s] : ~Taken(n.name) /\ \E z \in Through(s) : ComesFrom(n, z)
  /\ \A z \in Through(s) : Settled(z) \/ \E n \in pending[s] : n.name = z.name
PrunesAlone(s) ==
  /\ zsnap[s] = zbx
  /\ \A z \in zbx : Settled(z)
  /\ \A u \in usnap[s] : GoneFromZabbix(s, u) /\ \A r \in users : r.id = u.id => r = u
  /\ \A r \in users : GoneFromZabbix(s, r) => r \in usnap[s]

Alone(s) ==
  /\ pc[s] = "fetched" => zsnap[s] = zbx
  /\ pc[s] = "import" => ImportsAlone(s)
  /\ pc[s] = "prune" => PrunesAlone(s)

\* A creation is pending only while a sync imports.
PendingImports == \A s \in Sync : pc[s] # "import" => pending[s] = {}
AloneInv(s) == TypeOK /\ PendingImports /\ Alone(s)

\* No step leaves a creation pending with a sync that does not import.
LEMMA NextPending ==
  ASSUME ConstantsAssumption, TypeOK, PendingImports, [Next]_vars
  PROVE  PendingImports'
<1> USE DEF TypeOK, Proc
<1>1. ASSUME NEW s \in Sync, SyncStep(s) PROVE PendingImports'
  <2>1. CASE FetchUsers(s) \/ EndSync(s) \/ PruneUser(s)
    BY <2>1 DEF FetchUsers, EndSync, PruneUser, PendingImports
  <2>2. CASE ListPortal(s) \/ ListPortalFails(s)
    BY <2>2 DEF ListPortal, ListPortalFails, ListInto, PendingImports
  <2>3. CASE SkipManaged(s) \/ UpdateImported(s)
    BY <2>3 DEF SkipManaged, UpdateImported, NextZabbixUser, PendingImports
  <2>4. CASE ImportNew(s)
    BY <2>4 DEF ImportNew, NextZabbixUser, CheckDuplicate, PendingImports
  <2>5. CASE InsertUser(s) \/ InsertRejected(s)
    BY <2>5 DEF InsertUser, InsertRejected, syncVars, PendingImports
  <2>6. CASE ListForPrune(s) \/ ListForPruneFails(s)
    BY <2>6 DEF ListForPrune, ListForPruneFails, PruneInto, PendingImports
  <2> QED
    BY <1>1, <2>1, <2>2, <2>3, <2>4, <2>5, <2>6 DEF SyncStep, HealthyStep
<1>2. ASSUME pc' = pc, NEW c \in Client, \A p \in Proc \ {c} : pending'[p] = pending[p]
      PROVE  PendingImports'
  BY <1>2 DEF PendingImports, ConstantsAssumption
<1>3. ASSUME NEW c \in Client, NewRequest(c) PROVE PendingImports'
  <2>1. /\ pc' = pc
        /\ pending' = pending \/ \E n : CheckDuplicate(c, n)
    BY <1>3 DEF NewRequest, CreateUser, JitLogin, UpdateUser, DeleteUser, AddTeamMember, syncVars
  <2>2. \A p \in Proc \ {c} : pending'[p] = pending[p]
    BY <2>1 DEF CheckDuplicate
  <2> QED
    BY <1>2, <2>1, <2>2
<1>4. ASSUME NEW c \in Client, FinishRequest(c) PROVE PendingImports'
  <2>1. pc' = pc /\ \A p \in Proc \ {c} : pending'[p] = pending[p]
    BY <1>4 DEF FinishRequest, InsertUser, InsertRejected, PushUser, PushDelete, PushFails, syncVars
  <2> QED
    BY <1>2, <2>1
<1>5. CASE ZabbixPut \/ ZabbixDelete \/ UNCHANGED vars
  BY <1>5 DEF ZabbixPut, ZabbixDelete, vars, syncVars, PendingImports
<1>6. CASE Restart
  BY <1>6 DEF Restart, PendingImports
<1> QED
  BY <1>1, <1>3, <1>4, <1>5, <1>6 DEF Next

\* Rows of other logins do not matter to a Zabbix user.
LEMMA SettledKept ==
  ASSUME NEW z, Settled(z), zbx' = zbx,
         \A r : r.name = z.name => (r \in users <=> r \in users')
  PROVE  Settled(z)'
<1>1. Taken(z.name)'
  BY DEF Settled, Taken
<1>2. ASSUME NEW r \in users', r.source = "zabbix", Paired(r, z)'
      PROVE  r.roles = ResolvedRoles(z) /\ r.team = TeamOf(z)
  <2>1. z.name = r.name
    BY <1>2 DEF Paired
  <2>2. {q \in users : q.name = r.name} = {q \in users' : q.name = r.name}
    BY <2>1
  <2>3. Paired(r, z)
    BY <1>2, <2>2 DEF Paired
  <2> QED
    BY <1>2, <2>1, <2>3 DEF Settled, Follows
<1> QED
  BY <1>1, <1>2 DEF Settled, Follows, TeamOf, ResolvedRoles

\* The login is taken, and no row and no Zabbix user are the only ones of it.
LEMMA SettledUnpaired ==
  ASSUME NEW z, Taken(z.name)', \A r \in users' : ~Paired(r, z)'
  PROVE  Settled(z)'
BY DEF Settled, Follows

\* All rows of the login follow.
LEMMA SettledFollowing ==
  ASSUME NEW z, Taken(z.name)',
         \A r \in users' : Paired(r, z)' => r.roles = ResolvedRoles(z) /\ r.team = TeamOf(z)
  PROVE  Settled(z)'
BY DEF Settled, Follows, TeamOf, ResolvedRoles

\* An UPDATE by key: each row stays, with its key and login; the rows of other
\* keys as they are, the row of the key with what was written.
LEMMA EditedEach ==
  ASSUME users \subseteq User, NEW u, NEW roles \in SUBSET Role, NEW team \in Team,
         NEW x \in BOOLEAN
  PROVE  /\ \A r \in users : \E q \in Edited(u, roles, team, x) :
              q.id = r.id /\ q.name = r.name /\ q.source = r.source
         /\ \A q \in Edited(u, roles, team, x) : \E r \in users :
              /\ q.id = r.id /\ q.name = r.name /\ q.source = r.source
              /\ r.id # u => q = r
              /\ r.id = u => q.roles = roles /\ q.team = team
         /\ \A r \in users : r.id # u => r \in Edited(u, roles, team, x)
<1> DEFINE E(r) == IF r.id = u THEN [r EXCEPT !.roles = roles, !.team = team,
                                              !.restricted = x] ELSE r
<1>1. Edited(u, roles, team, x) = {E(r) : r \in users}
  BY DEF Edited
<1>2. \A r \in users : /\ E(r).id = r.id /\ E(r).name = r.name /\ E(r).source = r.source
                       /\ r.id # u => E(r) = r
                       /\ r.id = u => E(r).roles = roles /\ E(r).team = team
  BY DEF User
<1> HIDE DEF E
<1> QED
  BY <1>1, <1>2

\* What one turn of the import loop has in common with the others.
LEMMA TurnAlone ==
  ASSUME ConstantsAssumption, TypeOK, NEW s \in Sync, pc[s] = "import", ImportsAlone(s),
         NEW z \in ztodo[s], NextZabbixUser(s, z)
  PROVE  /\ ResolvedTeam(s, z) = TeamOf(z)
         /\ tsnap'[s] = teams' /\ zsnap'[s] = zbx' /\ zbx' = zbx /\ ztodo'[s] \subseteq zbx'
         /\ Through(s)' = Through(s) \cup {z} /\ z \in zbx \ Through(s)
         /\ usnap'[s] = usnap[s] /\ pc'[s] = "import" /\ pending[s] = {}
<1>1. ResolvedTeam(s, z) = TeamOf(z)
  BY DEF ImportsAlone, ResolvedTeam, TeamOf
<1>2. ztodo'[s] = ztodo[s] \ {z} /\ zbx' = zbx /\ UNCHANGED <<pc, zsnap, usnap>>
  BY DEF NextZabbixUser, TypeOK
<1>3. tsnap'[s] = tsnap[s] \cup ({TeamOf(z)} \ {NoTeam}) /\ teams' = teams \cup ({z.group} \cap TeamGroup)
  BY <1>1 DEF NextZabbixUser, TypeOK
<1>4. {TeamOf(z)} \ {NoTeam} = {z.group} \cap TeamGroup
  BY DEF TeamOf, ConstantsAssumption
<1>5. tsnap'[s] = teams'
  BY <1>3, <1>4 DEF ImportsAlone
<1>6. pending[s] = {}
  BY DEF NextZabbixUser
<1> QED
  BY <1>1, <1>2, <1>5, <1>6 DEF ImportsAlone, Through

\* After a turn that touches rows of its own login only, and leaves the login
\* of its Zabbix user settled or about to be.
LEMMA AfterTurn ==
  ASSUME ConstantsAssumption, TypeOK, NEW s \in Sync, pc[s] = "import", ImportsAlone(s),
         NEW z \in ztodo[s], NextZabbixUser(s, z),
         \A r : r.name # z.name => (r \in users <=> r \in users'),
         \A r \in users : \E q \in users' : q.id = r.id /\ q.name = r.name /\ q.source = r.source,
         \A q \in users' : \E r \in users : q.id = r.id /\ q.name = r.name,
         \A m, n \in pending'[s] : m = n,
         \A n \in pending'[s] : ~Taken(n.name) /\ ComesFrom(n, z) /\ users' = users,
         Settled(z)' \/ \E n \in pending'[s] : n.name = z.name
  PROVE  ImportsAlone(s)'
<1>1. /\ tsnap'[s] = teams' /\ zsnap'[s] = zbx' /\ zbx' = zbx /\ ztodo'[s] \subseteq zbx'
      /\ Through(s)' = Through(s) \cup {z} /\ z \in zbx \ Through(s)
      /\ usnap'[s] = usnap[s] /\ pending[s] = {}
  BY TurnAlone
<1>2. ASSUME NEW u \in usnap'[s]
      PROVE  /\ \E r \in users' : r.id = u.id /\ r.name = u.name /\ r.source = u.source
             /\ (\A y \in Through(s)' : y.name # u.name) => u \in users'
  <2>1. /\ \E r \in users : r.id = u.id /\ r.name = u.name /\ r.source = u.source
        /\ (\A y \in Through(s) : y.name # u.name) => u \in users
    BY <1>1, <1>2 DEF ImportsAlone
  <2>2. \E r \in users' : r.id = u.id /\ r.name = u.name /\ r.source = u.source
    BY <2>1
  <2>3. ASSUME \A y \in Through(s)' : y.name # u.name PROVE u \in users'
    BY <1>1, <2>1, <2>3
  <2> QED
    BY <2>2, <2>3
<1>3. ASSUME NEW q \in users'
      PROVE  \/ \E u \in usnap'[s] : u.name = q.name
             \/ \E y \in Through(s)' : y.name = q.name
  <2>1. PICK r \in users : q.id = r.id /\ q.name = r.name
    BY <1>3
  <2>2. \/ \E u \in usnap[s] : u.name = r.name
        \/ \E y \in Through(s) : y.name = r.name
    BY DEF ImportsAlone
  <2> QED
    BY <1>1, <2>1, <2>2
<1>4. \A n \in pending'[s] : ~Taken(n.name)' /\ \E y \in Through(s)' : ComesFrom(n, y)
  BY <1>1 DEF Taken
<1>5. ASSUME NEW y \in Through(s)' PROVE Settled(y)' \/ \E n \in pending'[s] : n.name = y.name
  <2>1. CASE y = z
    BY <2>1
  <2>2. CASE y \in Through(s) /\ y.name = z.name
    <3>1. Taken(z.name)
      BY <1>1, <2>2 DEF ImportsAlone, Settled
    <3>2. Taken(z.name)'
      BY <3>1 DEF Taken
    <3>3. \A r : ~Paired(r, y)'
      BY <1>1, <2>2 DEF Paired, Through
    <3> QED
      BY <2>2, <3>2, <3>3, SettledUnpaired
  <2>3. CASE y \in Through(s) /\ y.name # z.name
    <3>1. Settled(y)
      BY <1>1, <2>3 DEF ImportsAlone
    <3> QED
      BY <1>1, <2>3, <3>1, SettledKept
  <2> QED
    BY <1>1, <1>5, <2>1, <2>2, <2>3
<1>6. \A n, y : ComesFrom(n, y)' = ComesFrom(n, y)
  BY DEF ComesFrom, TeamOf, ResolvedRoles
<1> QED
  BY <1>1, <1>2, <1>3, <1>4, <1>5, <1>6 DEF ImportsAlone

\* A listed row has the row of the table with its key, its login and its source.
LEMMA ListedThere ==
  ASSUME NEW s \in Sync, ImportsAlone(s), NEW z, NEW u \in Known(s, z)
  PROVE  \E r \in users : r.id = u.id /\ r.name = z.name /\ r.source = u.source
BY DEF ImportsAlone, Known

\* An account of the portal is left alone: no imported one is the only one of
\* its login.
LEMMA SkipAlone ==
  ASSUME ConstantsAssumption, TypeOK, NEW s \in Sync, pc[s] = "import", ImportsAlone(s),
         SkipManaged(s)
  PROVE  ImportsAlone(s)'
<1>1. PICK z \in ztodo[s] : /\ NextZabbixUser(s, z) /\ UNCHANGED <<users, pending>>
                            /\ \E u \in Known(s, z) : u.source # "zabbix"
  BY DEF SkipManaged
<1>2. pending'[s] = {} /\ zbx' = zbx
  BY <1>1, TurnAlone
<1>3. PICK r \in users : r.name = z.name /\ r.source # "zabbix"
  BY <1>1, ListedThere
<1>4. ASSUME NEW q \in users', Paired(q, z)' PROVE q.source # "zabbix"
  BY <1>1, <1>3, <1>4 DEF Paired
<1>5. Settled(z)'
  BY <1>1, <1>3, <1>4 DEF Settled, Follows, Taken
<1> QED
  BY <1>1, <1>2, <1>5, AfterTurn

\* An update of an imported account: what is written is what Zabbix has, to the
\* row with the key of the listed one, and other logins are left alone.
Updates(s, z, u) ==
  /\ NextZabbixUser(s, z) /\ UNCHANGED pending
  /\ \/ users' = users /\ u.roles = ResolvedRoles(z) /\ u.team = TeamOf(z)
     \/ users' = Edited(u.id, ResolvedRoles(z), TeamOf(z), FALSE)

\* The UPDATE that an import makes.
LEMMA UpdateWrites ==
  ASSUME ConstantsAssumption, TypeOK, NEW z \in ZUser, NEW k,
         users' = Edited(k, ResolvedRoles(z), TeamOf(z), FALSE)
  PROVE  /\ \A p \in users : \E q \in users' : q.id = p.id /\ q.name = p.name /\ q.source = p.source
         /\ \A q \in users' : \E p \in users :
              /\ q.id = p.id /\ q.name = p.name /\ q.source = p.source
              /\ p.id # k => q = p
              /\ p.id = k => q.roles = ResolvedRoles(z) /\ q.team = TeamOf(z)
         /\ \A p \in users : p.id # k => p \in users'
<1>1. ResolvedRoles(z) \in SUBSET Role
  BY DEF ResolvedRoles, RoleGroup, GROUP_ROLE_MAP, TYPE_TO_ROLES, Role, ZUser
<1>2. TeamOf(z) \in Team /\ users \subseteq User
  BY DEF TeamOf, Team, TypeOK
<1>3. LET rows == Edited(k, ResolvedRoles(z), TeamOf(z), FALSE)
      IN  /\ \A p \in users : \E q \in rows : q.id = p.id /\ q.name = p.name /\ q.source = p.source
          /\ \A q \in rows : \E p \in users :
               /\ q.id = p.id /\ q.name = p.name /\ q.source = p.source
               /\ p.id # k => q = p
               /\ p.id = k => q.roles = ResolvedRoles(z) /\ q.team = TeamOf(z)
          /\ \A p \in users : p.id # k => p \in rows
  BY <1>1, <1>2, EditedEach
<1> QED
  BY <1>3

\* What is written for a listed account that came from Zabbix.
LEMMA UpdateFound ==
  ASSUME ConstantsAssumption, TypeOK, NEW s \in Sync, pc[s] = "import", ImportsAlone(s),
         UpdateImported(s)
  PROVE  \E z \in ztodo[s] : \E u \in Known(s, z) : Updates(s, z, u)
<1>1. PICK z \in ztodo[s] :
        /\ NextZabbixUser(s, z) /\ UNCHANGED pending
        /\ \E u \in Known(s, z) :
             users' = IF u.roles # ResolvedRoles(z) \/ u.team # ResolvedTeam(s, z)
                        THEN Edited(u.id, ResolvedRoles(z), ResolvedTeam(s, z), FALSE)
                        ELSE users
  BY DEF UpdateImported
<1>2. ResolvedTeam(s, z) = TeamOf(z)
  BY <1>1, TurnAlone
<1> QED
  BY <1>1, <1>2 DEF Updates

\* The login of the Zabbix user is the only one touched, its rows stay, and what
\* changes in them is what the update says.
LEMMA UpdateRows ==
  ASSUME ConstantsAssumption, TypeOK, NEW s \in Sync, ImportsAlone(s),
         NEW z \in ztodo[s], NEW u \in Known(s, z), Updates(s, z, u)
  PROVE  /\ \A p \in users : \E q \in users' : q.id = p.id /\ q.name = p.name /\ q.source = p.source
         /\ \A q \in users' : \E p \in users :
              /\ q.id = p.id /\ q.name = p.name /\ q.source = p.source
              /\ \/ q = p /\ p.id # u.id
                 \/ q = p /\ u.roles = ResolvedRoles(z) /\ u.team = TeamOf(z)
                 \/ q.roles = ResolvedRoles(z) /\ q.team = TeamOf(z)
         /\ \A p : p.name # z.name => (p \in users <=> p \in users')
<1>1. users \subseteq User /\ \A p, q \in users : p.id = q.id => p = q
  BY DEF TypeOK
<1>2. PICK r \in users : r.id = u.id /\ r.name = z.name
  BY ListedThere
<1>3. CASE users' = users /\ u.roles = ResolvedRoles(z) /\ u.team = TeamOf(z)
  BY <1>3
<1>4. CASE users' = Edited(u.id, ResolvedRoles(z), TeamOf(z), FALSE)
  <2>1. z \in ZUser
    BY DEF TypeOK
  <2>2. /\ \A p \in users : \E q \in users' : q.id = p.id /\ q.name = p.name /\ q.source = p.source
        /\ \A q \in users' : \E p \in users :
             /\ q.id = p.id /\ q.name = p.name /\ q.source = p.source
             /\ p.id # u.id => q = p
             /\ p.id = u.id => q.roles = ResolvedRoles(z) /\ q.team = TeamOf(z)
        /\ \A p \in users : p.id # u.id => p \in users'
    BY <1>4, <2>1, UpdateWrites
  <2>3. \A p : p.name # z.name => (p \in users <=> p \in users')
    BY <1>1, <1>2, <2>2
  <2> QED
    BY <2>2, <2>3
<1> QED
  BY <1>3, <1>4 DEF Updates

\* If the listed row is the only one of its login, it is still as listed.
LEMMA UpdateAlone ==
  ASSUME ConstantsAssumption, TypeOK, NEW s \in Sync, pc[s] = "import", ImportsAlone(s),
         NEW z \in ztodo[s], NEW u \in Known(s, z), Updates(s, z, u)
  PROVE  Settled(z)' /\ ImportsAlone(s)'
<1>1. NextZabbixUser(s, z)
  BY DEF Updates
<1>2. zbx' = zbx /\ z \in zbx \ Through(s) /\ pending'[s] = {}
  BY <1>1, TurnAlone DEF Updates
<1>3. PICK r \in users : r.id = u.id /\ r.name = z.name
  BY ListedThere
<1>4. \A p, q \in users : p.id = q.id => p = q
  BY DEF TypeOK
<1>5. Taken(z.name)'
  BY <1>3, UpdateRows DEF Taken
<1>6. ASSUME NEW q \in users', Paired(q, z)'
      PROVE  q.roles = ResolvedRoles(z) /\ q.team = TeamOf(z)
  <2>1. q.name = z.name /\ \A y \in zbx : y.name = z.name => y = z
    BY <1>2, <1>6 DEF Paired
  <2>2. u \in users
    <3>1. \A y \in Through(s) : y.name # u.name
      BY <1>2, <2>1 DEF Known, Through
    <3> QED
      BY <3>1 DEF ImportsAlone, Known
  <2>3. PICK v \in users' : v.id = u.id /\ v.name = z.name
    BY <1>3, UpdateRows
  <2>4. q = v
    BY <1>6, <2>1, <2>3 DEF Paired
  <2>5. PICK p \in users : /\ q.id = p.id
                           /\ \/ p.id # u.id
                              \/ q = p /\ u.roles = ResolvedRoles(z) /\ u.team = TeamOf(z)
                              \/ q.roles = ResolvedRoles(z) /\ q.team = TeamOf(z)
    BY UpdateRows
  <2>6. p = u
    BY <1>4, <2>2, <2>3, <2>4, <2>5
  <2> QED
    BY <2>5, <2>6
<1>7. Settled(z)'
  BY <1>5, <1>6, SettledFollowing
<1> QED
  BY <1>1, <1>2, <1>7, UpdateRows, AfterTurn

\* Without a listed row the login is free, or another Zabbix user has it too.
LEMMA ImportAlone ==
  ASSUME ConstantsAssumption, TypeOK, NEW s \in Sync, pc[s] = "import", ImportsAlone(s),
         ImportNew(s)
  PROVE  ImportsAlone(s)'
<1>1. PICK z \in ztodo[s] :
        /\ NextZabbixUser(s, z) /\ Known(s, z) = {} /\ UNCHANGED users
        /\ CheckDuplicate(s, [name |-> z.name, form |-> z.form, source |-> "zabbix",
                              roles |-> ResolvedRoles(z), team |-> ResolvedTeam(s, z),
                              restricted |-> FALSE])
  BY DEF ImportNew
<1>2. ResolvedTeam(s, z) = TeamOf(z) /\ zbx' = zbx /\ z \in zbx \ Through(s) /\ pending[s] = {}
  BY <1>1, TurnAlone
<1> DEFINE new == [name |-> z.name, form |-> z.form, source |-> "zabbix",
                   roles |-> ResolvedRoles(z), team |-> ResolvedTeam(s, z), restricted |-> FALSE]
<1>3. pending'[s] = IF Taken(z.name) THEN {} ELSE {new}
  BY <1>1 DEF CheckDuplicate, TypeOK, Proc
<1>4. new.name = z.name /\ ComesFrom(new, z)
  BY <1>2 DEF ComesFrom
<1> HIDE DEF new
<1>5. CASE ~Taken(z.name)
  BY <1>1, <1>3, <1>4, <1>5, AfterTurn
<1>6. CASE Taken(z.name)
  <2>1. PICK r \in users : r.name = z.name
    BY <1>6 DEF Taken
  <2>2. PICK y \in Through(s) : y.name = z.name
    BY <1>1, <2>1 DEF ImportsAlone, Known
  <2>3. \A q : ~Paired(q, z)'
    BY <1>2, <2>2 DEF Paired, Through
  <2>4. Settled(z)'
    BY <1>1, <2>1, <2>3, SettledUnpaired DEF Taken
  <2> QED
    BY <1>1, <1>3, <1>6, <2>4, AfterTurn
<1> QED
  BY <1>5, <1>6

\* The row that is inserted follows the user it was made for.
LEMMA InsertAlone ==
  ASSUME TypeOK, NEW s \in Sync, pc[s] = "import", ImportsAlone(s), InsertUser(s)
  PROVE  ImportsAlone(s)'
<1>1. PICK n \in pending[s], k \in FreshUid :
        /\ users' = users \cup {WithId(k, n)} /\ pending' = [pending EXCEPT ![s] = {}]
        /\ UNCHANGED <<teams, zbx, syncVars>>
  BY DEF InsertUser
<1> DEFINE new == WithId(k, n)
<1>2. new.name = n.name /\ new.roles = n.roles /\ new.team = n.team
  BY DEF WithId
<1> HIDE DEF new
<1>3. users' = users \cup {new} /\ pending'[s] = {} /\ Through(s)' = Through(s)
      /\ UNCHANGED <<teams, zbx, zsnap, ztodo, tsnap, usnap>>
  BY <1>1 DEF new, syncVars, Through, TypeOK, Proc
<1>4. ~Taken(n.name) /\ \E y \in Through(s) : ComesFrom(n, y)
  BY <1>1 DEF ImportsAlone
<1>5. PICK y \in Through(s) : ComesFrom(n, y)
  BY <1>4
<1>6. n.name = y.name /\ n.roles = ResolvedRoles(y) /\ n.team = TeamOf(y)
  BY <1>5 DEF ComesFrom
<1>7. \A r \in users' : \/ \E u \in usnap'[s] : u.name = r.name
                        \/ \E z \in Through(s)' : z.name = r.name
  BY <1>2, <1>3, <1>6 DEF ImportsAlone
<1>8. ASSUME NEW z \in Through(s) PROVE Settled(z)'
  <2>1. CASE z.name = n.name
    <3>1. Taken(z.name)'
      BY <1>2, <1>3, <2>1 DEF Taken
    <3>2. ASSUME NEW r \in users', Paired(r, z)'
          PROVE  r.roles = ResolvedRoles(z) /\ r.team = TeamOf(z)
      <4>1. y = z
        BY <1>3, <1>6, <2>1, <3>2 DEF Paired, Through
      <4>2. r = new
        BY <1>2, <1>3, <2>1, <3>2 DEF Paired
      <4> QED
        BY <1>2, <1>6, <4>1, <4>2
    <3> QED
      BY <3>1, <3>2, SettledFollowing
  <2>2. CASE z.name # n.name
    <3>1. \A m \in pending[s] : m.name # z.name
      BY <1>1, <2>2 DEF ImportsAlone
    <3>2. Settled(z)
      BY <1>8, <3>1 DEF ImportsAlone
    <3> QED
      BY <1>2, <1>3, <2>2, <3>2, SettledKept
  <2> QED
    BY <2>1, <2>2
<1>9. \A u \in usnap'[s] : /\ \E r \in users' : r.id = u.id /\ r.name = u.name /\ r.source = u.source
                           /\ (\A z \in Through(s)' : z.name # u.name) => u \in users'
  BY <1>3 DEF ImportsAlone
<1> QED
  BY <1>3, <1>7, <1>8, <1>9 DEF ImportsAlone

\* A creation that is pending has a login nobody holds, so it is not refused.
LEMMA NotRejected ==
  ASSUME NEW s \in Sync, ImportsAlone(s), InsertRejected(s)
  PROVE  FALSE
BY DEF InsertRejected, ImportsAlone, SpelledTaken, Taken

\* A removed row has a login that Zabbix does not hold.
LEMMA PruneAlone ==
  ASSUME TypeOK, NEW s \in Sync, pc[s] = "prune", PrunesAlone(s), PruneUser(s)
  PROVE  PrunesAlone(s)'
<1>1. PICK u \in usnap[s] :
        /\ users' = {q \in users : q.id # u.id} /\ usnap' = [usnap EXCEPT ![s] = @ \ {u}]
        /\ UNCHANGED <<zbx, zsnap>>
  BY DEF PruneUser
<1>2. /\ \A z \in zbx : z.name # u.name
      /\ \A r \in users : r.id = u.id => r = u
  BY DEF PrunesAlone, GoneFromZabbix
<1>3. usnap'[s] = usnap[s] \ {u}
  BY <1>1 DEF TypeOK
<1>4. ASSUME NEW z \in zbx PROVE Settled(z)'
  <2>1. Settled(z)
    BY DEF PrunesAlone
  <2>2. \A r : r.name = z.name => (r \in users <=> r \in users')
    BY <1>1, <1>2
  <2> QED
    BY <1>1, <2>1, <2>2, SettledKept
<1>5. \A r : GoneFromZabbix(s, r)' = GoneFromZabbix(s, r)
  BY <1>1 DEF GoneFromZabbix
<1>6. u \notin users'
  BY <1>1
<1> QED
  BY <1>1, <1>3, <1>4, <1>5, <1>6 DEF PrunesAlone

\* An undisturbed sync makes no step that spoils its work.
LEMMA AloneStep ==
  ASSUME ConstantsAssumption, TypeOK, PendingImports, NEW s \in Sync, Alone(s), HealthyStep(s)
  PROVE  Alone(s)'
<1>1. CASE FetchUsers(s)
  BY <1>1 DEF FetchUsers, Alone, TypeOK
<1>2. CASE ListPortal(s)
  <2>1. /\ pc'[s] = "import" /\ ztodo'[s] = zbx /\ tsnap'[s] = teams /\ usnap'[s] = users
        /\ UNCHANGED <<users, teams, zbx, zsnap, pending>> /\ zsnap[s] = zbx /\ pending[s] = {}
    BY <1>2 DEF ListPortal, ListInto, TypeOK, Alone, PendingImports
  <2>2. Through(s)' = {}
    BY <2>1 DEF Through
  <2> QED
    BY <2>1, <2>2 DEF Alone, ImportsAlone
<1>3. CASE SkipManaged(s) \/ UpdateImported(s) \/ ImportNew(s)
  <2>1. pc[s] = "import" /\ pc' = pc
    BY <1>3 DEF SkipManaged, UpdateImported, ImportNew, NextZabbixUser
  <2> QED
    BY <1>3, <2>1, SkipAlone, UpdateFound, UpdateAlone, ImportAlone DEF Alone
<1>4. CASE InsertUser(s) \/ InsertRejected(s)
  <2>1. pc[s] = "import" /\ pc' = pc
    BY <1>4 DEF InsertUser, InsertRejected, syncVars, PendingImports
  <2> QED
    BY <1>4, <2>1, InsertAlone, NotRejected DEF Alone
<1>5. CASE ListForPrune(s)
  <2>1. /\ pc[s] = "import" /\ ztodo[s] = {} /\ pending[s] = {} /\ pc'[s] = "prune"
        /\ usnap'[s] = {r \in users : GoneFromZabbix(s, r)}
        /\ UNCHANGED <<users, zbx, zsnap>>
    BY <1>5 DEF ListForPrune, PruneInto, TypeOK
  <2>2. zsnap[s] = zbx /\ \A z \in zbx : Settled(z)
    BY <2>1 DEF Alone, ImportsAlone, Through
  <2>3. \A z \in zbx : Settled(z)'
    BY <2>1, <2>2, SettledKept
  <2>4. \A r : GoneFromZabbix(s, r)' = GoneFromZabbix(s, r)
    BY <2>1 DEF GoneFromZabbix
  <2> QED
    BY <2>1, <2>2, <2>3, <2>4 DEF Alone, PrunesAlone, TypeOK
<1>6. CASE PruneUser(s)
  <2>1. pc[s] = "prune" /\ pc' = pc
    BY <1>6 DEF PruneUser
  <2> QED
    BY <1>6, <2>1, PruneAlone DEF Alone
<1>7. CASE EndSync(s)
  BY <1>7 DEF EndSync, Alone, TypeOK
<1> QED
  BY <1>1, <1>2, <1>3, <1>4, <1>5, <1>6, <1>7 DEF HealthyStep

\* A sync goes on undisturbed.
LEMMA AloneKept ==
  ASSUME ConstantsAssumption, NEW s \in Sync, AloneInv(s), [HealthyStep(s)]_vars
  PROVE  AloneInv(s)'
<1>1. [Next]_vars
  BY DEF Next, SyncStep
<1>2. TypeOK' /\ PendingImports'
  BY <1>1, NextType, NextPending DEF AloneInv
<1>3. CASE UNCHANGED vars
  <2>1. UNCHANGED <<users, teams, zbx, pc, zsnap, ztodo, tsnap, usnap, pending>>
    BY <1>3 DEF vars
  <2>2. \A z : Settled(z)' = Settled(z)
    BY <2>1 DEF Settled, Follows, Paired, Taken, TeamOf, ResolvedRoles
  <2>3. /\ \A n : Taken(n)' = Taken(n)
        /\ \A n, z : ComesFrom(n, z)' = ComesFrom(n, z)
        /\ \A r : GoneFromZabbix(s, r)' = GoneFromZabbix(s, r)
        /\ Through(s)' = Through(s)
    BY <2>1 DEF Taken, ComesFrom, GoneFromZabbix, Through, TeamOf, ResolvedRoles
  <2>4. ImportsAlone(s) => ImportsAlone(s)'
    BY <2>1, <2>2, <2>3 DEF ImportsAlone
  <2>5. PrunesAlone(s) => PrunesAlone(s)'
    BY <2>1, <2>2, <2>3 DEF PrunesAlone
  <2> QED
    BY <1>2, <2>1, <2>4, <2>5 DEF AloneInv, Alone
<1> QED
  BY <1>2, <1>3, AloneStep DEF AloneInv

\* At its end nothing is left to do.
LEMMA EndAgrees ==
  ASSUME NEW s \in Sync, AloneInv(s), EndSync(s)
  PROVE  Agree'
<1>1. /\ \A z \in zbx : Settled(z)
      /\ \A r \in users : ~GoneFromZabbix(s, r)
      /\ zsnap[s] = zbx
  BY DEF EndSync, AloneInv, Alone, PrunesAlone
<1>2. Agree
  <2>1. \A z \in zbx : \E r \in users : r.name = z.name
    BY <1>1 DEF Settled, Taken
  <2>2. \A r \in users : r.source = "zabbix" /\ "root" \notin r.roles => \E z \in zbx : z.name = r.name
    BY <1>1 DEF GoneFromZabbix
  <2>3. \A r \in users, z \in zbx : Follows(r, z)
    BY <1>1 DEF Settled
  <2> QED
    BY <2>1, <2>2, <2>3 DEF Agree, Follows, TeamOf
<1>3. UNCHANGED <<users, zbx>>
  BY DEF EndSync
<1> QED
  BY <1>2, <1>3 DEF Agree, Paired, ResolvedRoles

\* A settled portal agrees with Zabbix if no row is left that it does not have.
LEMMA SettledAgree ==
  ASSUME zbx' = zbx, \A z \in zbx : Settled(z)',
         \A r \in users' : r.source = "zabbix" /\ "root" \notin r.roles =>
           \E z \in zbx' : z.name = r.name
  PROVE  Agree'
<1>1. \A z \in zbx' : \E r \in users' : r.name = z.name
  BY DEF Settled, Taken
<1>2. \A r \in users', z \in zbx' : Follows(r, z)'
  BY DEF Settled
<1> QED
  BY <1>1, <1>2 DEF Agree, Follows, TeamOf

\* Where all agree, an undisturbed sync changes nothing that matters.
LEMMA AgreeKept ==
  ASSUME ConstantsAssumption, NEW s \in Sync, AloneInv(s), HealthyStep(s), Agree
  PROVE  Agree'
<1> USE DEF AloneInv
<1>1. ASSUME users' = users, zbx' = zbx PROVE Agree'
  BY <1>1 DEF Agree, Paired, ResolvedRoles
<1>2. CASE FetchUsers(s) \/ ListPortal(s) \/ SkipManaged(s) \/ ImportNew(s) \/ ListForPrune(s)
           \/ EndSync(s) \/ InsertRejected(s)
  BY <1>1, <1>2 DEF FetchUsers, ListPortal, ListInto, SkipManaged, ImportNew, ListForPrune,
                    PruneInto, EndSync, InsertRejected, NextZabbixUser
<1>3. CASE InsertUser(s)
  <2>1. PICK n \in pending[s] : TRUE
    BY <1>3 DEF InsertUser
  <2>2. pc[s] = "import"
    BY <2>1 DEF PendingImports
  <2>3. ~Taken(n.name) /\ \E z \in zbx : n.name = z.name
    BY <2>1, <2>2 DEF Alone, ImportsAlone, ComesFrom, Through
  <2> QED
    BY <2>3 DEF Agree, Taken
<1>4. CASE PruneUser(s)
  <2>1. PICK u \in usnap[s] : /\ users' = {q \in users : q.id # u.id} /\ zbx' = zbx
                              /\ pc[s] = "prune"
    BY <1>4 DEF PruneUser
  <2>2. /\ \A z \in zbx : z.name # u.name
        /\ \A r \in users : r.id = u.id => r = u
    BY <2>1 DEF Alone, PrunesAlone, GoneFromZabbix
  <2>3. \A z \in zbx : \A r : r.name = z.name => (r \in users <=> r \in users')
    BY <2>1, <2>2
  <2>4. ASSUME NEW z \in zbx PROVE Settled(z)
    BY <2>1 DEF Alone, PrunesAlone
  <2>5. \A z \in zbx : Settled(z)'
    BY <2>1, <2>3, <2>4, SettledKept
  <2>6. \A r \in users' : r.source = "zabbix" /\ "root" \notin r.roles => \E z \in zbx' : z.name = r.name
    BY <2>1 DEF Agree
  <2> QED
    BY <2>1, <2>5, <2>6, SettledAgree
<1>5. CASE UpdateImported(s)
  <2>1. pc[s] = "import" /\ ImportsAlone(s)
    BY <1>5 DEF UpdateImported, NextZabbixUser, Alone
  <2>2. PICK z \in ztodo[s] : \E u \in Known(s, z) : Updates(s, z, u)
    BY <1>5, <2>1, UpdateFound
  <2>3. PICK u \in Known(s, z) : Updates(s, z, u)
    BY <2>2
  <2>4. Settled(z)' /\ \A p : p.name # z.name => (p \in users <=> p \in users')
    BY <2>1, <2>3, UpdateAlone, UpdateRows
  <2>5. zbx' = zbx /\ z \in zbx
    BY <2>1, <2>3, TurnAlone DEF Updates
  <2>6. ASSUME NEW y \in zbx PROVE Settled(y)'
    <3>1. CASE y.name # z.name
      <4>1. Settled(y)
        BY DEF Agree, Settled, Follows, Taken, TeamOf
      <4> QED
        BY <2>4, <2>5, <3>1, <4>1, SettledKept
    <3>2. CASE y.name = z.name /\ y # z
      <4>1. Taken(y.name)'
        BY <2>4, <3>2 DEF Settled
      <4>2. \A r : ~Paired(r, y)'
        BY <2>5, <3>2 DEF Paired
      <4> QED
        BY <4>1, <4>2, SettledUnpaired
    <3> QED
      BY <2>4, <3>1, <3>2
  <2>7. \A r \in users' : r.source = "zabbix" /\ "root" \notin r.roles => \E y \in zbx' : y.name = r.name
    BY <2>4, <2>5 DEF Agree
  <2> QED
    BY <2>5, <2>6, <2>7, SettledAgree
<1> QED
  BY <1>2, <1>3, <1>4, <1>5 DEF HealthyStep

\* Whenever a sync is idle and nobody but itself is at work from then on, it
\* leaves accounts and Zabbix in agreement at the end of its round, and in its
\* further rounds it stays so.  (Two syncs can spoil each other's rounds: a team
\* that one creates is one that the other can neither find nor create.)
THEOREM UndisturbedSyncAgrees ==
  ASSUME NEW s \in Sync
  PROVE  Spec => [](pc[s] = "idle" /\ [][HealthyStep(s)]_vars =>
                      [][(EndSync(s) => Agree') /\ (Agree => Agree')]_vars)
<1>1. Init => TypeOK /\ PendingImports
  BY ConstantsAssumption, InitType DEF Init, PendingImports, Proc
<1>2. TypeOK /\ PendingImports /\ [Next]_vars => (TypeOK /\ PendingImports)'
  BY ConstantsAssumption, NextType, NextPending
<1>3. TypeOK /\ PendingImports /\ pc[s] = "idle" => AloneInv(s)
  BY DEF AloneInv, Alone
<1>4. AloneInv(s) /\ [HealthyStep(s)]_vars => AloneInv(s)'
  BY ConstantsAssumption, AloneKept
<1>5. AloneInv(s) /\ [HealthyStep(s)]_vars => [(EndSync(s) => Agree') /\ (Agree => Agree')]_vars
  BY ConstantsAssumption, EndAgrees, AgreeKept
<1> QED
  BY <1>1, <1>2, <1>3, <1>4, <1>5, PTL DEF Spec
=============================================================================
