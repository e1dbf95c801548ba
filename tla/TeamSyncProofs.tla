--------------------------- MODULE TeamSyncProofs ---------------------------
(***************************************************************************)
(* Proofs about TeamSync, for any names, keys, syncs and requests.         *)
(***************************************************************************)
EXTENDS TeamSync, TLAPS

\* An INSERT leaves every row as it is, and adds at most one, whose key no row
\* and no row held by a sync has and whose name no row has.
LEMMA InsertedRows ==
  ASSUME NEW n \in Name, teams \subseteq Team, Insert(n)
  PROVE  /\ teams' \subseteq Team /\ teams \subseteq teams'
         /\ \A q \in teams' \ teams : /\ \A r \in teams : r.id # q.id /\ r.name # q.name
                                      /\ \A s \in Sync : \A r \in gone[s] : r.id # q.id
                                      /\ teams' = teams \cup {q}
<1>1. CASE n \in Names(teams)
  BY <1>1 DEF Insert
<1>2. CASE n \notin Names(teams)
  <2> DEFINE row(u) == [id |-> u, name |-> n]
  <2>1. PICK u \in FreshUid : teams' = teams \cup {row(u)}
    BY <1>2 DEF Insert
  <2>2. row(u) \in Team /\ row(u).id = u /\ row(u).name = n
    BY <2>1 DEF FreshUid, Team
  <2>3. \A r \in teams : r.name # n
    BY <1>2 DEF Names
  <2>4. /\ \A r \in teams : r.id # u
        /\ \A s \in Sync : \A r \in gone[s] : r.id # u
    BY <2>1 DEF FreshUid, InUse
  <2> HIDE DEF row
  <2> QED
    BY <2>1, <2>2, <2>3, <2>4
<1> QED
  BY <1>1, <1>2

-----------------------------------------------------------------------------
(* TYPES AND KEYS *)

LEMMA InitType == TeamAssumption /\ Init => TypeOK
BY DEF TeamAssumption, Init, TypeOK, Team, Job, NoJob

\* TypeOK without the variables of syncs and requests.
RowsOK ==
  /\ teams \subseteq Team
  /\ \A r, q \in teams : r.id = q.id \/ r.name = q.name => r = q

LEMMA InsertKeepsRows ==
  ASSUME RowsOK, NEW n \in Name, Insert(n)
  PROVE  RowsOK'
BY InsertedRows DEF RowsOK

LEMMA SyncType ==
  ASSUME TypeOK, NEW s \in Sync, SyncStep(s)
  PROVE  TypeOK'
<1>1. ASSUME FetchUsers(s) PROVE TypeOK'
  BY <1>1 DEF TypeOK, FetchUsers
<1>2. ASSUME ImportTeam(s) PROVE TypeOK'
  <2>1. PICK n \in todo[s] : /\ todo' = [todo EXCEPT ![s] = @ \ {n}]
                             /\ Insert(n)
    BY <1>2 DEF ImportTeam
  <2>2. n \in Name
    BY <2>1 DEF TypeOK
  <2>3. RowsOK'
    BY <2>1, <2>2, InsertKeepsRows DEF TypeOK, RowsOK
  <2> QED
    BY <1>2, <2>1, <2>3 DEF TypeOK, RowsOK, ImportTeam
<1>3. ASSUME FetchGroups(s) \/ FetchGroupsFails(s) PROVE TypeOK'
  BY <1>3 DEF TypeOK, FetchGroups, FetchGroupsFails
<1>4. ASSUME ListTeams(s) \/ ListTeamsFails(s) PROVE TypeOK'
  <2>1. PICK rows \in {teams, {}} : ListInto(s, rows)
    BY <1>4 DEF ListTeams, ListTeamsFails
  <2>2. NewGroups(s, rows) \subseteq Name /\ GoneTeams(s, rows) \subseteq Team
    BY <2>1 DEF TypeOK, NewGroups, GoneTeams
  <2> QED
    BY <2>1, <2>2 DEF TypeOK, ListInto
<1>5. ASSUME RemoveTeam(s) PROVE TypeOK'
  BY <1>5 DEF TypeOK, RemoveTeam
<1>6. ASSUME EndSync(s) PROVE TypeOK'
  BY <1>6 DEF TypeOK, EndSync
<1> QED
  BY <1>1, <1>2, <1>3, <1>4, <1>5, <1>6 DEF SyncStep, HealthyStep

LEMMA OweType ==
  ASSUME TypeOK, NEW c \in Client, NEW op \in {"create", "push", "delete"},
         NEW n \in Name, Owe(c, op, n)
  PROVE  job' \in [Client -> Job \cup {NoJob}]
BY DEF Owe, TypeOK, Job

LEMMA RequestType ==
  ASSUME TeamAssumption, TypeOK, NEW c \in Client, NewRequest(c) \/ FinishRequest(c)
  PROVE  TypeOK'
<1>1. ASSUME CreateTeam(c) PROVE TypeOK'
  <2>1. PICK n \in Name : Insert(n) /\ Owe(c, "create", n)
    BY <1>1 DEF CreateTeam
  <2>2. RowsOK' /\ job' \in [Client -> Job \cup {NoJob}]
    BY <2>1, InsertKeepsRows, OweType DEF TypeOK, RowsOK
  <2> QED
    BY <1>1, <2>2 DEF CreateTeam, TypeOK, RowsOK, syncVars
<1>2. ASSUME DeleteTeam(c) PROVE TypeOK'
  <2>1. PICK r \in teams : teams' = teams \ {r} /\ Owe(c, "delete", r.name)
    BY <1>2 DEF DeleteTeam
  <2>2. r.name \in Name
    BY <2>1 DEF TypeOK, Team
  <2>3. job' \in [Client -> Job \cup {NoJob}]
    BY <2>1, <2>2, OweType
  <2> QED
    BY <1>2, <2>1, <2>3 DEF DeleteTeam, TypeOK, syncVars
<1>3. ASSUME UseGroup(c) PROVE TypeOK'
  <2>1. PICK n \in Names(teams) \cup {DefaultGroup} : Owe(c, "push", n)
    BY <1>3 DEF UseGroup
  <2>2. n \in Name
    BY <2>1 DEF TypeOK, Names, Team, TeamAssumption, Kept
  <2>3. job' \in [Client -> Job \cup {NoJob}]
    BY <2>1, <2>2, OweType
  <2> QED
    BY <1>3, <2>3 DEF UseGroup, TypeOK, syncVars
<1>4. ASSUME FinishRequest(c) PROVE TypeOK'
  <2>1. job[c] # NoJob => job[c].name \in Name
    BY DEF TypeOK, Job
  <2>2. ASSUME PushGroup(c) PROVE TypeOK'
    <3>1. job[c] # NoJob
      BY <2>2 DEF PushGroup, NoJob
    <3> QED
      BY <2>1, <2>2, <3>1 DEF PushGroup, TypeOK, syncVars
  <2>3. ASSUME PushDelete(c) \/ PushFails(c) PROVE TypeOK'
    BY <2>3 DEF PushDelete, PushFails, TypeOK, syncVars
  <2> QED
    BY <1>4, <2>2, <2>3 DEF FinishRequest
<1> QED
  BY <1>1, <1>2, <1>3, <1>4 DEF NewRequest

LEMMA NextType ==
  ASSUME TeamAssumption, TypeOK, [Next]_vars
  PROVE  TypeOK'
<1>1. ASSUME UNCHANGED vars PROVE TypeOK'
  BY <1>1 DEF vars, syncVars, TypeOK
<1>2. ASSUME Restart PROVE TypeOK'
  BY <1>2 DEF Restart, TypeOK
<1>3. ASSUME ZabbixCreate \/ ZabbixDelete PROVE TypeOK'
  BY <1>3 DEF ZabbixCreate, ZabbixDelete, TypeOK, syncVars
<1> QED
  BY <1>1, <1>2, <1>3, SyncType, RequestType DEF Next

\* Every reachable state is well typed; ids and names of teams stay keys
\* through every interleaving of inserts, deletions and syncs.
THEOREM TypeCorrect == Spec => []TypeOK
<1>1. Init => TypeOK
  BY TeamAssumption, InitType
<1>2. TypeOK /\ [Next]_vars => TypeOK'
  BY TeamAssumption, NextType
<1> QED
  BY <1>1, <1>2, PTL DEF Spec

-----------------------------------------------------------------------------
(* WHAT A SYNC REMOVES *)

\* A row a sync will delete is no kept team, and the row of the table with its
\* key, if there still is one, is that row.
GoneRows ==
  \A s \in Sync : \A g \in gone[s] :
    g.name \notin Kept /\ \A r \in teams : r.id = g.id => r = g

GoneInv == TypeOK /\ GoneRows

LEMMA InitGone == Init => GoneRows
BY DEF Init, GoneRows

\* Steps that leave the lists of the syncs alone or shorten them, and add to
\* the table by Insert only, keep what the lists hold in step with the table.
LEMMA InsertKeepsGone ==
  ASSUME GoneInv, NEW n \in Name, Insert(n), UNCHANGED gone
  PROVE  GoneRows'
<1>1. /\ \A q \in teams' \ teams : \A s \in Sync : \A g \in gone[s] : g.id # q.id
  BY InsertedRows DEF GoneInv, TypeOK
<1> QED
  BY <1>1 DEF GoneInv, GoneRows

LEMMA ShrinkKeepsGone ==
  ASSUME GoneInv, teams' \subseteq teams, \A s \in Sync : gone'[s] \subseteq gone[s]
  PROVE  GoneRows'
BY DEF GoneInv, GoneRows

LEMMA NextGone ==
  ASSUME GoneInv, [Next]_vars
  PROVE  GoneRows'
<1>1. ASSUME NEW s \in Sync, SyncStep(s) PROVE GoneRows'
  <2>1. ASSUME ImportTeam(s) PROVE GoneRows'
    <3>1. PICK n \in todo[s] : Insert(n)
      BY <2>1 DEF ImportTeam
    <3> QED
      BY <2>1, <3>1, InsertKeepsGone DEF ImportTeam, GoneInv, TypeOK
  <2>2. ASSUME ListTeams(s) \/ ListTeamsFails(s) PROVE GoneRows'
    <3>1. PICK rows \in {teams, {}} : ListInto(s, rows)
      BY <2>2 DEF ListTeams, ListTeamsFails
    <3>2. \A g \in GoneTeams(s, rows) : g \in teams /\ g.name \notin Kept
      BY <3>1 DEF GoneTeams
    <3>3. \A p \in Sync : gone'[p] = IF p = s THEN GoneTeams(s, rows) ELSE gone[p]
      BY <3>1 DEF ListInto, GoneInv, TypeOK
    <3>4. teams' = teams
      BY <3>1 DEF ListInto
    <3> QED
      BY <3>2, <3>3, <3>4 DEF GoneInv, GoneRows, TypeOK
  <2>3. ASSUME RemoveTeam(s) PROVE GoneRows'
    <3>1. \A p \in Sync : gone'[p] \subseteq gone[p]
      BY <2>3 DEF RemoveTeam, GoneInv, TypeOK
    <3> QED
      BY <2>3, <3>1, ShrinkKeepsGone DEF RemoveTeam
  <2>4. ASSUME FetchUsers(s) \/ FetchGroups(s) \/ FetchGroupsFails(s) \/ EndSync(s)
        PROVE  GoneRows'
    BY <2>4, ShrinkKeepsGone DEF FetchUsers, FetchGroups, FetchGroupsFails, EndSync
  <2> QED
    BY <1>1, <2>1, <2>2, <2>3, <2>4 DEF SyncStep, HealthyStep
<1>2. ASSUME NEW c \in Client, CreateTeam(c) PROVE GoneRows'
  BY <1>2, InsertKeepsGone DEF CreateTeam, syncVars
<1>3. ASSUME NEW c \in Client,
             \/ DeleteTeam(c) \/ UseGroup(c) \/ FinishRequest(c)
      PROVE  GoneRows'
  BY <1>3, ShrinkKeepsGone
  DEF DeleteTeam, UseGroup, FinishRequest, PushGroup, PushDelete, PushFails, syncVars
<1>4. ASSUME ZabbixCreate \/ ZabbixDelete \/ UNCHANGED vars PROVE GoneRows'
  BY <1>4, ShrinkKeepsGone DEF ZabbixCreate, ZabbixDelete, vars, syncVars
<1>5. ASSUME Restart PROVE GoneRows'
  BY <1>5 DEF Restart, GoneRows
<1> QED
  BY <1>1, <1>2, <1>3, <1>4, <1>5 DEF Next, NewRequest

\* A step that changes a sync's list of rows to delete and takes rows from the
\* table deletes a row of that list, by its key.
LEMMA SparesStep ==
  ASSUME GoneInv, [Next]_vars, NEW s \in Sync, NEW r \in teams,
         gone'[s] # gone[s], r \notin teams'
  PROVE  r \in gone[s] /\ r.name \notin Kept
<1>1. ASSUME NEW p \in Sync, SyncStep(p) PROVE p = s /\ RemoveTeam(s)
  <2>1. ASSUME ImportTeam(p) PROVE FALSE
    BY <2>1 DEF ImportTeam
  <2>2. ASSUME FetchUsers(p) \/ FetchGroups(p) \/ FetchGroupsFails(p) \/ EndSync(p)
        PROVE  FALSE
    BY <2>2 DEF FetchUsers, FetchGroups, FetchGroupsFails, EndSync
  <2>3. ASSUME ListTeams(p) \/ ListTeamsFails(p) PROVE FALSE
    BY <2>3 DEF ListTeams, ListTeamsFails, ListInto
  <2>4. ASSUME RemoveTeam(p) PROVE p = s
    BY <2>4 DEF RemoveTeam, GoneInv, TypeOK
  <2> QED
    BY <1>1, <2>1, <2>2, <2>3, <2>4 DEF SyncStep, HealthyStep
<1>2. ASSUME NEW c \in Client, NewRequest(c) \/ FinishRequest(c) PROVE FALSE
  BY <1>2 DEF NewRequest, FinishRequest, CreateTeam, DeleteTeam, UseGroup, PushGroup,
              PushDelete, PushFails, syncVars
<1>3. ASSUME ZabbixCreate \/ ZabbixDelete \/ Restart \/ UNCHANGED vars PROVE FALSE
  BY <1>3 DEF ZabbixCreate, ZabbixDelete, Restart, vars, syncVars
<1>4. RemoveTeam(s)
  BY <1>1, <1>2, <1>3 DEF Next
<1>5. PICK g \in gone[s] : teams' = {q \in teams : q.id # g.id}
  BY <1>4 DEF RemoveTeam
<1>6. r = g
  BY <1>5 DEF GoneInv, GoneRows
<1> QED
  BY <1>6 DEF GoneInv, GoneRows

\* However stale the rows a sync has listed for removal are, it deletes none
\* that is not among them, and never the team of a role or the default group.
THEOREM NewRowsSparedAlways == Spec => NewRowsSpared
<1>1. Init => GoneInv
  BY TeamAssumption, InitType, InitGone DEF GoneInv
<1>2. GoneInv /\ [Next]_vars => GoneInv'
  BY TeamAssumption, NextType, NextGone DEF GoneInv
<1>3. GoneInv /\ [Next]_vars =>
        [\A s \in Sync, r \in teams :
           gone'[s] # gone[s] /\ r \notin teams' => r \in gone[s] /\ r.name \notin Kept]_vars
  BY SparesStep
<1> QED
  BY <1>1, <1>2, <1>3, PTL DEF Spec, NewRowsSpared

-----------------------------------------------------------------------------
(* WHAT AN UNDISTURBED SYNC LEAVES BEHIND *)

\* Syncs that find nobody else at work, and overlap with one another at most.
Undisturbed == [][\E s \in Sync : HealthyStep(s)]_vars
AllIdle == \A s \in Sync : pc[s] = "idle"

\* An idle sync holds no work.
IdleIsEmpty ==
  \A s \in Sync : /\ pc[s] # "users" /\ pc[s] # "import" => todo[s] = {}
                  /\ pc[s] # "import" => gone[s] = {}

\* A sync that began after all else stopped: it imports groups there are, removes
\* teams without a group, and has no less to do than is left to do.
Following(s) ==
  /\ todo[s] \subseteq groups \ Ignored
  /\ \A g \in gone[s] : g.name \notin groups
  /\ pc[s] = "groups" => seen[s] = groups
  /\ pc[s] = "import" =>
       /\ groups \ Ignored \subseteq Names(teams) \cup todo[s]
       /\ \A r \in teams : r.name \notin Kept \cup groups => r \in gone[s]

FollowInv == GoneInv /\ IdleIsEmpty /\ \A s \in Sync : Following(s)

\* No step leaves work with an idle sync.
LEMMA NextIdle ==
  ASSUME TypeOK, IdleIsEmpty, [Next]_vars
  PROVE  IdleIsEmpty'
<1>1. ASSUME NEW s \in Sync, SyncStep(s) PROVE IdleIsEmpty'
  <2>1. ASSUME ListTeams(s) \/ ListTeamsFails(s) PROVE IdleIsEmpty'
    <3>1. PICK rows \in {teams, {}} : ListInto(s, rows)
      BY <2>1 DEF ListTeams, ListTeamsFails
    <3> QED
      BY <3>1 DEF ListInto, IdleIsEmpty, TypeOK
  <2>2. ASSUME ImportTeam(s) PROVE IdleIsEmpty'
    BY <2>2 DEF ImportTeam, IdleIsEmpty, TypeOK
  <2>3. ASSUME FetchUsers(s) \/ FetchGroups(s) \/ FetchGroupsFails(s) PROVE IdleIsEmpty'
    BY <2>3 DEF FetchUsers, FetchGroups, FetchGroupsFails, IdleIsEmpty, TypeOK
  <2>4. ASSUME RemoveTeam(s) \/ EndSync(s) PROVE IdleIsEmpty'
    BY <2>4 DEF RemoveTeam, EndSync, IdleIsEmpty, TypeOK
  <2> QED
    BY <1>1, <2>1, <2>2, <2>3, <2>4 DEF SyncStep, HealthyStep
<1>2. ASSUME NEW c \in Client, NewRequest(c) \/ FinishRequest(c) PROVE UNCHANGED syncVars
  BY <1>2 DEF NewRequest, FinishRequest, CreateTeam, DeleteTeam, UseGroup, PushGroup,
              PushDelete, PushFails
<1>3. ASSUME UNCHANGED syncVars PROVE IdleIsEmpty'
  BY <1>3 DEF syncVars, IdleIsEmpty
<1>4. ASSUME Restart PROVE IdleIsEmpty'
  BY <1>4 DEF Restart, IdleIsEmpty
<1> QED
  BY <1>1, <1>2, <1>3, <1>4 DEF Next, ZabbixCreate, ZabbixDelete, vars

\* What a sync does to the table while nobody else is at work: it adds the team
\* of a group, or removes a row it has listed, which has no group.
LEMMA FollowingRows ==
  ASSUME FollowInv, NEW s \in Sync, HealthyStep(s)
  PROVE  /\ groups' = groups
         /\ \A r \in teams \ teams' : r.name \notin groups
         /\ \A r \in teams' \ teams : r.name \in groups \ Ignored
<1>1. CASE ImportTeam(s)
  <2>1. PICK n \in todo[s] : Insert(n)
    BY <1>1 DEF ImportTeam
  <2>2. n \in groups \ Ignored
    BY <2>1 DEF FollowInv, Following
  <2>3. teams \subseteq teams' /\ \A r \in teams' \ teams : r.name = n
    BY <2>1 DEF Insert
  <2> QED
    BY <1>1, <2>2, <2>3 DEF ImportTeam
<1>2. CASE RemoveTeam(s)
  <2>1. PICK g \in gone[s] : teams' = {q \in teams : q.id # g.id}
    BY <1>2 DEF RemoveTeam
  <2>2. \A r \in teams \ teams' : r = g
    BY <2>1 DEF FollowInv, GoneInv, GoneRows
  <2>3. g.name \notin groups
    BY DEF FollowInv, Following
  <2> QED
    BY <1>2, <2>1, <2>2, <2>3 DEF RemoveTeam
<1>3. CASE FetchUsers(s) \/ FetchGroups(s) \/ ListTeams(s) \/ EndSync(s)
  BY <1>3 DEF FetchUsers, FetchGroups, ListTeams, ListInto, EndSync
<1> QED
  BY <1>1, <1>2, <1>3 DEF HealthyStep

\* The work of the other syncs stays what it was meant to be.
LEMMA OthersFollow ==
  ASSUME FollowInv, NEW s \in Sync, HealthyStep(s), NEW p \in Sync,
         pc'[p] = pc[p], seen'[p] = seen[p], todo'[p] = todo[p], gone'[p] = gone[p]
  PROVE  Following(p)'
<1>1. /\ groups' = groups
      /\ \A r \in teams \ teams' : r.name \notin groups
      /\ \A r \in teams' \ teams : r.name \in groups \ Ignored
  BY FollowingRows
<1>2. Following(p)
  BY DEF FollowInv
<1>3. groups \cap Names(teams) \subseteq Names(teams')
  BY <1>1 DEF Names
<1>4. Names(teams)' = Names(teams')
  BY DEF Names
<1> QED
  BY <1>1, <1>2, <1>3, <1>4 DEF Following

\* A step of a sync that follows leaves all of them following.
LEMMA FollowStep ==
  ASSUME FollowInv, NEW s \in Sync, HealthyStep(s)
  PROVE  \A p \in Sync : Following(p)'
<1>1. SUFFICES /\ \A p \in Sync \ {s} : /\ pc'[p] = pc[p] /\ seen'[p] = seen[p]
                                        /\ todo'[p] = todo[p] /\ gone'[p] = gone[p]
               /\ Following(s)'
  BY OthersFollow
<1>2. /\ groups' = groups
      /\ \A r \in teams \ teams' : r.name \notin groups
      /\ \A r \in teams' \ teams : r.name \in groups \ Ignored
  BY FollowingRows
<1>3. Following(s) /\ TypeOK
  BY DEF FollowInv, GoneInv
<1>4. Names(teams)' = Names(teams')
  BY DEF Names
<1>5. groups \cap Names(teams) \subseteq Names(teams')
  BY <1>2 DEF Names
<1>6. CASE FetchUsers(s)
  BY <1>3, <1>6 DEF FetchUsers, Following, TypeOK
<1>7. CASE ImportTeam(s)
  <2>1. PICK n \in todo[s] : Insert(n) /\ todo' = [todo EXCEPT ![s] = @ \ {n}]
    BY <1>7 DEF ImportTeam
  <2>2. n \in Names(teams')
    BY <2>1 DEF Insert, Names
  <2>3. todo'[s] = todo[s] \ {n} /\ UNCHANGED <<pc, seen, gone>>
    BY <1>3, <1>7, <2>1 DEF ImportTeam, TypeOK
  <2>4. Following(s)'
    BY <1>2, <1>3, <1>4, <1>5, <2>2, <2>3 DEF Following
  <2> QED
    BY <1>3, <1>7, <2>1, <2>4 DEF ImportTeam, TypeOK
<1>8. CASE FetchGroups(s)
  BY <1>3, <1>8 DEF FetchGroups, Following, TypeOK
<1>9. CASE ListTeams(s)
  <2>1. /\ pc'[s] = "import" /\ UNCHANGED <<teams, groups>> /\ seen[s] = groups
        /\ todo'[s] = NewGroups(s, teams) /\ gone'[s] = GoneTeams(s, teams)
    BY <1>3, <1>9 DEF ListTeams, ListInto, TypeOK, Following
  <2>2. Following(s)'
    BY <1>4, <2>1 DEF Following, NewGroups, GoneTeams
  <2> QED
    BY <1>3, <1>9, <2>2 DEF ListTeams, ListInto, TypeOK
<1>10. CASE RemoveTeam(s)
  <2>1. PICK g \in gone[s] : /\ teams' = {q \in teams : q.id # g.id}
                             /\ gone' = [gone EXCEPT ![s] = @ \ {g}]
    BY <1>10 DEF RemoveTeam
  <2>2. gone'[s] = gone[s] \ {g} /\ g \notin teams' /\ UNCHANGED <<pc, seen, todo>>
    BY <1>3, <1>10, <2>1 DEF RemoveTeam, TypeOK
  <2>3. Following(s)'
    BY <1>2, <1>3, <1>4, <1>5, <2>2 DEF Following
  <2> QED
    BY <1>3, <1>10, <2>1, <2>3 DEF RemoveTeam, TypeOK
<1>11. CASE EndSync(s)
  BY <1>3, <1>11 DEF EndSync, Following, TypeOK
<1> QED
  BY <1>6, <1>7, <1>8, <1>9, <1>10, <1>11 DEF HealthyStep

\* Syncs go on following as long as nobody else is at work.
LEMMA FollowKept ==
  ASSUME FollowInv, [\E s \in Sync : HealthyStep(s)]_vars
  PROVE  FollowInv'
<1>1. [Next]_vars
  BY DEF Next, SyncStep
<1>2. GoneInv' /\ IdleIsEmpty'
  BY <1>1, TeamAssumption, NextType, NextGone, NextIdle DEF FollowInv, GoneInv
<1>3. CASE UNCHANGED vars
  BY <1>2, <1>3 DEF FollowInv, Following, vars, syncVars, Names
<1> QED
  BY <1>2, <1>3, FollowStep DEF FollowInv

\* From an end of a sync on, and through the work of those that still run.
MirrorKept ==
  [][ /\ \A s \in Sync : EndSync(s) => Mirrored'
      /\ Mirrored => Mirrored' ]_vars

\* Whenever all syncs are idle and from then on nobody but syncs is at work, the
\* first of them that ends leaves teams and groups in agreement, overlap as they
\* may, and no later step of any of them breaks it again.
THEOREM UndisturbedSyncMirrors == Spec => [](AllIdle /\ Undisturbed => MirrorKept)
<1>1. Init => GoneInv /\ IdleIsEmpty
  BY TeamAssumption, InitType, InitGone DEF GoneInv, Init, IdleIsEmpty
<1>2. GoneInv /\ IdleIsEmpty /\ [Next]_vars => (GoneInv /\ IdleIsEmpty)'
  BY TeamAssumption, NextType, NextGone, NextIdle DEF GoneInv
<1>3. GoneInv /\ IdleIsEmpty /\ AllIdle => FollowInv
  BY DEF IdleIsEmpty, AllIdle, FollowInv, Following
<1>4. FollowInv /\ [\E s \in Sync : HealthyStep(s)]_vars => FollowInv'
  BY FollowKept
<1>5. FollowInv /\ [\E s \in Sync : HealthyStep(s)]_vars =>
        [/\ \A s \in Sync : EndSync(s) => Mirrored'
         /\ Mirrored => Mirrored']_vars
  <2> SUFFICES ASSUME FollowInv, NEW p \in Sync, HealthyStep(p)
               PROVE  /\ \A s \in Sync : EndSync(s) => Mirrored'
                      /\ Mirrored => Mirrored'
    OBVIOUS
  <2>1. /\ groups' = groups
        /\ \A r \in teams \ teams' : r.name \notin groups
        /\ \A r \in teams' \ teams : r.name \in groups \ Ignored
    BY FollowingRows
  <2>2. Mirrored => Mirrored'
    BY <2>1 DEF Mirrored, Names
  <2>3. ASSUME NEW s \in Sync, EndSync(s) PROVE Mirrored
    BY <2>3 DEF EndSync, FollowInv, Following, Mirrored, Names
  <2> QED
    BY <2>2, <2>3
<1> QED
  BY <1>1, <1>2, <1>3, <1>4, <1>5, PTL DEF Spec, Undisturbed, MirrorKept
=============================================================================
