--------------------------- MODULE HostSyncProofs ---------------------------
(***************************************************************************)
(* Proofs about HostSync, for any hosts, teams, syncs and requests.        *)
(***************************************************************************)
EXTENDS HostSync, TLAPS

(***************************************************************************)
(* TypeOK is not inductive: a write is only sound because what it writes   *)
(* was read from a host that is still there.  GoneOK says that what a sync *)
(* will remove it has not seen, and that it decides so after its fetch.    *)
(***************************************************************************)
GoneOK ==
  \A s \in Sync : gone[s] \cap fetched[s] = {} /\ (pc[s] # "remove" => gone[s] = {})
HostInv == TypeOK /\ ReadsLive /\ GoneOK

LEMMA InitHostInv == Init => HostInv
BY DEF Init, HostInv, TypeOK, PortalOK, ZabbixOK, SyncOK, JobsOK, ReadsLive, GoneOK,
       Editing, NoJob, Pair

LEMMA ShownPairs == ByGroup \subseteq Pair /\ Shown \subseteq Pair
BY DEF ByGroup, Shown

-----------------------------------------------------------------------------
(* SYNCS *)

\* A sync touches neither teams nor Zabbix nor the requests.
LEMMA SyncFrame ==
  ASSUME NEW s \in Sync, SyncStep(s)
  PROVE  UNCHANGED <<teams, zabbixVars, job>>
BY DEF SyncStep, HealthyStep, ListTeams, ListTeamsFails, ListInto, FetchHosts, FetchHostsFails,
       AssignShown, Overview, OverviewFails, OverviewInto, RemoveStale, EndSync, portalVars

LEMMA SyncKeeps ==
  ASSUME HostInv, NEW s \in Sync, SyncStep(s)
  PROVE  PortalOK' /\ SyncOK' /\ GoneOK'
<1> USE DEF HostInv, TypeOK
<1>1. ASSUME ListTeams(s) \/ ListTeamsFails(s) PROVE PortalOK' /\ SyncOK' /\ GoneOK'
  BY <1>1 DEF ListTeams, ListTeamsFails, ListInto, PortalOK, SyncOK, GoneOK, portalVars
<1>2. ASSUME FetchHosts(s) \/ FetchHostsFails(s) PROVE PortalOK' /\ SyncOK' /\ GoneOK'
  BY <1>2, ShownPairs
  DEF FetchHosts, FetchHostsFails, PortalOK, SyncOK, GoneOK, portalVars, Pair
<1>3. ASSUME AssignShown(s) PROVE PortalOK' /\ SyncOK' /\ GoneOK'
  BY <1>3 DEF AssignShown, PortalOK, SyncOK, GoneOK
<1>4. ASSUME Overview(s) \/ OverviewFails(s) PROVE PortalOK' /\ SyncOK' /\ GoneOK'
  BY <1>4 DEF Overview, OverviewFails, OverviewInto, Missing, PortalOK, SyncOK, GoneOK,
              portalVars, Pair
<1>5. ASSUME RemoveStale(s) PROVE PortalOK' /\ SyncOK' /\ GoneOK'
  BY <1>5 DEF RemoveStale, PortalOK, SyncOK, GoneOK
<1>6. ASSUME EndSync(s) PROVE PortalOK' /\ SyncOK' /\ GoneOK'
  BY <1>6 DEF EndSync, PortalOK, SyncOK, GoneOK, portalVars
<1> QED
  BY <1>1, <1>2, <1>3, <1>4, <1>5, <1>6 DEF SyncStep, HealthyStep

LEMMA SyncKeepsInv ==
  ASSUME HostInv, NEW s \in Sync, SyncStep(s)
  PROVE  HostInv'
<1>1. UNCHANGED <<zabbixVars, job>>
  BY SyncFrame
<1>2. ZabbixOK' /\ JobsOK' /\ ReadsLive'
  BY <1>1 DEF HostInv, TypeOK, ZabbixOK, JobsOK, ReadsLive, Editing, zabbixVars
<1> QED
  BY <1>2, SyncKeeps DEF HostInv, TypeOK

-----------------------------------------------------------------------------
(* REQUESTS *)

\* What a request starts with, and what is left of it after its tags.
LEMMA EditType ==
  ASSUME NEW h \in Host, NEW t \in Team,
         NEW op \in {"add", "remove", "tag", "group", "retag"}
  PROVE  Edit(op, h, t) \in Job /\ ~Edit(op, h, t).read
BY DEF Edit, Job

LEMMA AfterType ==
  ASSUME NEW j \in Job \cup {NoJob}, j.op \in {"add", "remove", "tag", "group", "retag"}
  PROVE  /\ After(j) \in Job \cup {NoJob}
         /\ After(j) = NoJob \/ ~After(j).read
BY DEF After, Job, NoJob

\* A client that takes up a job that has read nothing, or none, keeps both.
LEMMA OweKeeps ==
  ASSUME HostInv, NEW c \in Client, NEW j \in Job \cup {NoJob}, Owe(c, j),
         j.op \in {"add", "remove", "tag", "group", "retag"} => ~j.read,
         hosts \subseteq hosts'
  PROVE  JobsOK' /\ ReadsLive'
<1>1. JobsOK'
  BY DEF HostInv, TypeOK, JobsOK, Owe
<1>2. ASSUME NEW k \in Client, Editing(k)', job'[k].read
      PROVE  job'[k] = job[k] /\ Editing(k) /\ job[k].read
  BY <1>2 DEF HostInv, TypeOK, JobsOK, Owe, Editing
<1>3. ReadsLive'
  BY <1>2 DEF HostInv, ReadsLive
<1> QED
  BY <1>1, <1>3

LEMMA NewRequestKeeps ==
  ASSUME HostInv, NEW c \in Client, NewRequest(c)
  PROVE  HostInv'
<1> USE DEF HostInv, TypeOK
<1>0. NoJob \in Job \cup {NoJob} /\ NoJob.op \notin {"add", "remove", "tag", "group", "retag"}
  BY DEF NoJob
<1>1. ASSUME DeleteTeam(c) PROVE HostInv'
  <2>1. PICK t \in teams :
          DropTeam(t) /\ (job' = job \/ Owe(c, [op |-> "deleteTeam", team |-> t]))
    BY <1>1 DEF DeleteTeam
  <2>2. UNCHANGED <<hosts, groups, tags, pc, listed, fetched>>
    BY <1>1 DEF DeleteTeam, zabbixVars
  <2>3. PortalOK' /\ SyncOK' /\ GoneOK'
    BY <2>1, <2>2 DEF DropTeam, PortalOK, SyncOK, GoneOK
  <2>4. ZabbixOK'
    BY <2>2 DEF ZabbixOK
  <2>5. JobsOK' /\ ReadsLive'
    <3>1. CASE job' = job
      BY <3>1, <2>2 DEF JobsOK, ReadsLive, Editing
    <3>2. CASE Owe(c, [op |-> "deleteTeam", team |-> t])
      <4>1. [op |-> "deleteTeam", team |-> t] \in Job
        BY DEF PortalOK, Job
      <4> QED
        BY <3>2, <4>1, <2>2, OweKeeps
    <3> QED
      BY <2>1, <3>1, <3>2
  <2> QED
    BY <2>3, <2>4, <2>5
<1>2. ASSUME AssignHost(c) PROVE HostInv'
  <2>1. PICK h \in Host, t \in Team : t \in teams /\ assigned' = assigned \cup {<<h, t>>}
                                  /\ Owe(c, Edit("add", h, t))
    BY <1>2 DEF AssignHost, PortalOK
  <2>2. UNCHANGED <<teams, zabbixVars, syncVars>>
    BY <1>2 DEF AssignHost
  <2>3. JobsOK' /\ ReadsLive'
    BY <2>1, <2>2, EditType, OweKeeps DEF zabbixVars
  <2>4. PortalOK' /\ ZabbixOK' /\ SyncOK' /\ GoneOK'
    BY <2>1, <2>2 DEF PortalOK, ZabbixOK, SyncOK, GoneOK, zabbixVars, syncVars
  <2> QED
    BY <2>3, <2>4
<1>3. ASSUME UnassignHost(c) PROVE HostInv'
  <2>1. PICK p \in assigned : assigned' = assigned \ {p} /\ Owe(c, Edit("remove", p[1], p[2]))
    BY <1>3 DEF UnassignHost
  <2>2. UNCHANGED <<teams, zabbixVars, syncVars>>
    BY <1>3 DEF UnassignHost
  <2>3. p[1] \in Host /\ p[2] \in Team
    BY <2>1 DEF PortalOK
  <2>4. JobsOK' /\ ReadsLive'
    BY <2>1, <2>2, <2>3, EditType, OweKeeps DEF zabbixVars
  <2>5. PortalOK' /\ ZabbixOK' /\ SyncOK' /\ GoneOK'
    BY <2>1, <2>2 DEF PortalOK, ZabbixOK, SyncOK, GoneOK, zabbixVars, syncVars
  <2> QED
    BY <2>4, <2>5
<1>4. ASSUME Retag(c) PROVE HostInv'
  <2>1. PICK op \in {"retag", "tag", "group"}, h \in Host, t \in Team : Owe(c, Edit(op, h, t))
    <3>1. CASE \E h \in Host, t \in Team : Owe(c, Edit("retag", h, t))
      BY <3>1
    <3>2. CASE \E p \in assigned, op \in {"tag", "group"} : Owe(c, Edit(op, p[1], p[2]))
      BY <3>2 DEF PortalOK
    <3> QED
      BY <1>4, <3>1, <3>2 DEF Retag
  <2>2. UNCHANGED <<portalVars, zabbixVars, syncVars>>
    BY <1>4 DEF Retag
  <2>3. JobsOK' /\ ReadsLive'
    BY <2>1, <2>2, EditType, OweKeeps DEF zabbixVars
  <2>4. PortalOK' /\ ZabbixOK' /\ SyncOK' /\ GoneOK'
    BY <2>2 DEF PortalOK, ZabbixOK, SyncOK, GoneOK, portalVars, zabbixVars, syncVars
  <2> QED
    BY <2>3, <2>4
<1>5. ASSUME CreateHost(c) PROVE HostInv'
  <2>1. PICK h \in Host \ hosts, gs \in (SUBSET HostGroup) \ {{}} :
          /\ hosts' = hosts \cup {h}
          /\ groups' = [groups EXCEPT ![h] = gs]
          /\ \/ UNCHANGED <<assigned, job>>
             \/ \E t \in teams :
                  /\ assigned' = assigned \cup {<<h, t>>}
                  /\ job' = job \/ Owe(c, Edit("add", h, t))
    BY <1>5 DEF CreateHost
  <2>2. UNCHANGED <<teams, tags, syncVars>>
    BY <1>5 DEF CreateHost
  <2>3. ZabbixOK'
    <3>1. h \in Host /\ gs \in SUBSET HostGroup /\ gs # {}
      BY <2>1
    <3>2. hosts' = hosts \cup {h} /\ groups' = [groups EXCEPT ![h] = gs] /\ tags' = tags
      BY <2>1, <2>2
    <3> QED
      BY <3>1, <3>2 DEF ZabbixOK
  <2>4. PortalOK' /\ SyncOK' /\ GoneOK'
    <3>1. PortalOK'
      BY <2>1, <2>2 DEF PortalOK
    <3>2. SyncOK' /\ GoneOK'
      BY <2>2 DEF SyncOK, GoneOK, syncVars
    <3> QED
      BY <3>1, <3>2
  <2>5. JobsOK' /\ ReadsLive'
    <3>1. CASE job' = job
      BY <3>1, <2>1 DEF JobsOK, ReadsLive, Editing
    <3>2. CASE \E t \in teams : Owe(c, Edit("add", h, t))
      <4>1. PICK t \in Team : Owe(c, Edit("add", h, t))
        BY <3>2 DEF PortalOK
      <4> QED
        BY <2>1, <4>1, EditType, OweKeeps
    <3> QED
      BY <2>1, <3>1, <3>2
  <2> QED
    BY <2>3, <2>4, <2>5
<1>6. ASSUME DeleteHost(c) PROVE HostInv'
  <2>1. PICK h \in hosts : /\ assigned' = {p \in assigned : p[1] # h}
                          /\ Owe(c, [op |-> "deleteHost", host |-> h])
    BY <1>6 DEF DeleteHost
  <2>2. UNCHANGED <<teams, zabbixVars, syncVars>>
    BY <1>6 DEF DeleteHost
  <2>3. [op |-> "deleteHost", host |-> h] \in Job
    BY <2>1 DEF ZabbixOK, Job
  <2>4. JobsOK' /\ ReadsLive'
    BY <2>1, <2>2, <2>3, OweKeeps DEF zabbixVars
  <2>5. PortalOK' /\ ZabbixOK' /\ SyncOK' /\ GoneOK'
    BY <2>1, <2>2 DEF PortalOK, ZabbixOK, SyncOK, GoneOK, zabbixVars, syncVars
  <2> QED
    BY <2>4, <2>5
<1> QED
  BY <1>1, <1>2, <1>3, <1>4, <1>5, <1>6 DEF NewRequest

-----------------------------------------------------------------------------
(* WHAT FOLLOWS IN ZABBIX *)

\* A host that goes takes along the reads of the others.
LEMMA DropHostKeeps ==
  ASSUME HostInv, NEW h \in hosts, NEW done \in SUBSET Client, DropHost(h, done)
  PROVE  ZabbixOK' /\ JobsOK' /\ ReadsLive'
<1> USE DEF HostInv, TypeOK
<1>1. ZabbixOK'
  BY DEF DropHost, ZabbixOK
<1>2. ASSUME NEW k \in Client
      PROVE  /\ job'[k] \in Job \cup {NoJob}
             /\ Editing(k)' /\ job'[k].read =>
                  job'[k] = job[k] /\ Editing(k) /\ job[k].host # h
  <2>1. job'[k] = IF k \in done THEN NoJob
                  ELSE IF Editing(k) /\ job[k].host = h /\ job[k].read THEN After(job[k])
                  ELSE job[k]
    BY DEF DropHost
  <2>2. job[k] \in Job \cup {NoJob}
    BY DEF JobsOK
  <2>3. CASE job'[k] = NoJob
    BY <2>3 DEF NoJob, Editing
  <2>4. CASE Editing(k) /\ job'[k] = After(job[k])
    <3>1. /\ After(job[k]) \in Job \cup {NoJob}
          /\ After(job[k]) = NoJob \/ ~After(job[k]).read
      BY <2>2, <2>4, AfterType DEF Editing
    <3> QED
      BY <2>4, <3>1 DEF NoJob, Editing
  <2>5. CASE job'[k] = job[k] /\ ~(Editing(k) /\ job[k].host = h /\ job[k].read)
    BY <2>2, <2>5 DEF Editing
  <2> QED
    BY <2>1, <2>3, <2>4, <2>5
<1>3. JobsOK'
  BY <1>2 DEF DropHost, JobsOK
<1>4. ReadsLive'
  BY <1>2 DEF DropHost, ReadsLive
<1> QED
  BY <1>1, <1>3, <1>4

\* The job of a client that edits a host, and what it has read.
LEMMA EditingJob ==
  ASSUME HostInv, NEW c \in Client, Editing(c)
  PROVE  /\ job[c] \in Job
         /\ job[c].host \in Host /\ job[c].team \in Team
         /\ job[c].part \in {"tags", "groups"}
         /\ job[c].seen \in SUBSET HostGroup
BY DEF HostInv, TypeOK, JobsOK, Editing, Job, NoJob

LEMMA AfterKeeps ==
  ASSUME HostInv, NEW c \in Client, Editing(c), Owe(c, After(job[c])), hosts \subseteq hosts'
  PROVE  JobsOK' /\ ReadsLive'
<1>1. /\ After(job[c]) \in Job \cup {NoJob}
      /\ After(job[c]) = NoJob \/ ~After(job[c]).read
  BY EditingJob, AfterType DEF Editing
<1>2. After(job[c]) = NoJob => After(job[c]).op \notin {"add", "remove", "tag", "group", "retag"}
  BY DEF NoJob
<1> QED
  BY <1>1, <1>2, OweKeeps

LEMMA EndKeeps ==
  ASSUME HostInv, NEW c \in Client, Owe(c, NoJob), hosts \subseteq hosts'
  PROVE  JobsOK' /\ ReadsLive'
<1>1. NoJob \in Job \cup {NoJob} /\ NoJob.op \notin {"add", "remove", "tag", "group", "retag"}
  BY DEF NoJob
<1> QED
  BY <1>1, OweKeeps

LEMMA FinishKeeps ==
  ASSUME HostInv, NEW c \in Client, FinishRequest(c)
  PROVE  HostInv'
<1> USE DEF HostInv, TypeOK
<1>0. UNCHANGED <<portalVars, syncVars>>
  BY DEF FinishRequest, Read, WriteTags, WriteGroups, PushDeleteHost, PushDeleteTeam, CallFails
<1>1. PortalOK' /\ SyncOK' /\ GoneOK'
  BY <1>0 DEF PortalOK, SyncOK, GoneOK, portalVars, syncVars
<1>2. ASSUME Read(c) PROVE ZabbixOK' /\ JobsOK' /\ ReadsLive'
  <2>1. UNCHANGED zabbixVars /\ Editing(c)
    BY <1>2 DEF Read
  <2>2. ZabbixOK'
    BY <2>1 DEF ZabbixOK, zabbixVars
  <2>3. JobsOK' /\ ReadsLive'
    <3>1. CASE job[c].host \notin hosts
      <4>1. Owe(c, After(job[c]))
        BY <1>2, <3>1 DEF Read
      <4> QED
        BY <2>1, <4>1, AfterKeeps DEF zabbixVars
    <3>2. CASE job[c].host \in hosts
      <4> DEFINE seen == IF job[c].part = "tags" THEN tags[job[c].host] ELSE groups[job[c].host]
                 new == [job[c] EXCEPT !.read = TRUE, !.seen = seen]
      <4>1. Owe(c, new)
        BY <1>2, <3>2 DEF Read
      <4>2. seen \in SUBSET HostGroup /\ (job[c].part = "tags" => seen \subseteq Team)
        BY <2>1, EditingJob DEF ZabbixOK, HostGroup
      <4>3. /\ new \in Job /\ new.op = job[c].op /\ new.host = job[c].host
            /\ new.part = job[c].part /\ new.seen = seen
        <5> HIDE DEF seen
        <5>1. job[c] \in [op : {"add", "remove", "tag", "group", "retag"}, part : {"tags", "groups"},
                          host : Host, team : Team, read : BOOLEAN, seen : SUBSET HostGroup]
          BY <2>1, EditingJob DEF Job, Editing
        <5> QED
          BY <5>1, <4>2 DEF Job
      <4> HIDE DEF new, seen
      <4>4. JobsOK'
        BY <4>1, <4>3 DEF Owe, JobsOK
      <4>5. ASSUME NEW k \in Client, Editing(k)', job'[k].read
            PROVE  job'[k].host \in hosts' /\ (job'[k].part = "tags" => job'[k].seen \subseteq Team)
        <5>1. CASE k = c
          BY <5>1, <4>1, <4>2, <4>3, <3>2, <2>1 DEF Owe, JobsOK, zabbixVars
        <5>2. CASE k # c
          BY <5>2, <4>1, <4>5, <2>1 DEF Owe, JobsOK, ReadsLive, Editing, zabbixVars
        <5> QED
          BY <5>1, <5>2
      <4> QED
        BY <4>4, <4>5 DEF ReadsLive
    <3> QED
      BY <3>1, <3>2
  <2> QED
    BY <2>2, <2>3
<1>3. ASSUME WriteTags(c) PROVE ZabbixOK' /\ JobsOK' /\ ReadsLive'
  <2>1. /\ Editing(c) /\ Owe(c, After(job[c])) /\ UNCHANGED <<hosts, groups>>
        /\ job[c].host \in hosts /\ job[c].seen \subseteq Team
    BY <1>3 DEF WriteTags, ReadsLive
  <2>2. JobsOK' /\ ReadsLive'
    BY <2>1, AfterKeeps
  <2>3. PICK ts \in SUBSET Team : tags' = tags \/ tags' = [tags EXCEPT ![job[c].host] = ts]
    <3>1. job[c].team \in Team
      BY <2>1, EditingJob
    <3>2. \/ tags' = tags
          \/ tags' = [tags EXCEPT ![job[c].host] = job[c].seen \cup {job[c].team}]
          \/ tags' = [tags EXCEPT ![job[c].host] = job[c].seen \ {job[c].team}]
          \/ tags' = [tags EXCEPT ![job[c].host] = job[c].seen]
      BY <1>3 DEF WriteTags
    <3> QED
      BY <2>1, <3>1, <3>2
  <2>4. ZabbixOK'
    BY <2>1, <2>3 DEF ZabbixOK
  <2> QED
    BY <2>2, <2>4
<1>4. ASSUME WriteGroups(c) PROVE ZabbixOK' /\ JobsOK' /\ ReadsLive'
  <2>1. /\ Editing(c) /\ Owe(c, After(job[c])) /\ UNCHANGED <<hosts, tags>>
        /\ job[c].host \in hosts
    BY <1>4 DEF WriteGroups, ReadsLive
  <2>2. JobsOK' /\ ReadsLive'
    BY <2>1, AfterKeeps
  <2>3. job[c].team \in Team /\ job[c].seen \in SUBSET HostGroup
    BY <2>1, EditingJob
  <2>4. PICK gs \in SUBSET HostGroup :
          groups' = groups \/ (gs # {} /\ groups' = [groups EXCEPT ![job[c].host] = gs])
    <3>1. CASE job[c].op = "remove"
      BY <1>4, <2>3, <3>1 DEF WriteGroups
    <3>2. CASE job[c].op # "remove"
      BY <1>4, <2>3, <3>2 DEF WriteGroups, HostGroup
    <3> QED
      BY <3>1, <3>2
  <2>5. ZabbixOK'
    BY <2>1, <2>4 DEF ZabbixOK
  <2> QED
    BY <2>2, <2>5
<1>5. ASSUME PushDeleteHost(c) PROVE ZabbixOK' /\ JobsOK' /\ ReadsLive'
  <2>1. CASE job[c].host \in hosts
    BY <1>5, <2>1, DropHostKeeps DEF PushDeleteHost
  <2>2. CASE job[c].host \notin hosts
    BY <1>5, <2>2, EndKeeps DEF PushDeleteHost, ZabbixOK, zabbixVars
  <2> QED
    BY <2>1, <2>2
<1>6. ASSUME PushDeleteTeam(c) PROVE ZabbixOK' /\ JobsOK' /\ ReadsLive'
  <2>1. UNCHANGED <<hosts, tags>>
    BY <1>6 DEF PushDeleteTeam
  <2>2. CASE Owe(c, NoJob) /\ UNCHANGED groups
    BY <2>1, <2>2, EndKeeps DEF ZabbixOK
  <2>3. CASE ~\E h \in hosts : groups[h] = {job[c].team}
    <3>1. groups' = [h \in Host |-> groups[h] \ {job[c].team}]
      BY <1>6, <2>3 DEF PushDeleteTeam
    <3>2. ZabbixOK'
      BY <2>1, <2>3, <3>1 DEF ZabbixOK
    <3>3. PICK ended \in SUBSET Client :
            job' = [k \in Client |-> IF k \in ended THEN NoJob ELSE job[k]]
      <4> DEFINE ended == {k \in Client : k = c \/ (Editing(k) /\ job[k].part = "groups"
                                  /\ job[k].read /\ job[c].team \in job[k].seen)}
      <4>1. job' = [k \in Client |-> IF k \in ended THEN NoJob ELSE job[k]]
        BY <1>6, <2>3 DEF PushDeleteTeam
      <4> QED
        BY <4>1
    <3>4. JobsOK' /\ ReadsLive'
      BY <2>1, <3>3 DEF JobsOK, ReadsLive, Editing, NoJob
    <3> QED
      BY <3>2, <3>4
  <2> QED
    BY <1>6, <2>2, <2>3 DEF PushDeleteTeam
<1>7. ASSUME CallFails(c) PROVE ZabbixOK' /\ JobsOK' /\ ReadsLive'
  <2>1. UNCHANGED zabbixVars
    BY <1>7 DEF CallFails
  <2>2. ZabbixOK'
    BY <2>1 DEF ZabbixOK, zabbixVars
  <2>3. CASE Editing(c)
    BY <1>7, <2>1, <2>2, <2>3, AfterKeeps DEF CallFails, zabbixVars
  <2>4. CASE ~Editing(c)
    BY <1>7, <2>1, <2>2, <2>4, EndKeeps DEF CallFails, zabbixVars
  <2> QED
    BY <2>3, <2>4
<1> QED
  BY <1>1, <1>2, <1>3, <1>4, <1>5, <1>6, <1>7 DEF FinishRequest

-----------------------------------------------------------------------------
(* EVERY STEP *)

LEMMA RestartKeeps ==
  ASSUME HostInv, Restart
  PROVE  HostInv'
<1> USE DEF HostInv, TypeOK
<1>1. PortalOK' /\ ZabbixOK'
  BY DEF Restart, PortalOK, ZabbixOK, portalVars, zabbixVars
<1>2. SyncOK' /\ GoneOK'
  BY DEF Restart, SyncOK, GoneOK
<1>3. JobsOK' /\ ReadsLive'
  BY DEF Restart, JobsOK, ReadsLive, Editing, NoJob
<1> QED
  BY <1>1, <1>2, <1>3

LEMMA OthersKeep ==
  ASSUME HostInv, CreateTeam \/ SetGroups \/ SetTags \/ RemoveHost
  PROVE  HostInv'
<1> USE DEF HostInv, TypeOK
<1>1. ASSUME CreateTeam PROVE HostInv'
  <2>1. PortalOK' /\ SyncOK' /\ GoneOK'
    BY <1>1 DEF CreateTeam, PortalOK, SyncOK, GoneOK, syncVars
  <2>2. ZabbixOK' /\ JobsOK' /\ ReadsLive'
    BY <1>1 DEF CreateTeam, ZabbixOK, JobsOK, ReadsLive, Editing, zabbixVars
  <2> QED
    BY <2>1, <2>2
<1>2. ASSUME SetGroups \/ SetTags PROVE HostInv'
  <2>1. PortalOK' /\ SyncOK' /\ GoneOK' /\ JobsOK' /\ ReadsLive'
    BY <1>2 DEF SetGroups, SetTags, PortalOK, SyncOK, GoneOK, JobsOK, ReadsLive, Editing,
                portalVars, syncVars
  <2>2. ZabbixOK'
    <3>1. CASE SetGroups
      <4>1. PICK h \in hosts, gs \in (SUBSET HostGroup) \ {{}} : groups' = [groups EXCEPT ![h] = gs]
        BY <3>1 DEF SetGroups
      <4>2. gs \in SUBSET HostGroup /\ gs # {} /\ UNCHANGED <<hosts, tags>>
        BY <3>1, <4>1 DEF SetGroups
      <4> QED
        BY <4>1, <4>2 DEF ZabbixOK
    <3>2. CASE SetTags
      BY <3>2 DEF SetTags, ZabbixOK
    <3> QED
      BY <1>2, <3>1, <3>2
  <2> QED
    BY <2>1, <2>2
<1>3. ASSUME RemoveHost PROVE HostInv'
  <2>1. ZabbixOK' /\ JobsOK' /\ ReadsLive'
    BY <1>3, DropHostKeeps DEF RemoveHost
  <2>2. PortalOK' /\ SyncOK' /\ GoneOK'
    BY <1>3 DEF RemoveHost, PortalOK, SyncOK, GoneOK, portalVars, syncVars
  <2> QED
    BY <2>1, <2>2
<1> QED
  BY <1>1, <1>2, <1>3

LEMMA NextKeeps ==
  ASSUME HostInv, [Next]_vars
  PROVE  HostInv'
<1>1. CASE UNCHANGED vars
  BY <1>1 DEF vars, portalVars, zabbixVars, syncVars, HostInv, TypeOK, PortalOK, ZabbixOK, SyncOK,
              JobsOK, ReadsLive, Editing, GoneOK
<1>2. CASE Next
  BY <1>2, SyncKeepsInv, NewRequestKeeps, FinishKeeps, RestartKeeps, OthersKeep DEF Next
<1> QED
  BY <1>1, <1>2

\* Every reachable state is well typed: assignments have their team, syncs use
\* no id of a deleted team, and the read-modify-writes of concurrent requests
\* leave each host of Zabbix in some group.
THEOREM TypeCorrect == Spec => []TypeOK
<1>1. HostInv => TypeOK
  BY DEF HostInv
<1>2. [Next /\ Watch]_<<vars, unshown>> => [Next]_vars
  OBVIOUS
<1> QED
  BY <1>1, <1>2, InitHostInv, NextKeeps, PTL DEF Spec

\* What a sync did not fetch had not been shown at that moment, and what it will
\* remove is of a team it listed.
Noted ==
  \A s \in Sync :
    /\ pc[s] \in {"assign", "remove"} => Pair \ fetched[s] \subseteq unshown[s]
    /\ \A p \in gone[s] : p[2] \in listed[s]

\* A sync step concerns one sync, the others go on; a request takes from what
\* they will remove; a restart ends them.
LEMMA SyncsApart ==
  ASSUME HostInv, Next, NEW s \in Sync
  PROVE  \/ SyncStep(s)
         \/ pc'[s] = "idle" /\ gone'[s] = {}
         \/ /\ pc'[s] = pc[s] /\ fetched'[s] = fetched[s] /\ listed'[s] = listed[s]
            /\ gone'[s] \subseteq gone[s]
<1> DEFINE Same == /\ pc'[s] = pc[s] /\ fetched'[s] = fetched[s] /\ listed'[s] = listed[s]
                   /\ gone'[s] \subseteq gone[s]
<1> USE DEF HostInv, TypeOK, SyncOK
<1>1. ASSUME NEW r \in Sync, SyncStep(r), r # s PROVE Same
  BY <1>1 DEF SyncStep, HealthyStep, ListTeams, ListTeamsFails, ListInto, FetchHosts,
     FetchHostsFails, AssignShown, Overview, OverviewFails, OverviewInto, RemoveStale, EndSync
<1>2. ASSUME NEW c \in Client, DeleteTeam(c) PROVE Same
  BY <1>2 DEF DeleteTeam, DropTeam
<1>3. ASSUME UNCHANGED syncVars PROVE Same
  BY <1>3 DEF syncVars
<1>4. ASSUME NEW c \in Client, NewRequest(c) \/ FinishRequest(c) PROVE Same
  BY <1>2, <1>3, <1>4
  DEF NewRequest, FinishRequest, AssignHost, UnassignHost, Retag, CreateHost, DeleteHost, Read,
      WriteTags, WriteGroups, PushDeleteHost, PushDeleteTeam, CallFails
<1>5. ASSUME CreateTeam \/ SetGroups \/ SetTags \/ RemoveHost PROVE Same
  BY <1>3, <1>5 DEF CreateTeam, SetGroups, SetTags, RemoveHost
<1>6. ASSUME Restart PROVE pc'[s] = "idle" /\ gone'[s] = {}
  BY <1>6 DEF Restart
<1> QED
  BY <1>1, <1>4, <1>5, <1>6 DEF Next

LEMMA NotedKept ==
  ASSUME HostInv, Noted, Next, Watch
  PROVE  Noted'
<1> SUFFICES ASSUME NEW s \in Sync
             PROVE  /\ pc'[s] \in {"assign", "remove"} => Pair \ fetched'[s] \subseteq unshown'[s]
                    /\ \A p \in gone'[s] : p[2] \in listed'[s]
  BY DEF Noted, Pair
<1>1. pc'[s] # "idle" => unshown'[s] = unshown[s] \cup (Pair \ Shown')
  BY DEF Watch
<1>2. /\ pc[s] \in {"assign", "remove"} => Pair \ fetched[s] \subseteq unshown[s]
      /\ \A p \in gone[s] : p[2] \in listed[s]
  BY DEF Noted
<1> USE DEF HostInv, TypeOK, SyncOK
<1>3. CASE SyncStep(s)
  <2>1. CASE FetchHosts(s)
    <3>1. fetched'[s] = Shown /\ Shown' = Shown /\ gone'[s] = gone[s] /\ listed'[s] = listed[s]
      BY <2>1 DEF FetchHosts, zabbixVars, Shown
    <3> QED BY <1>1, <1>2, <2>1, <3>1 DEF FetchHosts
  <2>2. CASE ListTeams(s) \/ ListTeamsFails(s) \/ FetchHostsFails(s) \/ EndSync(s)
    BY <2>2 DEF ListTeams, ListTeamsFails, ListInto, FetchHostsFails, EndSync, GoneOK
  <2>3. CASE AssignShown(s) \/ RemoveStale(s)
    BY <1>1, <1>2, <2>3 DEF AssignShown, RemoveStale
  <2>4. CASE Overview(s) \/ OverviewFails(s)
    BY <1>1, <1>2, <2>4 DEF Overview, OverviewFails, OverviewInto, Missing
  <2> QED
    BY <1>3, <2>1, <2>2, <2>3, <2>4 DEF SyncStep, HealthyStep
<1>4. CASE pc'[s] = "idle" /\ gone'[s] = {}
  BY <1>4
<1>5. CASE /\ pc'[s] = pc[s] /\ fetched'[s] = fetched[s] /\ listed'[s] = listed[s]
           /\ gone'[s] \subseteq gone[s]
  BY <1>1, <1>2, <1>5
<1> QED
  BY <1>3, <1>4, <1>5, SyncsApart

\* Whatever requests and other syncs do between its reads, a sync leaves a row
\* alone that Zabbix showed all the while, and those of teams it did not list.
THEOREM ShownStaysAlways == Spec => ShownStays
<1> DEFINE Inv == HostInv /\ Noted
           Step == [Next /\ Watch]_<<vars, unshown>>
           Kept == [\A s \in Sync : RemoveStale(s) =>
                      assigned \ assigned' \subseteq {p \in unshown[s] : p[2] \in listed[s]}]_vars
<1>1. Init => Inv
  BY InitHostInv DEF Init, Noted
<1>2. Inv /\ Step => Inv'
  <2>1. ASSUME Inv, Next, Watch PROVE Inv'
    BY <2>1, NextKeeps, NotedKept
  <2>2. ASSUME Inv, UNCHANGED <<vars, unshown>> PROVE Inv'
    BY <2>2, NextKeeps DEF Noted, vars, syncVars, Pair
  <2> QED BY <2>1, <2>2
<1>3. Inv /\ Step => Kept
  <2> SUFFICES ASSUME Inv, NEW s \in Sync, NEW p \in assigned \ assigned', RemoveStale(s)
               PROVE  p \in unshown[s] /\ p[2] \in listed[s]
    OBVIOUS
  <2>1. p \in gone[s]
    BY DEF RemoveStale
  <2>2. p \in Pair /\ p \notin fetched[s] /\ pc[s] = "remove"
    BY <2>1 DEF HostInv, TypeOK, SyncOK, GoneOK
  <2> QED
    BY <2>1, <2>2 DEF Noted
<1> QED
  BY <1>1, <1>2, <1>3, PTL DEF Spec, ShownStays

-----------------------------------------------------------------------------
(* WHAT AN UNDISTURBED SYNC LEAVES BEHIND *)

\* Syncs that find nobody else at work, and overlap with one another at most.
Undisturbed == [][\E s \in Sync : HealthyStep(s)]_vars
AllIdle == \A s \in Sync : pc[s] = "idle"

\* A sync assigns between its fetch and its overview, and at no other time.
IdleIsEmpty == \A s \in Sync : pc[s] # "assign" => todo[s] = {}

\* The groups of teams, which have rows once a sync has assigned them.
Wanted == {p \in ByGroup : p[2] \in teams}

\* A sync that began after all else stopped knows the teams there are and what
\* Zabbix shows, and has no less to do than is left to do.
Following(s) ==
  /\ todo[s] \subseteq ByGroup
  /\ gone[s] \cap Shown = {}
  /\ pc[s] # "idle" => listed[s] = teams /\ stale[s] = {}
  /\ pc[s] \in {"assign", "remove"} => fetched[s] = Shown /\ Wanted \subseteq assigned \cup todo[s]
  /\ pc[s] = "remove" => assigned \ gone[s] \subseteq Shown

FollowInv == HostInv /\ IdleIsEmpty /\ \A s \in Sync : Following(s)

\* Host groups are among what Zabbix shows.
LEMMA GroupsAreShown == ByGroup \subseteq Shown
BY DEF ByGroup, Shown

\* No step leaves pairs to assign with a sync that does not assign.
LEMMA NextIdle ==
  ASSUME HostInv, IdleIsEmpty, [Next]_vars
  PROVE  IdleIsEmpty'
<1> USE DEF HostInv, TypeOK, SyncOK
<1>1. ASSUME NEW s \in Sync, SyncStep(s) PROVE IdleIsEmpty'
  <2>1. ASSUME ListTeams(s) \/ ListTeamsFails(s) PROVE IdleIsEmpty'
    BY <2>1 DEF ListTeams, ListTeamsFails, ListInto, IdleIsEmpty
  <2>2. ASSUME FetchHosts(s) \/ FetchHostsFails(s) PROVE IdleIsEmpty'
    BY <2>2 DEF FetchHosts, FetchHostsFails, IdleIsEmpty
  <2>3. ASSUME AssignShown(s) PROVE IdleIsEmpty'
    BY <2>3 DEF AssignShown, IdleIsEmpty
  <2>4. ASSUME Overview(s) \/ OverviewFails(s) PROVE IdleIsEmpty'
    BY <2>4 DEF Overview, OverviewFails, OverviewInto, IdleIsEmpty
  <2>5. ASSUME RemoveStale(s) \/ EndSync(s) PROVE IdleIsEmpty'
    BY <2>5 DEF RemoveStale, EndSync, IdleIsEmpty
  <2> QED
    BY <1>1, <2>1, <2>2, <2>3, <2>4, <2>5 DEF SyncStep, HealthyStep
<1>2. ASSUME pc' = pc, \A s \in Sync : todo'[s] \subseteq todo[s] PROVE IdleIsEmpty'
  BY <1>2 DEF IdleIsEmpty
<1>3. ASSUME NEW c \in Client, DeleteTeam(c) PROVE IdleIsEmpty'
  <2>1. PICK t \in teams : todo' = [s \in Sync |-> {p \in todo[s] : p[2] # t}]
    BY <1>3 DEF DeleteTeam, DropTeam
  <2> QED
    BY <1>2, <1>3, <2>1 DEF DeleteTeam
<1>4. ASSUME NEW c \in Client, NewRequest(c) \/ FinishRequest(c)
      PROVE  DeleteTeam(c) \/ UNCHANGED syncVars
  BY <1>4 DEF NewRequest, FinishRequest, AssignHost, UnassignHost, Retag, CreateHost, DeleteHost,
              Read, WriteTags, WriteGroups, PushDeleteHost, PushDeleteTeam, CallFails
<1>5. CreateTeam \/ SetGroups \/ SetTags \/ RemoveHost \/ UNCHANGED vars => UNCHANGED syncVars
  BY DEF CreateTeam, SetGroups, SetTags, RemoveHost, vars
<1>6. UNCHANGED syncVars => IdleIsEmpty'
  BY <1>2 DEF syncVars
<1>7. Restart => IdleIsEmpty'
  BY DEF Restart, IdleIsEmpty
<1> QED
  BY <1>1, <1>3, <1>4, <1>5, <1>6, <1>7 DEF Next

\* What a sync does to the table while nobody else is at work: it adds a pair
\* that Zabbix shows, or removes one that Zabbix does not show.
LEMMA FollowingRows ==
  ASSUME FollowInv, NEW s \in Sync, HealthyStep(s)
  PROVE  /\ ByGroup' = ByGroup /\ Shown' = Shown /\ teams' = teams
         /\ \A p \in assigned \ assigned' : p \notin Shown
         /\ \A p \in assigned' \ assigned : p \in ByGroup
<1>1. ByGroup' = ByGroup /\ Shown' = Shown /\ teams' = teams
  BY SyncFrame DEF SyncStep, ByGroup, Shown, zabbixVars
<1>2. Following(s)
  BY DEF FollowInv
<1>3. CASE AssignShown(s)
  BY <1>1, <1>2, <1>3 DEF AssignShown, Following
<1>4. CASE RemoveStale(s)
  BY <1>1, <1>2, <1>4 DEF RemoveStale, Following
<1>5. CASE ListTeams(s) \/ FetchHosts(s) \/ Overview(s) \/ EndSync(s)
  BY <1>1, <1>5 DEF ListTeams, ListInto, FetchHosts, Overview, OverviewInto, EndSync, portalVars
<1> QED
  BY <1>3, <1>4, <1>5 DEF HealthyStep

\* The work of the other syncs stays what it was meant to be.
LEMMA OthersFollow ==
  ASSUME FollowInv, NEW s \in Sync, HealthyStep(s), NEW p \in Sync,
         pc'[p] = pc[p], listed'[p] = listed[p], stale'[p] = stale[p],
         fetched'[p] = fetched[p], todo'[p] = todo[p], gone'[p] = gone[p]
  PROVE  Following(p)'
<1>1. Following(p) /\ Wanted' = Wanted
  BY FollowingRows DEF FollowInv, Wanted
<1>2. Wanted \subseteq Shown
  BY GroupsAreShown DEF Wanted
<1> QED
  BY <1>1, <1>2, FollowingRows, GroupsAreShown DEF Following

\* A step of a sync that follows leaves all of them following.
LEMMA FollowStep ==
  ASSUME FollowInv, NEW s \in Sync, HealthyStep(s)
  PROVE  \A p \in Sync : Following(p)'
<1>1. SUFFICES /\ \A p \in Sync \ {s} :
                    /\ pc'[p] = pc[p] /\ listed'[p] = listed[p] /\ stale'[p] = stale[p]
                    /\ fetched'[p] = fetched[p] /\ todo'[p] = todo[p] /\ gone'[p] = gone[p]
               /\ Following(s)'
  BY OthersFollow
<1>2. /\ ByGroup' = ByGroup /\ Shown' = Shown /\ teams' = teams /\ Wanted' = Wanted
      /\ \A p \in assigned \ assigned' : p \notin Shown
      /\ \A p \in assigned' \ assigned : p \in ByGroup
  BY FollowingRows DEF Wanted
<1>3. Following(s) /\ SyncOK /\ PortalOK
  BY DEF FollowInv, HostInv, TypeOK
<1>4. ByGroup \subseteq Shown /\ Wanted \subseteq ByGroup
  BY GroupsAreShown DEF Wanted
<1>5. CASE ListTeams(s)
  <2>1. /\ pc'[s] = "fetch" /\ listed'[s] = teams /\ stale'[s] = {}
        /\ UNCHANGED <<todo, gone>>
    BY <1>3, <1>5 DEF ListTeams, ListInto, SyncOK
  <2> QED
    BY <1>2, <1>3, <1>5, <2>1 DEF ListTeams, ListInto, Following, SyncOK
<1>6. CASE FetchHosts(s)
  <2>1. /\ pc[s] = "fetch" /\ pc'[s] = "assign" /\ fetched'[s] = Shown
        /\ todo'[s] = {p \in ByGroup : p[2] \in listed[s] \ stale[s]}
        /\ UNCHANGED <<listed, stale, gone>>
    BY <1>3, <1>6 DEF FetchHosts, SyncOK
  <2>2. todo'[s] = Wanted
    BY <1>3, <2>1 DEF Following, Wanted
  <2> QED
    BY <1>2, <1>3, <1>4, <1>6, <2>1, <2>2 DEF FetchHosts, Following, SyncOK
<1>7. CASE AssignShown(s)
  <2>1. PICK p \in todo[s] : /\ assigned' = assigned \cup {p}
                             /\ todo' = [todo EXCEPT ![s] = @ \ {p}]
    BY <1>7 DEF AssignShown
  <2>2. todo'[s] = todo[s] \ {p} /\ pc[s] = "assign" /\ UNCHANGED <<pc, listed, stale, fetched, gone>>
    BY <1>3, <1>7, <2>1 DEF AssignShown, SyncOK, FollowInv, IdleIsEmpty
  <2>3. Following(s)'
    BY <1>2, <1>3, <2>1, <2>2 DEF Following
  <2> QED
    BY <1>3, <1>7, <2>1, <2>3 DEF AssignShown, SyncOK
<1>8. CASE Overview(s)
  <2>1. /\ pc[s] = "assign" /\ pc'[s] = "remove" /\ todo[s] = {} /\ gone'[s] = Missing(s, assigned)
        /\ UNCHANGED <<assigned, listed, stale, fetched, todo>>
    BY <1>3, <1>8 DEF Overview, OverviewInto, SyncOK, portalVars
  <2>2. fetched[s] = Shown /\ listed[s] = teams /\ Wanted \subseteq assigned
    BY <1>3, <2>1 DEF Following
  <2>3. assigned \ gone'[s] \subseteq Shown /\ gone'[s] \cap Shown = {}
    BY <1>3, <2>1, <2>2 DEF Missing, PortalOK
  <2>4. Following(s)'
    BY <1>2, <1>3, <2>1, <2>2, <2>3 DEF Following
  <2> QED
    BY <1>3, <1>8, <2>4 DEF Overview, OverviewInto, SyncOK
<1>9. CASE RemoveStale(s)
  <2>1. PICK p \in gone[s] : /\ assigned' = assigned \ {p}
                             /\ gone' = [gone EXCEPT ![s] = @ \ {p}]
    BY <1>9 DEF RemoveStale
  <2>2. gone'[s] = gone[s] \ {p} /\ UNCHANGED <<pc, listed, stale, fetched, todo>>
    BY <1>3, <1>9, <2>1 DEF RemoveStale, SyncOK
  <2>3. Following(s)'
    BY <1>2, <1>3, <1>4, <2>1, <2>2 DEF Following
  <2> QED
    BY <1>3, <1>9, <2>1, <2>3 DEF RemoveStale, SyncOK
<1>10. CASE EndSync(s)
  <2>1. pc'[s] = "idle" /\ UNCHANGED <<todo, gone>>
    BY <1>3, <1>10 DEF EndSync, SyncOK
  <2>2. Following(s)'
    BY <1>2, <1>3, <2>1 DEF Following
  <2> QED
    BY <1>3, <1>10, <2>2 DEF EndSync, SyncOK
<1> QED
  BY <1>5, <1>6, <1>7, <1>8, <1>9, <1>10 DEF HealthyStep

\* Syncs go on following as long as nobody else is at work.
LEMMA FollowKept ==
  ASSUME FollowInv, [\E s \in Sync : HealthyStep(s)]_vars
  PROVE  FollowInv'
<1>1. [Next]_vars
  BY DEF Next, SyncStep
<1>2. HostInv' /\ IdleIsEmpty'
  BY <1>1, HostAssumption, NextKeeps, NextIdle DEF FollowInv
<1>3. CASE UNCHANGED vars
  <2>1. ByGroup' = ByGroup /\ Shown' = Shown /\ Wanted' = Wanted
    BY <1>3 DEF vars, zabbixVars, portalVars, ByGroup, Shown, Wanted
  <2> QED
    BY <1>2, <1>3, <2>1 DEF FollowInv, Following, vars, syncVars, portalVars
<1> QED
  BY <1>2, <1>3, FollowStep DEF FollowInv

\* From an end of a sync on, and through the work of those that still run.
MirrorKept ==
  [][ /\ \A s \in Sync : EndSync(s) => Mirrored'
      /\ Mirrored => Mirrored' ]_vars

\* Whenever all syncs are idle and from then on nobody but syncs is at work, the
\* first of them that ends leaves the assignments as Zabbix shows them, overlap
\* as they may, and no later step of any of them breaks it again.
THEOREM UndisturbedSyncMirrors == Spec => [](AllIdle /\ Undisturbed => MirrorKept)
<1>1. Init => HostInv /\ IdleIsEmpty
  BY InitHostInv DEF Init, IdleIsEmpty
<1>2. HostInv /\ IdleIsEmpty /\ [Next]_vars => (HostInv /\ IdleIsEmpty)'
  BY HostAssumption, NextKeeps, NextIdle
<1>3. HostInv /\ IdleIsEmpty /\ AllIdle => FollowInv
  BY DEF IdleIsEmpty, AllIdle, FollowInv, Following, HostInv, GoneOK
<1>4. FollowInv /\ [\E s \in Sync : HealthyStep(s)]_vars => FollowInv'
  BY FollowKept
<1>5. FollowInv /\ [\E s \in Sync : HealthyStep(s)]_vars =>
        [/\ \A s \in Sync : EndSync(s) => Mirrored'
         /\ Mirrored => Mirrored']_vars
  <2> SUFFICES ASSUME FollowInv, NEW p \in Sync, HealthyStep(p)
               PROVE  /\ \A s \in Sync : EndSync(s) => Mirrored'
                      /\ Mirrored => Mirrored'
    OBVIOUS
  <2>1. /\ ByGroup' = ByGroup /\ Shown' = Shown /\ teams' = teams
        /\ \A q \in assigned \ assigned' : q \notin Shown
        /\ \A q \in assigned' \ assigned : q \in ByGroup
    BY FollowingRows
  <2>2. Mirrored => Mirrored'
    BY <2>1, GroupsAreShown DEF Mirrored
  <2>3. ASSUME NEW s \in Sync, EndSync(s) PROVE Mirrored
    <3>1. pc[s] = "remove" /\ gone[s] = {} /\ todo[s] = {}
      BY <2>3 DEF EndSync, FollowInv, IdleIsEmpty
    <3> QED
      BY <3>1 DEF FollowInv, Following, Mirrored, Wanted
  <2> QED
    BY <2>2, <2>3
<1>6. [Next /\ Watch]_<<vars, unshown>> => [Next]_vars
  OBVIOUS
<1> QED
  BY <1>1, <1>2, <1>3, <1>4, <1>5, <1>6, PTL DEF Spec, Undisturbed, MirrorKept
=============================================================================
