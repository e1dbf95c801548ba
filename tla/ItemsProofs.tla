----------------------------- MODULE ItemsProofs -----------------------------
(***************************************************************************)
(* Proofs about the parts that MCItems puts together: the settings that    *)
(* are edited in place, for any LDAP servers and loads in flight; the "Add *)
(* Item" dialog, for any hosts and whatever is typed into it; the dialogs  *)
(* that save a selection, for any number of teams, things, hosts and       *)
(* batches in flight; and the order of the teams of a user.                *)
(***************************************************************************)
EXTENDS MCItems, SequenceTheorems, Enumerations, TLAPS

\* A list without one of its elements is a list of the rest.
LEMMA Removed ==
  ASSUME NEW S, NEW list \in Seq(S), NEW i \in 1..Len(list)
  PROVE  RemoveAt(list, i) \in Seq(S) /\ Len(RemoveAt(list, i)) = Len(list) - 1
<1> DEFINE a == SubSeq(list, 1, i - 1)
           b == SubSeq(list, i + 1, Len(list))
<1>1. Len(list) \in Nat /\ i \in Nat /\ i >= 1 /\ i <= Len(list)
  OBVIOUS
<1>2. a \in Seq(S) /\ Len(a) = i - 1
  BY <1>1, SubSeqProperties
<1>3. b \in Seq(S) /\ Len(b) = Len(list) - i
  BY <1>1, SubSeqProperties
<1> HIDE DEF a, b
<1>4. a \o b \in Seq(S) /\ Len(a \o b) = (i - 1) + (Len(list) - i)
  <2>1. a \o b \in Seq(S) /\ Len(a \o b) = Len(a) + Len(b)
    BY <1>2, <1>3, ConcatProperties
  <2> QED
    BY <1>2, <1>3, <2>1
<1>5. RemoveAt(list, i) = a \o b
  BY DEF RemoveAt, a, b
<1> QED
  BY <1>1, <1>4, <1>5

-----------------------------------------------------------------------------
(* The LDAP login of the portal *)

\* Once the configuration has been loaded the form no longer holds defaults, and
\* until then it cannot be sent unless a load is still under way.
PortalInv ==
  /\ PortalTypeOK
  /\ PortalKept
  /\ portalJob # <<>> => early \/ portalJob.conf # "defaults"
  /\ answered => early \/ portalForm.conf # "defaults"
  /\ portalLoads \/ answered \/ portalError

LEMMA PortalInvInit == PortalInit => PortalInv
<1> SUFFICES ASSUME PortalInit PROVE PortalInv
  OBVIOUS
<1>1. portal \in PortalConfig /\ portal.conf = "stored" /\ portal.password = "old"
  BY DEF PortalInit, PortalConfig
<1>2. portalForm \in PortalConfig
  BY DEF PortalInit, PortalConfig, Defaults
<1> QED
  BY <1>1, <1>2 DEF PortalInit, PortalInv, PortalTypeOK, PortalKept

LEMMA PortalInvStep == PortalInv /\ [PortalNext]_portalVars => PortalInv'
<1> SUFFICES ASSUME PortalInv, [PortalNext]_portalVars
             PROVE  PortalInv'
  OBVIOUS
<1> USE DEF PortalInv, PortalTypeOK, PortalKept
<1>1. CASE loadPortalLdap
  BY <1>1 DEF loadPortalLdap, PortalConfig
<1>2. CASE loadPortalLdapFails
  BY <1>2 DEF loadPortalLdapFails
<1>3. CASE setPortalLdapField
  <2>1. portalForm' \in PortalConfig /\ portalForm'.conf \in {portalForm.conf, "typed"}
    BY <1>3 DEF setPortalLdapField, PortalConfig
  <2> QED
    BY <1>3, <2>1 DEF setPortalLdapField
<1>4. CASE savePortalLdap
  <2>1. portalForm.conf = "defaults" => early'
    BY <1>4 DEF savePortalLdap, MaySavePortal
  <2>2. early' \in BOOLEAN /\ (early => early')
    BY <1>4 DEF savePortalLdap
  <2> QED
    BY <1>4, <2>1, <2>2 DEF savePortalLdap
<1>5. CASE save_portal_ldap
  <2>1. portalJob \in PortalConfig
    BY <1>5 DEF save_portal_ldap
  <2> QED
    BY <1>5, <2>1 DEF save_portal_ldap, PortalConfig
<1>6. CASE save_portal_ldapFails
  BY <1>6 DEF save_portal_ldapFails
<1>7. CASE UNCHANGED portalVars
  BY <1>7 DEF portalVars
<1> QED
  BY <1>1, <1>2, <1>3, <1>4, <1>5, <1>6, <1>7 DEF PortalNext

\* The stored LDAP configuration of the portal is never replaced by the
\* defaults of a form that could not be loaded, and its password never lost.
THEOREM PortalIsKept == AuthSpec => []PortalKept
<1>1. AuthInit => PortalInv
  BY PortalInvInit DEF AuthInit
<1>2. PortalInv /\ [AuthNext]_authVars => PortalInv'
  <2> SUFFICES ASSUME PortalInv, [AuthNext]_authVars PROVE PortalInv'
    OBVIOUS
  <2>1. [PortalNext]_portalVars
    BY DEF AuthNext, authVars
  <2> QED
    BY <2>1, PortalInvStep
<1>3. PortalInv => PortalKept
  BY DEF PortalInv
<1> QED
  BY <1>1, <1>2, <1>3, PTL DEF AuthSpec

-----------------------------------------------------------------------------
(* The dialog of an LDAP server *)

\* What a list of mappings may hold under a server: its own and added ones.
Mine(s, list) == \A i \in DOMAIN list : list[i][2] \/ list[i][1] = s

\* The dialog holds one server at a time, its form and its mappings; the dialog of
\* a mapping that is edited holds that mapping; and so does what is being saved.
ServerInv ==
  /\ ServerTypeOK
  /\ serverForm = editServerId
  /\ Mine(serverForm, mappings)
  /\ groupDialog /\ groupIdx \in DOMAIN mappings => group = mappings[groupIdx][1]
  /\ serverJob # <<>> => serverJob[2] = serverJob[1] /\ Mine(serverJob[1], serverJob[3])

\* What is put where it was changes nothing.
LEMMA PutBack ==
  ASSUME NEW S, NEW list \in Seq(S), NEW i \in DOMAIN list
  PROVE  [list EXCEPT ![i] = list[i]] = list
OBVIOUS

LEMMA FormIsOfServer ==
  ASSUME NEW s \in Source
  PROVE  /\ FormOfServer(s) \in Seq(Mapping) /\ Len(FormOfServer(s)) <= 2
         /\ Mine(s, FormOfServer(s))
<1>1. CASE s = "new"
  BY <1>1 DEF FormOfServer, Mine
<1>2. CASE s \in Directory /\ s # "new"
  <2>1. <<s, FALSE>> \in Mapping
    BY <1>2 DEF Mapping, Source
  <2> QED
    BY <1>2, <2>1 DEF FormOfServer, buildLdapServerForm, Mine
<1> QED
  BY <1>1, <1>2 DEF Source

LEMMA RestartKeeps ==
  ASSUME ServerInv, NEW s \in Source, editServerId' = s, Restart(s, FormOfServer(s)),
         serverOpen' \in BOOLEAN, getServer' \subseteq Directory,
         serverJob' \in {serverJob, <<>>}
  PROVE  ServerInv'
<1> USE DEF ServerInv
<1> DEFINE list == FormOfServer(s)
<1>1. /\ serverForm' = s /\ mappings' = list /\ group' = GroupShown(list)
      /\ UNCHANGED <<groupDialog, groupIdx>>
  BY DEF Restart
<1>2. list \in Seq(Mapping) /\ Len(list) <= 2 /\ Mine(s, list)
  BY FormIsOfServer
<1> HIDE DEF list
<1>3. groupDialog' /\ groupIdx' \in DOMAIN mappings' => group' = mappings'[groupIdx'][1]
  BY <1>1 DEF GroupShown
<1>4. group' \in Source \cup {"blank"}
  <2>1. \A k \in DOMAIN list : list[k][1] \in Source
    BY <1>2 DEF Mapping
  <2> QED
    BY <1>1, <2>1 DEF GroupShown, ServerTypeOK
<1>5. ServerTypeOK'
  BY <1>1, <1>2, <1>4 DEF ServerTypeOK
<1> QED
  BY <1>1, <1>2, <1>3, <1>5

LEMMA ServerInvInit == ServerInit => ServerInv
<1> SUFFICES ASSUME ServerInit PROVE ServerInv
  OBVIOUS
<1>1. mappings \in Seq(Mapping) /\ Len(mappings) = 0 /\ groupIdx \in 0..2
  BY DEF ServerInit
<1>2. ServerTypeOK
  <2>1. editServerId \in Source /\ serverForm \in Source /\ getServer \subseteq Directory
    BY DEF ServerInit, Source
  <2>2. serverOpen \in BOOLEAN /\ groupDialog \in BOOLEAN
    BY DEF ServerInit
  <2> QED
    BY <1>1, <2>1, <2>2 DEF ServerInit, ServerTypeOK
<1> QED
  BY <1>1, <1>2 DEF ServerInit, ServerInv, Mine

LEMMA ServerInvStep == ServerInv /\ [ServerNext]_serverVars => ServerInv'
<1> SUFFICES ASSUME ServerInv, [ServerNext]_serverVars
             PROVE  ServerInv'
  OBVIOUS
<1>1. CASE openAdd
  <2>1. FormOfServer("new") = <<>> /\ "new" \in Source
    BY DEF FormOfServer, Source
  <2> QED
    BY <1>1, <2>1, RestartKeeps DEF openAdd, ServerInv, ServerTypeOK
<1>2. ASSUME NEW d \in Directory, openEdit(d) \/ ServerNotFetched(d)
      PROVE  ServerInv'
  BY <1>2 DEF openEdit, ServerNotFetched, ServerInv, ServerTypeOK
<1>3. ASSUME NEW d \in Directory, ServerFetched(d)
      PROVE  ServerInv'
  <2>1. FormOfServer(d) = buildLdapServerForm(d) /\ d \in Source
    BY DirectoryAssumption DEF FormOfServer, Source
  <2> QED
    BY <1>3, <2>1, RestartKeeps DEF ServerFetched, ServerInv, ServerTypeOK
<1>4. ASSUME CloseServer, UNCHANGED getServer, serverJob' \in {serverJob, <<>>}
      PROVE  ServerInv'
  <2>1. editServerId \in Source /\ getServer \subseteq Directory
    BY DEF ServerInv, ServerTypeOK
  <2> QED
    BY <1>4, <2>1, RestartKeeps DEF CloseServer
<1>5. CASE CancelServer
  BY <1>4, <1>5 DEF CancelServer
<1>6. CASE SaveServer
  <2>1. serverJob' \in Source \X Source \X Seq(Mapping)
    BY <1>6 DEF SaveServer, ServerInv, ServerTypeOK
  <2> QED
    BY <1>6, <2>1 DEF SaveServer, ServerInv, ServerTypeOK
<1>7. CASE ServerSaved
  BY <1>4, <1>7 DEF ServerSaved, ServerInv, ServerTypeOK
<1>8. CASE ServerRefused
  BY <1>8 DEF ServerRefused, ServerInv, ServerTypeOK
<1>9. ASSUME NEW i \in 0..2, OpenMapping(i)
      PROVE  ServerInv'
  <2>1. /\ groupDialog' = TRUE /\ groupIdx' = i /\ i \in 0..Len(mappings)
        /\ group' = IF i = 0 THEN "blank" ELSE mappings[i][1]
        /\ UNCHANGED <<serverOpen, editServerId, serverForm, mappings, getServer, serverJob>>
    BY <1>9 DEF OpenMapping
  <2>2. \A k \in DOMAIN mappings : mappings[k][1] \in Source
    BY DEF ServerInv, ServerTypeOK, Mapping
  <2>3. group' \in Source \cup {"blank"}
    BY <2>1, <2>2 DEF ServerInv, ServerTypeOK
  <2>4. groupIdx' \in DOMAIN mappings' => group' = mappings'[groupIdx'][1]
    BY <2>1 DEF ServerInv, ServerTypeOK
  <2> QED
    BY <2>1, <2>3, <2>4 DEF ServerInv, ServerTypeOK
<1>10. ASSUME NEW i \in 0..2, RemoveMapping(i)
       PROVE  ServerInv'
  <2>1. /\ i \in 1..Len(mappings) /\ mappings \in Seq(Mapping) /\ Len(mappings) <= 2
        /\ Mine(serverForm, mappings)
    BY <1>10 DEF RemoveMapping, ServerInv, ServerTypeOK
  <2> DEFINE Own == {m \in Mapping : m[2] \/ m[1] = serverForm}
  <2>2. mappings \in Seq(Own)
    BY <2>1 DEF Mine
  <2>3. mappings' \in Seq(Own) /\ mappings' \in Seq(Mapping) /\ Len(mappings') <= 2
    BY <1>10, <2>1, <2>2, Removed DEF RemoveMapping
  <2>4. Mine(serverForm, mappings')
    BY <2>3 DEF Mine
  <2> QED
    BY <1>10, <2>3, <2>4 DEF RemoveMapping, ServerInv, ServerTypeOK
<1>11. CASE CancelMapping
  <2>1. groupDialog' = FALSE /\ groupIdx' \in 0..2
    BY <1>11 DEF CancelMapping
  <2>2. ServerTypeOK'
    BY <1>11, <2>1 DEF CancelMapping, ServerInv, ServerTypeOK
  <2> QED
    BY <1>11, <2>1, <2>2 DEF CancelMapping, ServerInv
<1>12. CASE TypeMapping
  <2>1. groupDialog /\ group = "blank" /\ group' = serverForm
    BY <1>12 DEF TypeMapping
  <2>2. groupIdx \notin DOMAIN mappings
    BY <2>1, DirectoryAssumption DEF ServerInv, ServerTypeOK, Mapping, Source
  <2> QED
    BY <1>12, <2>1, <2>2 DEF TypeMapping, ServerInv, ServerTypeOK
<1>13. CASE addOrEditGroup
  <2>1. /\ groupDialog /\ group \in Source /\ groupDialog' = FALSE /\ groupIdx' = 0
        /\ mappings' = IF groupIdx = 0 THEN Append(mappings, <<group, TRUE>>)
                       ELSE IF groupIdx \in DOMAIN mappings THEN [mappings EXCEPT ![groupIdx][1] = group]
                       ELSE mappings
        /\ Len(mappings') <= 2
        /\ mappings \in Seq(Mapping) /\ Mine(serverForm, mappings)
        /\ UNCHANGED <<serverOpen, editServerId, serverForm, group, getServer, serverJob>>
    BY <1>13 DEF addOrEditGroup, ServerInv, ServerTypeOK
  <2>2. mappings' \in Seq(Mapping) /\ Mine(serverForm, mappings')
    <3>1. CASE groupIdx = 0
      <4>1. <<group, TRUE>> \in Mapping
        BY <2>1 DEF Mapping
      <4>2. mappings' = Append(mappings, <<group, TRUE>>)
        BY <2>1, <3>1
      <4>3. /\ mappings' \in Seq(Mapping) /\ Len(mappings') = Len(mappings) + 1
            /\ \A i \in 1..Len(mappings) : mappings'[i] = mappings[i]
            /\ mappings'[Len(mappings) + 1] = <<group, TRUE>>
        <5>1. mappings \in Seq(Mapping)
          BY <2>1
        <5> QED
          BY <4>1, <4>2, <5>1, AppendProperties
      <4>4. \A i \in DOMAIN mappings' : i \in DOMAIN mappings \/ i = Len(mappings) + 1
        BY <2>1, <4>3
      <4> QED
        BY <2>1, <4>3, <4>4 DEF Mine
    <3>2. CASE groupIdx # 0
      \* The mapping that is edited is the one the dialog holds.
      <4>1. groupIdx \in DOMAIN mappings => mappings[groupIdx] \in Mapping /\ group = mappings[groupIdx][1]
        BY <2>1 DEF ServerInv
      <4>2. groupIdx \in DOMAIN mappings => [mappings[groupIdx] EXCEPT ![1] = group] = mappings[groupIdx]
        BY <4>1 DEF Mapping
      <4>3. mappings' = mappings
        <5>1. CASE groupIdx \notin DOMAIN mappings
          BY <2>1, <3>2, <5>1
        <5>2. CASE groupIdx \in DOMAIN mappings
          <6>1. mappings' = [mappings EXCEPT ![groupIdx] = [mappings[groupIdx] EXCEPT ![1] = group]]
            BY <2>1, <3>2, <5>2
          <6> QED
            BY <2>1, <4>2, <5>2, <6>1, PutBack
        <5> QED
          BY <5>1, <5>2
      <4> QED
        BY <2>1, <4>3
    <3> QED
      BY <3>1, <3>2
  <2>3. ServerTypeOK'
    <3>1. groupDialog' = FALSE /\ groupIdx' = 0 /\ Len(mappings') <= 2
      BY <1>13 DEF addOrEditGroup
    <3>2. groupIdx' \in 0..2
      BY <3>1
    <3>3. /\ ServerTypeOK
          /\ UNCHANGED <<serverOpen, editServerId, serverForm, group, getServer, serverJob>>
      BY <2>1 DEF ServerInv
    <3> QED
      BY <2>2, <3>1, <3>2, <3>3 DEF ServerTypeOK
  <2>4. /\ groupDialog' = FALSE
        /\ UNCHANGED <<editServerId, serverForm, serverJob>>
    BY <2>1
  <2> QED
    BY <2>2, <2>3, <2>4 DEF ServerInv
<1>14. CASE UNCHANGED serverVars
  BY <1>14 DEF serverVars, ServerInv, ServerTypeOK
<1> QED
  BY <1>1, <1>2, <1>3, <1>5, <1>6, <1>7, <1>8, <1>9, <1>10, <1>11, <1>12, <1>13, <1>14 DEF ServerNext

LEMMA ServerInvHolds == AuthSpec => []ServerInv
<1>1. AuthInit => ServerInv
  BY ServerInvInit DEF AuthInit
<1>2. ServerInv /\ [AuthNext]_authVars => ServerInv'
  <2> SUFFICES ASSUME ServerInv, [AuthNext]_authVars PROVE ServerInv'
    OBVIOUS
  <2>1. [ServerNext]_serverVars
    BY DEF AuthNext, authVars
  <2> QED
    BY <2>1, ServerInvStep
<1> QED
  BY <1>1, <1>2, PTL DEF AuthSpec

\* The update of an LDAP server carries what was filled in from that server and
\* the mappings it has, edited or not, in whatever order the answers for several
\* dialogs come; only a mapping that was added may have been typed over another.
THEOREM UpdatesAreOfTheirServer == AuthSpec => []ServersStayApart
<1>1. ServerInv => ServersStayApart
  BY DEF ServerInv, ServersStayApart, Mine
<1> QED
  BY <1>1, ServerInvHolds, PTL

-----------------------------------------------------------------------------
(* The "Add Item" dialog *)

\* A panel sends the settings it shows.
LEMMA PanelFields ==
  ASSUME NEW p \in PanelTypes \cup {NoPanel}
  PROVE  (p.text = TRUE \/ p.text = FALSE) /\ \A x : x \in p.sends <=> x \in p.shows
<1>0. ASSUME NEW q \in ItemPanels
      PROVE  q.text = TRUE \/ q.text = FALSE
  <2>1. CASE q \in {AgentItemPanel, HttpItemPanel, ScriptPanel, ServicePanel, AgentServicePanel}
    BY <2>1 DEF AgentItemPanel, HttpItemPanel, ScriptPanel, ServicePanel, AgentServicePanel,
       Panel
  <2>2. CASE q \in {WindowsServicePanel, ProcessPanel, FileWatchPanel, OdbcPanel, Agent2Panel}
    BY <2>2 DEF WindowsServicePanel, ProcessPanel, FileWatchPanel, OdbcPanel, Agent2Panel,
       Panel
  <2>3. CASE q \in {SnmpPanel, SnmpTrapPanel, InternalItemPanel, TrapperItemPanel,
                     ExternalItemPanel, IpmiItemPanel}
    BY <2>3 DEF SnmpPanel, SnmpTrapPanel, InternalItemPanel, TrapperItemPanel,
       ExternalItemPanel, IpmiItemPanel, Panel
  <2>4. CASE q \in {SshItemPanel, TelnetItemPanel, JmxItemPanel, CalculatedItemPanel,
                     DependentItemPanel, ZabbixScriptItemPanel, BrowserItemPanel}
    BY <2>4 DEF SshItemPanel, TelnetItemPanel, JmxItemPanel, CalculatedItemPanel,
       DependentItemPanel, ZabbixScriptItemPanel, BrowserItemPanel,
       Panel
  <2> QED
    BY <2>1, <2>2, <2>3, <2>4 DEF ItemPanels
<1>1. ASSUME NEW q \in ItemPanels
      PROVE  \A x : x \in q.sends <=> x \in q.shows
  <2>1. CASE q \in {AgentItemPanel, HttpItemPanel, ScriptPanel, ServicePanel, AgentServicePanel}
    BY <2>1 DEF AgentItemPanel, HttpItemPanel, ScriptPanel, ServicePanel, AgentServicePanel,
       ScriptFields, Panel
  <2>2. CASE q \in {WindowsServicePanel, ProcessPanel, FileWatchPanel}
    BY <2>2 DEF WindowsServicePanel, ProcessPanel, FileWatchPanel, FileWatchFields, Panel
  <2>3. CASE q \in {OdbcPanel, Agent2Panel}
    BY <2>3 DEF OdbcPanel, Agent2Panel, OdbcFields, Agent2Fields, Panel
  <2>4. CASE q \in {SnmpPanel, SnmpTrapPanel, InternalItemPanel, TrapperItemPanel,
                     ExternalItemPanel, IpmiItemPanel}
    BY <2>4 DEF SnmpPanel, SnmpTrapPanel, InternalItemPanel, TrapperItemPanel,
       ExternalItemPanel, IpmiItemPanel, Panel
  <2>5. CASE q \in {SshItemPanel, TelnetItemPanel, JmxItemPanel, CalculatedItemPanel,
                     DependentItemPanel, ZabbixScriptItemPanel, BrowserItemPanel}
    BY <2>5 DEF SshItemPanel, TelnetItemPanel, JmxItemPanel, CalculatedItemPanel,
       DependentItemPanel, ZabbixScriptItemPanel, BrowserItemPanel, Panel
  <2> QED
    BY <2>1, <2>2, <2>3, <2>4, <2>5 DEF ItemPanels
<1>2. ASSUME NEW q \in ItemPanels
      PROVE  "text" \in DOMAIN q /\ "sends" \in DOMAIN q /\ "shows" \in DOMAIN q
  <2>1. CASE q \in {AgentItemPanel, HttpItemPanel, ScriptPanel, ServicePanel, AgentServicePanel}
    BY <2>1 DEF AgentItemPanel, HttpItemPanel, ScriptPanel, ServicePanel, AgentServicePanel,
       Panel
  <2>2. CASE q \in {WindowsServicePanel, ProcessPanel, FileWatchPanel, OdbcPanel, Agent2Panel}
    BY <2>2 DEF WindowsServicePanel, ProcessPanel, FileWatchPanel, OdbcPanel, Agent2Panel, Panel
  <2>3. CASE q \in {SnmpPanel, SnmpTrapPanel, InternalItemPanel, TrapperItemPanel,
                     ExternalItemPanel, IpmiItemPanel}
    BY <2>3 DEF SnmpPanel, SnmpTrapPanel, InternalItemPanel, TrapperItemPanel,
       ExternalItemPanel, IpmiItemPanel, Panel
  <2>4. CASE q \in {SshItemPanel, TelnetItemPanel, JmxItemPanel, CalculatedItemPanel,
                     DependentItemPanel, ZabbixScriptItemPanel, BrowserItemPanel}
    BY <2>4 DEF SshItemPanel, TelnetItemPanel, JmxItemPanel, CalculatedItemPanel,
       DependentItemPanel, ZabbixScriptItemPanel, BrowserItemPanel, Panel
  <2> QED
    BY <2>1, <2>2, <2>3, <2>4 DEF ItemPanels
<1>3. CASE p \in PanelTypes
  <2>1. PICK q \in ItemPanels : p = [q EXCEPT !.needs = IF @ = {} THEN {} ELSE {"fields"}]
    BY <1>3 DEF PanelTypes
  <2>2. p.text = q.text /\ p.sends = q.sends /\ p.shows = q.shows
    BY <1>2, <2>1
  <2> QED
    BY <1>0, <1>1, <2>2
<1>4. CASE p = NoPanel
  BY <1>4 DEF NoPanel, Panel
<1> QED
  BY <1>3, <1>4

LEMMA FreshCondition ==
  ASSUME NEW p \in PanelTypes \cup {NoPanel}
  PROVE  NoCondition(p) \in Condition
<1>1. p.text \in BOOLEAN
  BY PanelFields
<1>2. (p.trigger # "value") \in BOOLEAN
  OBVIOUS
<1> QED
  BY <1>1, <1>2 DEF NoCondition, Condition

LEMMA FreshForm ==
  ASSUME NEW p \in PanelTypes \cup {NoPanel}
  PROVE  Fresh(p) \in Form
<1>1. (p.needs = {}) \in BOOLEAN
  OBVIOUS
<1> QED
  BY <1>1, FreshCondition DEF Fresh, Form

\* What the request carries was shown, and what was made was in the request.
RequestAsShown ==
  /\ ~post.bulk => \A x : x \in post.set <=> x \in post.shown.set
  /\ \/ post.shown.trigger \in {"words", "own"}
     \/ maybe_create_trigger(post.trigger) = post.shown.trigger

ItemInv ==
  /\ ItemTypeOK
  /\ made # NotMade => post.done # {}
  /\ RequestAsShown
  /\ CreatedAsShown
  /\ ReportedHaveIt

LEMMA NothingPosted == NoPost \in Post /\ NotMade \in [at : Host \cup {"none"}, item : Item]
<1>1. NoCondition(NoPanel) \in Condition
  BY FreshCondition
<1>2. NoItem \in Item
  BY DEF NoItem, Item, Kind
<1> QED
  BY <1>1, <1>2 DEF NoPost, Post, NotMade

LEMMA NothingAsShown == ASSUME post' = NoPost PROVE RequestAsShown'
BY DEF RequestAsShown, NoPost, NoItem, maybe_create_trigger, NoCondition, NoPanel, Panel

LEMMA ItemInvInit == ItemInit => ItemInv
<1> SUFFICES ASSUME ItemInit PROVE ItemInv
  OBVIOUS
<1>1. form \in Form
  BY FreshForm DEF ItemInit
<1>2. ItemTypeOK
  BY <1>1, NothingPosted DEF ItemInit, ItemTypeOK
<1>3. RequestAsShown
  BY DEF ItemInit, RequestAsShown, NoPost, NoItem, maybe_create_trigger, NoCondition, NoPanel, Panel
<1> QED
  BY <1>2, <1>3 DEF ItemInit, ItemInv, CreatedAsShown, ReportedHaveIt, NoPost

LEMMA ItemInvUser == ItemInv /\ User => ItemInv'
<1> SUFFICES ASSUME ItemInv, User PROVE ItemInv'
  OBVIOUS
<1>1. form \in Form /\ panel \in PanelTypes \cup {NoPanel} /\ form.trigger \in Condition
  BY DEF ItemInv, ItemTypeOK, Form
<1>2. ASSUME NEW f \in Form, Change(f)
      PROVE  ItemInv'
  BY <1>2 DEF Change, ItemInv, ItemTypeOK, RequestAsShown, CreatedAsShown, ReportedHaveIt
<1>3. ASSUME NEW p \in PanelTypes, ShowPanel(p)
      PROVE  ItemInv'
  <2>1. ItemTypeOK'
    BY <1>3, FreshForm DEF ShowPanel, ItemInv, ItemTypeOK
  <2> QED
    BY <1>3, <2>1 DEF ShowPanel, ItemInv, RequestAsShown, CreatedAsShown, ReportedHaveIt
<1>4. ASSUME NEW b \in BOOLEAN, Fill(b)
      PROVE  ItemInv'
  <2>1. [form EXCEPT !.filled = b] \in Form
    BY <1>1, <1>4 DEF Form
  <2> QED
    BY <1>2, <1>4, <2>1 DEF Fill
<1>5. ASSUME NEW h \in Host, HostSelect(h)
      PROVE  ItemInv'
  <2>1. [form EXCEPT !.host = h] \in Form
    BY <1>1 DEF Form
  <2> QED
    BY <1>2, <1>5, <2>1 DEF HostSelect
<1>6. ASSUME NEW hs \in SUBSET Host, MultiHostSelect(hs)
      PROVE  ItemInv'
  <2>1. [form EXCEPT !.hosts = hs] \in Form
    BY <1>1 DEF Form
  <2> QED
    BY <1>2, <1>6, <2>1 DEF MultiHostSelect
<1>7. CASE BulkModeToggle
  <2>1. (~form.bulk) \in BOOLEAN
    OBVIOUS
  <2>2. [form EXCEPT !.bulk = ~@] \in Form
    BY <1>1, <2>1 DEF Form
  <2> QED
    BY <1>2, <1>7, <2>2 DEF BulkModeToggle
<1>8. ASSUME NEW c \in Setting, SetControl(c)
      PROVE  ItemInv'
  <2>1. [form EXCEPT !.set = IF c \in @ THEN @ \ {c} ELSE @ \cup {c}] \in Form
    BY <1>1 DEF Form
  <2> QED
    BY <1>2, <1>8, <2>1 DEF SetControl
<1>9. ASSUME NEW t \in {"none", "half", "full"}, CustomIntervalsEditor(t)
      PROVE  ItemInv'
  <2>1. [form EXCEPT !.period = t] \in Form
    BY <1>1 DEF Form
  <2> QED
    BY <1>2, <1>9, <2>1 DEF CustomIntervalsEditor
<1>10. ASSUME NEW t \in Condition, TriggerToggleFields(t)
       PROVE  ItemInv'
  <2>1. [form EXCEPT !.trigger = t] \in Form
    BY <1>1 DEF Form
  <2> QED
    BY <1>2, <1>10, <2>1 DEF TriggerToggleFields
<1> QED
  BY <1>3, <1>4, <1>5, <1>6, <1>7, <1>8, <1>9, <1>10 DEF User

LEMMA ItemInvSubmit == ItemInv /\ onSubmit => ItemInv'
<1> SUFFICES ASSUME ItemInv, onSubmit PROVE ItemInv'
  OBVIOUS
<1> DEFINE c == form.trigger
<1>1. /\ panel \in PanelTypes /\ panel # NoPanel /\ post = NoPost /\ form \in Form
      /\ UNCHANGED <<panel, form, items, made>> /\ results' = {} /\ saving' = TRUE /\ mine' = TRUE
  BY DEF onSubmit, ItemInv, ItemTypeOK
<1>2. c \in Condition /\ made = NotMade
  BY <1>1 DEF Form, ItemInv, NoPost
<1>3. /\ triggerFields \in Condition /\ triggerFields.on = c.on /\ triggerFields.text = c.text
      /\ triggerFields.pattern = c.pattern /\ (c.threshold = "" => triggerFields.threshold = "")
      /\ (c.threshold = "number" => triggerFields.threshold = "number")
  BY <1>2 DEF triggerFields, Condition
<1>4. /\ post'.bulk = form.bulk /\ post'.done = {} /\ post'.shown = ItemShown
      /\ post'.set = Changed \cap IF form.bulk THEN panel.many[1] ELSE panel.sends
      /\ post'.trigger = IF form.bulk THEN [triggerFields EXCEPT !.on = FALSE] ELSE triggerFields
  BY DEF onSubmit
<1>5. ItemShown \in Item
  <2>1. TriggerShown \in Kind
    BY DEF TriggerShown, Kind
  <2>2. IntervalsShown \subseteq Setting /\ form.set \subseteq Setting
    BY <1>1 DEF IntervalsShown, Setting, Form
  <2> QED
    BY <2>1, <2>2 DEF ItemShown, Item
<1>6. post' \in Post
  <2>1. Targets \subseteq Host
    BY <1>1 DEF Targets, Form
  <2>2. Changed \subseteq Setting
    BY <1>1 DEF Changed, assembleDelay, Setting, Form
  <2>3. [triggerFields EXCEPT !.on = FALSE] \in Condition
    BY <1>3 DEF Condition
  <2>4. form.bulk \in BOOLEAN
    BY <1>1 DEF Form
  <2> QED
    BY <1>3, <1>5, <2>1, <2>2, <2>3, <2>4 DEF onSubmit, Post
<1>7. ItemTypeOK'
  BY <1>1, <1>6 DEF ItemInv, ItemTypeOK
<1>8. ~form.bulk => \A x : x \in post'.set <=> x \in post'.shown.set
  <2> SUFFICES ASSUME ~form.bulk, NEW x
               PROVE  x \in post'.set <=> x \in post'.shown.set
    OBVIOUS
  <2>1. x \in panel.sends <=> x \in panel.shows
    BY <1>1, PanelFields
  <2>2. post'.set = Changed \cap panel.sends
    BY <1>4
  <2>3. post'.shown.set = (form.set \cup IntervalsShown) \cap panel.shows
    BY <1>4 DEF ItemShown
  <2> QED
    BY <2>1, <2>2, <2>3 DEF Changed, assembleDelay, IntervalsShown
<1>9. \/ TriggerShown \in {"words", "own"}
      \/ maybe_create_trigger(post'.trigger) = TriggerShown
  <2>1. CASE form.bulk
    <3>1. post'.trigger.on = FALSE
      BY <1>3, <1>4, <2>1 DEF Condition
    <3> QED
      BY <2>1, <3>1 DEF TriggerShown, maybe_create_trigger
  <2>2. CASE ~form.bulk
    BY <1>2, <1>3, <1>4, <2>2 DEF TriggerShown, maybe_create_trigger, Condition
  <2> QED
    BY <2>1, <2>2
<1>10. post'.shown.trigger = TriggerShown
  BY <1>4 DEF ItemShown
<1>11. RequestAsShown'
  BY <1>4, <1>8, <1>9, <1>10 DEF RequestAsShown
<1> QED
  BY <1>1, <1>2, <1>4, <1>7, <1>11 DEF ItemInv, CreatedAsShown, ReportedHaveIt

LEMMA ItemInvStep == ItemInv /\ [ItemNext]_itemVars => ItemInv'
<1> SUFFICES ASSUME ItemInv, [ItemNext]_itemVars PROVE ItemInv'
  OBVIOUS
<1>0. post \in Post /\ form \in Form /\ panel \in PanelTypes \cup {NoPanel}
  BY DEF ItemInv, ItemTypeOK
<1>1. CASE User
  BY <1>1, ItemInvUser
<1>2. CASE onSubmit
  BY <1>2, ItemInvSubmit
<1>3. ASSUME NEW h \in Host, Add(h)
      PROVE  ItemInv'
  <2>1. PICK k \in {"none", IF post.shown.trigger = "own" THEN "own"
                            ELSE maybe_create_trigger(post.trigger)} :
          made' = [at |-> h, item |-> [set |-> post.set, trigger |-> k]]
    BY <1>3 DEF Add
  <2>2. /\ post' = [post EXCEPT !.todo = @ \ {h}, !.done = @ \cup {h}]
        /\ items' = items \cup {h} /\ UNCHANGED <<panel, form, saving, mine, results>>
    BY <1>3 DEF Add
  <2>3. /\ post'.bulk = post.bulk /\ post'.set = post.set /\ post'.trigger = post.trigger
        /\ post'.shown = post.shown /\ post'.done = post.done \cup {h} /\ post' \in Post
    BY <1>0, <2>2 DEF Post
  <2>4. k \in Kind
    BY <2>1 DEF Kind, maybe_create_trigger
  <2>5. made' \in [at : Host \cup {"none"}, item : Item]
    BY <1>0, <2>1, <2>4 DEF Item, Post
  <2>6. ItemTypeOK'
    BY <2>2, <2>3, <2>5 DEF ItemInv, ItemTypeOK
  <2>7. RequestAsShown'
    BY <2>3 DEF ItemInv, RequestAsShown
  <2>8. CreatedAsShown'
    <3>1. ~post.bulk => post.set = post.shown.set
      BY <1>0 DEF ItemInv, RequestAsShown, Post, Item
    <3>2. post.shown.trigger = "words" \/ k \in {post.shown.trigger, "none"}
      BY <2>1 DEF ItemInv, RequestAsShown
    <3> QED
      BY <2>1, <2>3, <3>1, <3>2 DEF CreatedAsShown
  <2>9. ReportedHaveIt'
    BY <2>2, <2>3 DEF ItemInv, ReportedHaveIt
  <2> QED
    BY <2>3, <2>6, <2>7, <2>8, <2>9 DEF ItemInv
<1>4. ASSUME NEW h \in Host, AddFails(h)
      PROVE  ItemInv'
  <2>1. /\ post' = [post EXCEPT !.todo = @ \ {h}]
        /\ UNCHANGED <<panel, form, saving, mine, items, made, results>>
    BY <1>4 DEF AddFails
  <2>2. /\ post'.bulk = post.bulk /\ post'.set = post.set /\ post'.trigger = post.trigger
        /\ post'.shown = post.shown /\ post'.done = post.done /\ post' \in Post
    BY <1>0, <2>1 DEF Post
  <2>3. ItemTypeOK'
    BY <2>1, <2>2 DEF ItemInv, ItemTypeOK
  <2> QED
    BY <2>1, <2>2, <2>3 DEF ItemInv, RequestAsShown, CreatedAsShown, ReportedHaveIt
<1>5. ResetPanel \in Form
  <2>1. form.trigger \in Condition /\ NoCondition(panel) \in Condition
    BY <1>0, FreshCondition DEF Form
  <2>2. [NoCondition(panel) EXCEPT !.text = form.trigger.text] \in Condition
    BY <2>1 DEF Condition
  <2>3. (panel.needs = {}) \in BOOLEAN
    OBVIOUS
  <2> QED
    BY <1>0, <2>1, <2>2, <2>3 DEF ResetPanel, Form
<1>6. CASE Answer
  <2>1. /\ post' = NoPost /\ made' = NotMade /\ saving' = FALSE /\ mine' = FALSE
        /\ UNCHANGED <<panel, items>> /\ form' \in {form, ResetPanel}
        /\ results' \in {results, post.done}
    BY <1>6 DEF Answer
  <2>2. post.done \subseteq Host
    BY <1>0 DEF Post
  <2>3. ItemTypeOK'
    BY <1>5, <2>1, <2>2, NothingPosted DEF ItemInv, ItemTypeOK
  <2> QED
    BY <2>1, <2>3, NothingAsShown DEF ItemInv, CreatedAsShown, ReportedHaveIt, NoPost
<1>7. CASE LoseRequest
  <2>1. ItemTypeOK'
    BY <1>7, NothingPosted DEF LoseRequest, ItemInv, ItemTypeOK
  <2> QED
    BY <1>7, <2>1, NothingAsShown DEF LoseRequest, ItemInv, CreatedAsShown, ReportedHaveIt, NoPost
<1>8. CASE UNCHANGED itemVars
  BY <1>8 DEF itemVars, ItemInv, ItemTypeOK, RequestAsShown, CreatedAsShown, ReportedHaveIt
<1> QED
  BY <1>1, <1>2, <1>3, <1>4, <1>6, <1>7, <1>8 DEF ItemNext

\* The item that is created is the one the panel showed when it was sent,
\* whatever the panel showed or hid before, and whatever it shows by then.
THEOREM ItemsAreAsShown == ItemSpec => []CreatedAsShown
<1>1. ItemInv => CreatedAsShown
  BY DEF ItemInv
<1> QED
  BY <1>1, ItemInvInit, ItemInvStep, PTL DEF ItemSpec

\* A host that a bulk request reports as done has the item.
THEOREM DoneMeansMade == ItemSpec => []ReportedHaveIt
<1>1. ItemInv => ReportedHaveIt
  BY DEF ItemInv
<1> QED
  BY <1>1, ItemInvInit, ItemInvStep, PTL DEF ItemSpec

\* What was typed into a panel goes only by the user's hand or with the success
\* of the request that this panel had sent.
THEOREM TypedGoesByOwnSuccess == ItemSpec => TypedIsKept
<1> DEFINE Kept == form' # form /\ post' # post => mine /\ Ended /\ post.done # {}
<1>1. [ItemNext]_itemVars => [Kept]_itemVars
  <2> SUFFICES ASSUME ItemNext, form' # form, post' # post
               PROVE  mine /\ Ended /\ post.done # {}
    OBVIOUS
  <2>1. ~User
    BY DEF User, ShowPanel, Fill, HostSelect, MultiHostSelect, BulkModeToggle, SetControl,
       CustomIntervalsEditor, TriggerToggleFields, Change
  <2>2. ~onSubmit /\ ~LoseRequest
    BY DEF onSubmit, LoseRequest
  <2>3. ~\E h \in Host : Add(h) \/ AddFails(h)
    BY DEF Add, AddFails
  <2>4. Answer
    BY <2>1, <2>2, <2>3 DEF ItemNext
  <2> QED
    BY <2>4 DEF Answer
<1> QED
  BY <1>1, PTL DEF ItemSpec, TypedIsKept

-----------------------------------------------------------------------------
(* The dialogs that save a selection.  A batch is a copy of the selection, *)
(* so it is enough that the selection always belongs to the team whose     *)
(* dialog is open.  It does because closing a dialog clears it, however it *)
(* is closed; a dialog that kept it would hand the selection of one team   *)
(* to the next.                                                            *)

\* A thing was chosen for a team, by itself or with a group shown to hold it.
ChosenFor(t, x) == x \in chosen[t] \/ \E f \in chosen[t] \cap Folder : x \in held[f]

\* Selection and batches consist of what was chosen for their team.
Owned ==
  /\ target = "shut" => picked = {} /\ folders = {}
  /\ target # "shut" => picked \cup folders \subseteq chosen[target]
  /\ \A f \in Folder : within[f] \subseteq held[f]
  /\ \A n \in Slot : batches[n].todo # {} => batches[n].for # "shut"
  /\ \A n \in Slot : \A x \in batches[n].todo : ChosenFor(batches[n].for, x)

GiveInv ==
  /\ GiveTypeOK /\ Owned /\ GivenToTeams
  /\ kind = NoKind => target = "shut"

LEMMA KindsAreKinds == NoKind \notin Kinds
BY DEF Kinds, NoKind, AssignHosts, AssignGroups, AddMembers

LEMMA GiveStarts == GiveInit => GiveInv
<1> SUFFICES ASSUME GiveInit PROVE GiveInv
  OBVIOUS
<1>1. NoBatch \in Batch
  BY DEF NoBatch, Batch
<1>2. GiveTypeOK
  BY <1>1 DEF GiveInit, GiveTypeOK
<1> QED
  BY <1>2 DEF GiveInit, GiveInv, Owned, GivenToTeams, NoBatch

LEMMA GiveSteps == GiveInv /\ [GiveNext]_giveVars => GiveInv'
<1> SUFFICES ASSUME GiveInv, [GiveNext]_giveVars PROVE GiveInv'
  OBVIOUS
<1> USE DEF GiveInv
<1>1. ASSUME NEW k \in Kinds, MountBatch(k) PROVE GiveInv'
  BY <1>1, KindsAreKinds DEF MountBatch, GiveTypeOK, Owned, GivenToTeams, ChosenFor
<1>2. ASSUME NEW w \in [Folder -> SUBSET Thing], LoadPage(w) PROVE GiveInv'
  <2>1. /\ within' = w /\ held' = [f \in Folder |-> held[f] \cup w[f]]
        /\ UNCHANGED <<kind, target, picked, folders, batches, stored, chosen>>
    BY <1>2 DEF LoadPage
  <2>2. held' \in [Folder -> SUBSET Thing]
    <3>1. \A f \in Folder : held[f] \cup w[f] \in SUBSET Thing
      BY DEF GiveTypeOK
    <3> QED
      BY <2>1, <3>1
  <2>3. \A f \in Folder : held[f] \subseteq held'[f] /\ within'[f] \subseteq held'[f]
    BY <2>1
  <2>4. GiveTypeOK'
    BY <2>1, <2>2 DEF GiveTypeOK
  <2>5. \A t \in Team, x \in Thing : ChosenFor(t, x) => ChosenFor(t, x)'
    BY <2>1, <2>3 DEF ChosenFor
  <2>6. Owned'
    BY <2>1, <2>3, <2>5 DEF Owned, GiveTypeOK, Batch
  <2>7. GivenToTeams'
    BY <2>1, <2>5 DEF GivenToTeams, ChosenFor, GiveTypeOK
  <2> QED
    BY <2>1, <2>4, <2>6, <2>7
<1>3. ASSUME NEW t \in Team, OpenFor(t) PROVE GiveInv'
  <2>1. /\ target = "shut" /\ target' = t /\ picked' = {} /\ folders' = {} /\ kind # NoKind
        /\ UNCHANGED <<kind, within, batches, stored, chosen, held>>
    BY <1>3 DEF OpenFor, Owned
  <2> QED
    BY <2>1 DEF GiveTypeOK, Owned, GivenToTeams, ChosenFor
<1>4. ASSUME NEW x \in Thing \cup Folder, target # "shut", kind' = kind, target' = target,
             picked' \subseteq Thing, folders' \subseteq Folder,
             picked' \cup folders' \subseteq picked \cup folders \cup {x},
             chosen' = [chosen EXCEPT ![target] = @ \cup {x}],
             UNCHANGED <<within, batches, stored, held>>
      PROVE  GiveInv'
  <2>1. target \in Team
    BY <1>4 DEF GiveTypeOK
  <2>2. chosen' \in [Team -> SUBSET (Thing \cup Folder)]
    BY <1>4, <2>1 DEF GiveTypeOK
  <2>3. /\ \A t \in Team : chosen[t] \subseteq chosen'[t]
        /\ chosen'[target] = chosen[target] \cup {x}
    BY <1>4, <2>1 DEF GiveTypeOK
  <2>4. GiveTypeOK'
    BY <1>4, <2>2 DEF GiveTypeOK
  <2>5. \A t \in Team, y \in Thing : ChosenFor(t, y) => ChosenFor(t, y)'
    BY <1>4, <2>3 DEF ChosenFor
  <2>6. picked' \cup folders' \subseteq chosen'[target']
    BY <1>4, <2>3 DEF Owned
  <2>7. Owned'
    BY <1>4, <2>5, <2>6 DEF Owned, GiveTypeOK, Batch
  <2>8. GivenToTeams'
    BY <1>4, <2>5 DEF GivenToTeams, ChosenFor, GiveTypeOK
  <2> QED
    BY <1>4, <2>4, <2>7, <2>8
<1>5. ASSUME NEW x \in Thing, Pick(x) PROVE GiveInv'
  <2>1. picked' \subseteq picked \cup {x} /\ picked' \subseteq Thing
    BY <1>5 DEF Pick, Toggled, GiveTypeOK
  <2> QED
    BY <1>4, <1>5, <2>1 DEF Pick, GiveTypeOK
<1>6. ASSUME NEW f \in Folder, PickFolder(f) PROVE GiveInv'
  <2>1. folders' \subseteq folders \cup {f} /\ folders' \subseteq Folder
    BY <1>6 DEF PickFolder, Toggled, GiveTypeOK
  <2> QED
    BY <1>4, <1>6, <2>1 DEF PickFolder, GiveTypeOK
<1>7. CASE CancelBatch
  BY <1>7 DEF CancelBatch, Shut, PickedAfter, GiveTypeOK, Owned, GivenToTeams, ChosenFor
<1>8. ASSUME NEW n \in Slot, SendBatch(n) PROVE GiveInv'
  <2> DEFINE b == [for |-> target, todo |-> Selection, ok |-> TRUE]
  <2>1. /\ target \in Team /\ batches' = [batches EXCEPT ![n] = b]
        /\ UNCHANGED <<kind, target, picked, folders, within, stored, chosen, held>>
    BY <1>8 DEF SendBatch, GiveTypeOK
  <2>2. Selection \subseteq Thing
    BY DEF Selection, GiveTypeOK
  <2>3. \A x \in Selection : ChosenFor(target, x)
    BY <2>1 DEF Selection, Owned, ChosenFor, GiveTypeOK
  <2>4. b \in Batch /\ b.for = target /\ b.todo = Selection
    BY <2>1, <2>2 DEF Batch
  <2> HIDE DEF b
  <2>5. batches' \in [Slot -> Batch] /\ \A m \in Slot : batches'[m] = IF m = n THEN b ELSE batches[m]
    BY <2>1, <2>4 DEF GiveTypeOK
  <2>6. GiveTypeOK'
    BY <2>1, <2>5 DEF GiveTypeOK
  <2>7. "shut" \notin Team
    BY BatchAssumption
  <2>8. Owned'
    BY <2>1, <2>3, <2>4, <2>5, <2>7 DEF Owned, ChosenFor
  <2> QED
    BY <2>1, <2>6, <2>8 DEF GivenToTeams
<1>9. ASSUME NEW n \in Slot, BatchDone(n) PROVE GiveInv'
  <2>1. NoBatch \in Batch /\ NoBatch.todo = {}
    BY DEF NoBatch, Batch
  <2>2. /\ batches' = [batches EXCEPT ![n] = NoBatch]
        /\ target' = "shut" /\ picked' = {} /\ folders' = {}
        /\ UNCHANGED <<kind, within, stored, chosen, held>>
    BY <1>9 DEF BatchDone, Shut, PickedAfter
  <2>3. batches' \in [Slot -> Batch] /\ \A m \in Slot : batches'[m] = IF m = n THEN NoBatch ELSE batches[m]
    BY <2>1, <2>2 DEF GiveTypeOK
  <2>4. GiveTypeOK'
    BY <2>2, <2>3 DEF GiveTypeOK
  <2>5. Owned'
    BY <2>1, <2>2, <2>3 DEF Owned, ChosenFor
  <2> QED
    BY <2>2, <2>4, <2>5 DEF GivenToTeams
<1>10. ASSUME NEW n \in Slot, NEW x \in Thing, AddThing(n, x) \/ RequestFails(n, x)
       PROVE  GiveInv'
  <2> DEFINE b == batches[n]
  <2>1. /\ b \in Batch /\ x \in b.todo /\ b.for # "shut" /\ b.for \in Team
        /\ ChosenFor(b.for, x) /\ b.ok \in BOOLEAN
    BY <1>10 DEF AddThing, RequestFails, GiveTypeOK, Owned, Batch
  <2>2. PICK ok \in BOOLEAN : batches' = [batches EXCEPT ![n] = Without(b, x, ok)]
    BY <1>10, <2>1 DEF AddThing, RequestFails
  <2> DEFINE c == Without(b, x, ok)
  <2>3. c \in Batch /\ c.todo \subseteq b.todo /\ (c.todo # {} => c.for = b.for)
    <3>1. CASE ~ok /\ b.todo \subseteq {x}
      BY <3>1 DEF Without, NoBatch, Batch
    <3>2. CASE ~(~ok /\ b.todo \subseteq {x})
      <4>1. c = [b EXCEPT !.todo = @ \ {x}, !.ok = ok]
        BY <3>2 DEF Without
      <4> QED
        BY <2>1, <4>1 DEF Batch
    <3> QED
      BY <3>1, <3>2
  <2>4. UNCHANGED <<kind, target, picked, folders, within, chosen, held>>
    BY <1>10 DEF AddThing, RequestFails
  <2>5. /\ stored' \in [Team -> SUBSET Thing]
        /\ \A t \in Team : \A y \in stored'[t] : y \in stored[t] \/ (t = b.for /\ y = x)
    <3>1. stored' \in {stored, [stored EXCEPT ![b.for] = @ \cup {x}]}
      BY <1>10 DEF AddThing, RequestFails, Given
    <3> QED
      BY <2>1, <3>1 DEF GiveTypeOK
  <2> HIDE DEF c
  <2>6. batches' \in [Slot -> Batch] /\ \A m \in Slot : batches'[m] = IF m = n THEN c ELSE batches[m]
    BY <2>2, <2>3 DEF GiveTypeOK, c
  <2>7. GiveTypeOK'
    BY <2>4, <2>5, <2>6 DEF GiveTypeOK
  <2>8. Owned'
    BY <2>1, <2>3, <2>4, <2>6 DEF Owned, ChosenFor
  <2>9. GivenToTeams'
    BY <2>1, <2>4, <2>5 DEF GivenToTeams, ChosenFor
  <2> QED
    BY <2>4, <2>7, <2>8, <2>9
<1>11. CASE UNCHANGED giveVars
  BY <1>11 DEF giveVars, GiveTypeOK, Owned, GivenToTeams, ChosenFor
<1> QED
  BY <1>1, <1>2, <1>3, <1>5, <1>6, <1>7, <1>8, <1>9, <1>10, <1>11 DEF GiveNext

-----------------------------------------------------------------------------
(* The dialog of the rules.  The items it lists are those of its host      *)
(* unless their load is in flight or was overtaken, because choosing a     *)
(* host asks for its items at once and a failure leaves none.              *)

ItemsFollow ==
  \/ ruleItems = {} \/ selectedHost = "none" \/ overtaken
  \/ listing[selectedHost] > 0
  \/ ruleItems \subseteq ItemsOf(selectedHost)

\* Rules asked for with care are of their host.
Proper(S) == \A r \in S \ loose : r[1] = r[2][1]

RuleInv ==
  /\ RuleTypeOK /\ ItemsFollow
  /\ RulesOfTheirHost
  /\ \A n \in Slot : Proper(adding[n].rules)

LEMMA RuleStarts == RuleInit => RuleInv
<1> SUFFICES ASSUME RuleInit PROVE RuleInv
  OBVIOUS
<1>1. NoRules \in RuleBatch /\ NoRules.rules = {}
  BY DEF NoRules, RuleBatch
<1>2. 0 \in 0..MaxListing
  BY BatchAssumption
<1>3. RuleTypeOK
  BY <1>1, <1>2 DEF RuleInit, RuleTypeOK
<1> QED
  BY <1>1, <1>3 DEF RuleInit, RuleInv, ItemsFollow, RulesOfTheirHost, Proper

LEMMA RuleSteps == RuleInv /\ [RuleNext]_ruleVars => RuleInv'
<1> SUFFICES ASSUME RuleInv, [RuleNext]_ruleVars PROVE RuleInv'
  OBVIOUS
<1> USE DEF RuleInv
<1>1. ASSUME UNCHANGED <<adding, rules, loose>>
      PROVE  RulesOfTheirHost' /\ \A n \in Slot : Proper(adding[n].rules)'
  BY <1>1 DEF RulesOfTheirHost, Proper
<1>2. CASE OpenRules
  BY <1>1, <1>2 DEF OpenRules, requestSide, RuleTypeOK, ItemsFollow
<1>3. CASE CloseRules
  BY <1>1, <1>3 DEF CloseRules, requestSide, RuleTypeOK, ItemsFollow
<1>4. ASSUME NEW h \in RuleHost, SelectHost(h) PROVE RuleInv'
  <2>1. listing[h] \in 0..MaxListing /\ MaxListing \in Nat /\ listing[h] < MaxListing
    BY <1>4, BatchAssumption DEF SelectHost, RuleTypeOK
  <2>2. listing[h] + 1 \in 0..MaxListing /\ listing[h] + 1 > 0
    BY <2>1
  <2>3. listing' \in [RuleHost -> 0..MaxListing] /\ listing'[h] > 0 /\ selectedHost' = h
    BY <1>4, <2>2 DEF SelectHost, RuleTypeOK
  <2> QED
    BY <1>1, <1>4, <2>3 DEF SelectHost, RuleTypeOK, ItemsFollow
<1>5. ASSUME NEW h \in RuleHost, ItemsListed(h) \/ ItemsNotListed(h) PROVE RuleInv'
  <2>1. listing[h] \in 0..MaxListing /\ MaxListing \in Nat /\ listing[h] > 0
    BY <1>5, BatchAssumption DEF ItemsListed, ItemsNotListed, RuleTypeOK
  <2>2. listing[h] - 1 \in 0..MaxListing
    BY <2>1
  <2>3. listing' \in [RuleHost -> 0..MaxListing]
    BY <1>5, <2>2 DEF ItemsListed, ItemsNotListed, RuleTypeOK
  <2>4. ItemsOf(h) \subseteq AnyItem
    BY DEF ItemsOf, AnyItem
  <2>5. (h # selectedHost) \in BOOLEAN
    OBVIOUS
  <2>6. CASE ItemsListed(h)
    <3>1. RuleTypeOK'
      BY <2>3, <2>4, <2>5, <2>6 DEF ItemsListed, RuleTypeOK
    <3>2. ItemsFollow'
      BY <2>6 DEF ItemsListed, ItemsFollow, RuleTypeOK
    <3> QED
      BY <1>1, <2>6, <3>1, <3>2 DEF ItemsListed
  <2>7. CASE ItemsNotListed(h)
    BY <1>1, <2>3, <2>7 DEF ItemsNotListed, RuleTypeOK, ItemsFollow
  <2> QED
    BY <1>5, <2>6, <2>7
<1>6. ASSUME NEW i \in AnyItem, toggleItem(i) PROVE RuleInv'
  BY <1>1, <1>6 DEF toggleItem, Toggled, requestSide, RuleTypeOK, ItemsFollow
<1>7. ASSUME NEW n \in Slot, addItemRule(n) PROVE RuleInv'
  <2> DEFINE hasty == listing[selectedHost] > 0 \/ overtaken
             b == [rules |-> RulesAsked, ok |-> TRUE, idle |-> FALSE]
  <2>1. /\ selectedHost \in RuleHost /\ adding' = [adding EXCEPT ![n] = b]
        /\ creating' = TRUE /\ sent' = sent \cup Asked
        /\ loose' = loose \cup IF hasty THEN RulesAsked ELSE {}
        /\ UNCHANGED <<ruleOpen, selectedHost, ruleItems, selectedItems, itemsLoading, listing,
                       rules, overtaken, ruleFailed>>
    BY <1>7 DEF addItemRule, RuleTypeOK
  <2>2. Asked \subseteq AnyItem /\ RulesAsked \subseteq Rule
    BY <2>1 DEF Asked, RulesAsked, Rule, RuleTypeOK
  <2>3. b \in RuleBatch /\ b.rules = RulesAsked
    BY <2>2 DEF RuleBatch
  <2>4. ~hasty => \A r \in RulesAsked : r[1] = r[2][1]
    <3> SUFFICES ASSUME ~hasty, NEW r \in RulesAsked PROVE r[1] = r[2][1]
      OBVIOUS
    <3>1. selectedHost # "none"
      BY <1>7 DEF addItemRule
    <3>2. PICK i \in Asked : r = <<selectedHost, i>>
      BY DEF RulesAsked
    <3>3. i \in ItemsOf(selectedHost)
      BY <3>1, <3>2 DEF Asked, ItemsFollow
    <3> QED
      BY <3>2, <3>3 DEF ItemsOf
  <2> HIDE DEF hasty
  <2>5. /\ loose \subseteq loose' /\ loose' \subseteq Rule
        /\ \A r \in RulesAsked \ loose' : r[1] = r[2][1]
    <3>1. CASE hasty
      BY <2>1, <2>2, <3>1 DEF RuleTypeOK
    <3>2. CASE ~hasty
      BY <2>1, <2>4, <3>2 DEF RuleTypeOK
    <3> QED
      BY <3>1, <3>2
  <2> HIDE DEF b
  <2>6. adding' \in [Slot -> RuleBatch] /\ \A m \in Slot : adding'[m] = IF m = n THEN b ELSE adding[m]
    BY <2>1, <2>3 DEF RuleTypeOK
  <2>7. RuleTypeOK'
    BY <2>1, <2>2, <2>5, <2>6 DEF RuleTypeOK
  <2>8. ItemsFollow'
    BY <2>1 DEF ItemsFollow
  <2>9. RulesOfTheirHost'
    BY <2>1, <2>5 DEF RulesOfTheirHost
  <2>10. \A m \in Slot : Proper(adding[m].rules)'
    <3> SUFFICES ASSUME NEW m \in Slot, NEW r \in adding'[m].rules, r \notin loose'
                 PROVE  r[1] = r[2][1]
      BY DEF Proper
    <3>1. CASE m = n
      BY <2>3, <2>5, <2>6, <3>1
    <3>2. CASE m # n
      BY <2>5, <2>6, <3>2 DEF Proper
    <3> QED
      BY <3>1, <3>2
  <2> QED
    BY <2>7, <2>8, <2>9, <2>10
<1>8. ASSUME NEW n \in Slot, RulesCreated(n) PROVE RuleInv'
  <2>1. NoRules \in RuleBatch /\ NoRules.rules = {}
    BY DEF NoRules, RuleBatch
  <2>2. adding' \in [Slot -> RuleBatch] /\ \A m \in Slot : adding'[m] = IF m = n THEN NoRules ELSE adding[m]
    BY <1>8, <2>1 DEF RulesCreated, RuleTypeOK
  <2>3. RuleTypeOK' /\ ItemsFollow' /\ RulesOfTheirHost'
    BY <1>8, <2>2 DEF RulesCreated, RuleTypeOK, ItemsFollow, RulesOfTheirHost
  <2>4. \A m \in Slot : Proper(adding[m].rules)'
    BY <1>8, <2>1, <2>2 DEF RulesCreated, Proper
  <2> QED
    BY <2>3, <2>4
<1>9. ASSUME NEW n \in Slot, NEW r \in Rule, createAlertRule(n, r) \/ createAlertRuleFails(n, r)
      PROVE  RuleInv'
  <2> DEFINE b == adding[n]
  <2>1. b \in RuleBatch /\ r \in b.rules /\ b.ok \in BOOLEAN /\ Proper(b.rules)
    BY <1>9 DEF createAlertRule, createAlertRuleFails, RuleTypeOK, RuleBatch
  <2>2. PICK ok \in BOOLEAN : adding' = [adding EXCEPT ![n] = WithoutRule(b, r, ok)]
    BY <1>9, <2>1 DEF createAlertRule, createAlertRuleFails
  <2> DEFINE c == WithoutRule(b, r, ok)
  <2>3. c \in RuleBatch /\ c.rules \subseteq b.rules
    <3>1. CASE ~ok /\ b.rules \subseteq {r}
      BY <3>1 DEF WithoutRule, NoRules, RuleBatch
    <3>2. CASE ~(~ok /\ b.rules \subseteq {r})
      <4>1. c = [b EXCEPT !.rules = @ \ {r}, !.ok = ok]
        BY <3>2 DEF WithoutRule
      <4> QED
        BY <2>1, <4>1 DEF RuleBatch
    <3> QED
      BY <3>1, <3>2
  <2>4. /\ rules \subseteq rules' /\ rules' \subseteq rules \cup {r}
        /\ UNCHANGED <<ruleOpen, selectedHost, ruleItems, selectedItems, itemsLoading, listing,
                       overtaken, loose, sent>>
        /\ creating' \in BOOLEAN /\ ruleFailed' \in BOOLEAN
    BY <1>9 DEF createAlertRule, createAlertRuleFails, RuleTypeOK
  <2> HIDE DEF c
  <2>5. adding' \in [Slot -> RuleBatch] /\ \A m \in Slot : adding'[m] = IF m = n THEN c ELSE adding[m]
    BY <2>2, <2>3 DEF RuleTypeOK, c
  <2>6. RuleTypeOK'
    BY <2>4, <2>5 DEF RuleTypeOK
  <2>7. ItemsFollow'
    BY <2>4 DEF ItemsFollow
  <2>8. RulesOfTheirHost'
    BY <2>1, <2>4 DEF RulesOfTheirHost, Proper
  <2>9. \A m \in Slot : Proper(adding[m].rules)'
    BY <2>1, <2>3, <2>4, <2>5 DEF Proper
  <2> QED
    BY <2>6, <2>7, <2>8, <2>9
<1>10. CASE UNCHANGED ruleVars
  BY <1>1, <1>10 DEF ruleVars, RuleTypeOK, ItemsFollow
<1> QED
  BY <1>2, <1>3, <1>4, <1>5, <1>6, <1>7, <1>8, <1>9, <1>10 DEF RuleNext

BatchInv == GiveInv /\ RuleInv

LEMMA BatchSteps == BatchInv /\ [BatchNext]_batchVars => BatchInv'
BY GiveSteps, RuleSteps DEF BatchInv, BatchNext, batchVars

\* A team gets only what was selected in its own dialog (handleAssignHost,
\* handleAssignGroups, handleAddMembers), and a rule names the host of its item
\* unless it was asked for before the items of the host were there (handleAdd of
\* the alert rules).
THEOREM GivenIsChosen == BatchSpec => []GivenAsChosen
<1>1. BatchInit => BatchInv
  BY GiveStarts, RuleStarts DEF BatchInit, BatchInv
<1>2. BatchInv => GivenAsChosen
  BY DEF BatchInv, GiveInv, RuleInv, GivenAsChosen
<1> QED
  BY <1>1, <1>2, BatchSteps, PTL DEF BatchSpec

\* Create rule is disabled from a press until the batch has failed, or has closed
\* the dialog.
SentIsBusy == ruleOpen /\ ~creating /\ ~ruleFailed => sent = {}

\* In one opening of the dialog of the rules an item is sent once, unless a
\* request failed: a second press of Create rule makes no second rule.
THEOREM NoSecondPress == BatchSpec => SentOnce
<1>1. BatchInit => SentIsBusy
  BY DEF BatchInit, RuleInit, SentIsBusy
<1>2. SentIsBusy /\ [BatchNext]_batchVars => SentIsBusy'
  <2> SUFFICES ASSUME SentIsBusy, [RuleNext]_ruleVars PROVE SentIsBusy'
    BY DEF BatchNext, batchVars
  <2>1. CASE OpenRules \/ CloseRules
    BY <2>1 DEF OpenRules, CloseRules, requestSide, SentIsBusy
  <2>2. ASSUME NEW h \in RuleHost, SelectHost(h) \/ ItemsListed(h) \/ ItemsNotListed(h)
        PROVE  SentIsBusy'
    BY <2>2 DEF SelectHost, ItemsListed, ItemsNotListed, SentIsBusy
  <2>3. ASSUME NEW i \in AnyItem, toggleItem(i) PROVE SentIsBusy'
    BY <2>3 DEF toggleItem, requestSide, SentIsBusy
  <2>4. ASSUME NEW n \in Slot, addItemRule(n) \/ RulesCreated(n) PROVE SentIsBusy'
    BY <2>4 DEF addItemRule, RulesCreated, SentIsBusy
  <2>5. ASSUME NEW n \in Slot, NEW r \in Rule, createAlertRule(n, r) \/ createAlertRuleFails(n, r)
        PROVE  SentIsBusy'
    BY <2>5 DEF createAlertRule, createAlertRuleFails, SentIsBusy
  <2>6. CASE UNCHANGED ruleVars
    BY <2>6 DEF ruleVars, SentIsBusy
  <2> QED
    BY <2>1, <2>2, <2>3, <2>4, <2>5, <2>6 DEF RuleNext
<1>3. SentIsBusy /\ [BatchNext]_batchVars =>
        [\A n \in Slot : addItemRule(n) => sent \cap Asked = {} \/ ruleFailed]_ruleVars
  BY DEF addItemRule, SentIsBusy
<1> QED
  BY <1>1, <1>2, <1>3, PTL DEF BatchSpec, SentOnce

-----------------------------------------------------------------------------
(* The dialog that orders the teams of a user *)

\* The teams are finitely many.
LEMMA GroupsCounted ==
  Cardinality(Group) \in Nat /\ Group = 1..Cardinality(Group) /\ IsFiniteSet(Group)
BY GroupAssumption, FS_CardinalityType

\* How Sorted lists the teams: by order, then by name.
ByOrder(o) == {p \in Group \X Group : o[p[1]] < o[p[2]] \/ (o[p[1]] = o[p[2]] /\ p[1] < p[2])}

\* No two teams come at the same place: names decide where orders do not.
LEMMA ByOrderIsOrder ==
  ASSUME NEW o \in Orders
  PROVE  IsOrder(ByOrder(o), Group)
<1>1. \A g \in Group : g \in Nat /\ o[g] \in Nat
  BY GroupsCounted DEF Orders, Place
<1>2. \A g, h \in Group : <<g, h>> \in ByOrder(o) <=> o[g] < o[h] \/ (o[g] = o[h] /\ g < h)
  BY DEF ByOrder
<1> QED
  BY <1>1, <1>2 DEF IsOrder

\* A list of all teams holds each of them at one place.
LEMMA PlacesOfTeams ==
  ASSUME NEW q \in Sequence
  PROVE  /\ \A g \in Group : PositionIn(q, g) \in Place /\ q[PositionIn(q, g) + 1] = g
         /\ \A i \in 1..Cardinality(Group) : PositionIn(q, q[i]) = i - 1
<1> DEFINE n == Cardinality(Group)
<1>1. n \in Nat /\ DOMAIN q = 1..n /\ q \in [1..n -> Group]
  BY GroupsCounted DEF Sequence
<1>2. \A i, j \in 1..n : q[i] = q[j] => i = j
  BY <1>1 DEF Sequence
<1>3. q \in Injection(1..n, Group)
  BY <1>1, <1>2 DEF Injection, IsInjective
<1>4. IsFiniteSet(1..n) /\ Cardinality(1..n) = n
  BY <1>1, FS_Interval
<1>5. q \in Surjection(1..n, Group)
  BY <1>3, <1>4, GroupsCounted, FS_Injection
<1>6. \A g \in Group : \E i \in 1..n : q[i] = g
  BY <1>5 DEF Surjection
<1>7. ASSUME NEW g \in Group
      PROVE  PositionIn(q, g) \in Place /\ q[PositionIn(q, g) + 1] = g
  <2> DEFINE k == CHOOSE i \in DOMAIN q : q[i] = g
  <2>1. k \in 1..n /\ q[k] = g
    BY <1>1, <1>6
  <2>2. PositionIn(q, g) = k - 1
    BY DEF PositionIn
  <2> HIDE DEF k
  <2> QED
    BY <1>1, <2>1, <2>2 DEF Place
<1>8. ASSUME NEW i \in 1..n
      PROVE  PositionIn(q, q[i]) = i - 1
  <2> DEFINE k == CHOOSE j \in DOMAIN q : q[j] = q[i]
  <2>1. k \in 1..n /\ q[k] = q[i]
    BY <1>1
  <2>2. PositionIn(q, q[i]) = k - 1
    BY DEF PositionIn
  <2> HIDE DEF k
  <2> QED
    BY <1>1, <1>2, <2>1, <2>2
<1> QED
  BY <1>7, <1>8

\* The teams can be listed by any orders they may have, and in one way.
LEMMA SortedIsList ==
  ASSUME NEW o \in Orders
  PROVE  Sorted(o) \in Sequence /\ Enumerates(Sorted(o), Group, ByOrder(o))
<1> DEFINE n == Cardinality(Group)
           Rises(q) == \A i, j \in DOMAIN q :
                         i < j => o[q[i]] < o[q[j]] \/ (o[q[i]] = o[q[j]] /\ q[i] < q[j])
<1>1. PICK p : Enumerates(p, Group, ByOrder(o))
  BY GroupsCounted, ByOrderIsOrder, ListExists
<1>2. p \in Sequence
  BY <1>1, GroupsCounted, ByOrderIsOrder, ListedOnce DEF Enumerates, Sequence
<1>3. Rises(p)
  BY <1>1 DEF Enumerates, ByOrder
<1>4. Sorted(o) \in Sequence /\ Rises(Sorted(o))
  <2>1. Sorted(o) = CHOOSE q \in Sequence : Rises(q)
    BY DEF Sorted
  <2> HIDE DEF Rises
  <2> QED
    BY <1>2, <1>3, <2>1
<1>5. Enumerates(Sorted(o), Group, ByOrder(o))
  <2>1. DOMAIN Sorted(o) = 1..n /\ Sorted(o) \in [1..n -> Group]
    BY <1>4 DEF Sequence
  <2> QED
    BY <1>4, <2>1 DEF Enumerates, ByOrder
<1> QED
  BY <1>4, <1>5

\* Teams that have the order in which they are listed are sorted.
LEMMA ListedIsSorted ==
  ASSUME NEW q \in Sequence
  PROVE  BelievedAfter(q) \in Orders /\ Sorted(BelievedAfter(q)) = q
<1> DEFINE n == Cardinality(Group)
           o == BelievedAfter(q)
<1>1. o \in Orders
  BY PlacesOfTeams DEF BelievedAfter, Orders
<1>2. q \in [1..n -> Group] /\ \A i \in 1..n : o[q[i]] = i - 1
  BY PlacesOfTeams DEF BelievedAfter, Sequence
<1> HIDE DEF o
<1>3. Enumerates(q, Group, ByOrder(o))
  <2>1. ASSUME NEW i \in 1..n, NEW j \in 1..n, i < j
        PROVE  <<q[i], q[j]>> \in ByOrder(o)
    <3>1. q[i] \in Group /\ q[j] \in Group /\ o[q[i]] < o[q[j]]
      BY <1>2, <2>1, GroupsCounted
    <3> QED
      BY <3>1 DEF ByOrder
  <2> QED
    BY <1>2, <2>1 DEF Enumerates
<1>4. Enumerates(Sorted(o), Group, ByOrder(o))
  BY <1>1, SortedIsList
<1>5. Sorted(o) = q
  BY <1>1, <1>3, <1>4, GroupsCounted, ByOrderIsOrder, ListUnique
<1> QED
  BY <1>1, <1>5 DEF o

\* Exchanging two teams leaves a list of all teams.
LEMMA SwapIsList ==
  ASSUME shownTeams \in Sequence \cup {<<>>}, NEW i \in 1..(Len(shownTeams) - 1)
  PROVE  Swapped(i, i + 1) \in Sequence /\ Swapped(i, i + 1) # <<>>
<1> DEFINE n == Cardinality(Group)
<1>1. shownTeams \in Sequence /\ n \in Nat
  BY GroupsCounted
<1>2. shownTeams \in [1..n -> Group] /\ DOMAIN shownTeams = 1..n
  BY <1>1 DEF Sequence
<1>3. Len(shownTeams) = n
  BY <1>1, <1>2
<1>4. i \in 1..n /\ i + 1 \in 1..n
  BY <1>1, <1>3
<1>5. /\ Swapped(i, i + 1) \in [1..n -> Group]
      /\ \A k \in 1..n : Swapped(i, i + 1)[k] =
           shownTeams[IF k = i THEN i + 1 ELSE IF k = i + 1 THEN i ELSE k]
  BY <1>2, <1>4 DEF Swapped
<1>6. \A k, m \in 1..n : shownTeams[k] = shownTeams[m] => k = m
  BY <1>1, <1>2 DEF Sequence
<1>7. \A k, m \in 1..n : Swapped(i, i + 1)[k] = Swapped(i, i + 1)[m] => k = m
  BY <1>1, <1>4, <1>5, <1>6
<1>8. DOMAIN Swapped(i, i + 1) = 1..n
  BY <1>5
<1>9. Swapped(i, i + 1) # <<>>
  <2> SUFFICES ASSUME Swapped(i, i + 1) = <<>> PROVE FALSE
    OBVIOUS
  <2>1. DOMAIN Swapped(i, i + 1) = {}
    OBVIOUS
  <2> QED
    BY <1>4, <1>8, <2>1
<1>10. Swapped(i, i + 1) \in Sequence
  <2> DEFINE q == Swapped(i, i + 1)
  <2>1. q \in [1..n -> Group] /\ DOMAIN q = 1..n /\ \A k, m \in 1..n : q[k] = q[m] => k = m
    BY <1>5, <1>7, <1>8
  <2> HIDE DEF q
  <2>2. q \in Sequence
    BY <2>1 DEF Sequence
  <2> QED
    BY <2>2 DEF q
<1> QED
  BY <1>9, <1>10

-----------------------------------------------------------------------------
\* The types, with the loads in flight as a list.
OrderShape == OrderTypeOK /\ orderLoads \in Seq(Orders \cup {<<>>})

\* What is still to be written of the save in flight.
Sends(g) == <<g, PositionIn(persist, g), TRUE>>

\* Until something goes wrong, what the dialog believes is what the server has;
\* and during a save a team has its new order, or a write for it is in flight.
OrderFollows ==
  clean =>
    /\ Idle => writes = {} /\ believed = order
    /\ ~Idle => /\ writes \subseteq {Sends(g) : g \in Group}
                /\ \A g \in Group : Sends(g) \in writes \/ order[g] = PositionIn(persist, g)

LEMMA OrderShapeInit == OrderInit => OrderShape /\ OrderFollows
<1> SUFFICES ASSUME OrderInit PROVE OrderShape /\ OrderFollows
  OBVIOUS
<1>1. order \in Orders /\ believed \in Orders
  <2>1. \A g \in Group : 0 \in Place
    BY GroupsCounted DEF Place
  <2> QED
    BY <2>1 DEF OrderInit, Orders
<1>2. orderLoads \in Seq(Orders \cup {<<>>}) /\ Len(orderLoads) = 0 /\ DOMAIN orderLoads = {}
  BY DEF OrderInit
<1>3. MaxLoads \in Nat /\ 0 \in 0..MaxTrouble
  BY GroupAssumption
<1>4. OrderTypeOK
  <2>1. orderOpen \in BOOLEAN /\ orderLoading \in BOOLEAN /\ clean \in BOOLEAN
    BY DEF OrderInit
  <2>2. shownTeams = <<>> /\ persist = <<>> /\ writes = {} /\ trouble \in 0..MaxTrouble
    BY <1>3 DEF OrderInit
  <2>3. Len(orderLoads) <= MaxLoads
    BY <1>2, <1>3
  <2> QED
    BY <1>1, <1>2, <2>1, <2>2, <2>3 DEF OrderTypeOK
<1> QED
  BY <1>2, <1>4 DEF OrderInit, OrderShape, OrderFollows

LEMMA OrderShapeStep == OrderShape /\ [OrderNext]_orderVars => OrderShape'
<1> SUFFICES ASSUME OrderShape, [OrderNext]_orderVars PROVE OrderShape'
  OBVIOUS
<1> DEFINE Read == Orders \cup {<<>>}
<1> USE DEF OrderShape
<1>0. /\ orderLoads \in Seq(Read) /\ DOMAIN orderLoads = 1..Len(orderLoads)
      /\ Len(orderLoads) \in Nat /\ MaxLoads \in Nat /\ Len(orderLoads) <= MaxLoads
      /\ order \in Read /\ <<>> \in Read
  BY GroupAssumption DEF OrderTypeOK
<1>a. ASSUME NEW q \in Seq(Read), orderLoads' = q, Len(q) <= MaxLoads
      PROVE  /\ orderLoads' \in Seq(Read) /\ Len(orderLoads') <= MaxLoads
             /\ \A l \in DOMAIN orderLoads' : orderLoads'[l] \in Read
  BY <1>a
<1>1. CASE OpenOrder
  <2>1. Append(orderLoads, <<>>) \in Seq(Read) /\ Len(Append(orderLoads, <<>>)) = Len(orderLoads) + 1
    BY <1>0, AppendProperties
  <2>2. Len(orderLoads) + 1 <= MaxLoads
    BY <1>0, <1>1 DEF OpenOrder
  <2> HIDE DEF Read
  <2>3. /\ orderLoads' \in Seq(Read) /\ Len(orderLoads') <= MaxLoads
        /\ \A l \in DOMAIN orderLoads' : orderLoads'[l] \in Read
    BY <1>1, <1>a, <2>1, <2>2 DEF OpenOrder
  <2> QED
    BY <1>1, <2>3 DEF OpenOrder, OrderTypeOK, Read
<1>2. CASE CloseOrder
  BY <1>2 DEF CloseOrder, OrderTypeOK
<1>3. ASSUME NEW l \in DOMAIN orderLoads, ReadOrder(l) PROVE OrderShape'
  <2>1. [orderLoads EXCEPT ![l] = order] \in Seq(Read)
        /\ Len([orderLoads EXCEPT ![l] = order]) = Len(orderLoads)
    BY <1>0, ExceptSeq
  <2> HIDE DEF Read
  <2>3. /\ orderLoads' \in Seq(Read) /\ Len(orderLoads') <= MaxLoads
        /\ \A m \in DOMAIN orderLoads' : orderLoads'[m] \in Read
    BY <1>0, <1>3, <1>a, <2>1 DEF ReadOrder
  <2> QED
    BY <1>3, <2>3 DEF ReadOrder, OrderTypeOK, Read
<1>4. ASSUME NEW l \in DOMAIN orderLoads, orderLoads' = RemoveAt(orderLoads, l)
      PROVE  /\ orderLoads' \in Seq(Read) /\ Len(orderLoads') <= MaxLoads
             /\ \A m \in DOMAIN orderLoads' : orderLoads'[m] \in Read
  <2>1. RemoveAt(orderLoads, l) \in Seq(Read) /\ Len(RemoveAt(orderLoads, l)) = Len(orderLoads) - 1
    BY <1>0, Removed
  <2> HIDE DEF Read
  <2> QED
    BY <1>0, <1>4, <1>a, <2>1
<1>5. ASSUME NEW l \in DOMAIN orderLoads, OrderLoaded(l) PROVE OrderShape'
  <2>1. orderLoads[l] \in Orders /\ Sorted(orderLoads[l]) \in Sequence
    BY <1>5, SortedIsList DEF OrderLoaded, OrderTypeOK
  <2>2. clean' \in BOOLEAN
    BY <1>5 DEF OrderLoaded
  <2> QED
    BY <1>4, <1>5, <2>1, <2>2 DEF OrderLoaded, OrderTypeOK
<1>6. ASSUME NEW l \in DOMAIN orderLoads, OrderLoadFails(l) PROVE OrderShape'
  BY <1>4, <1>6 DEF OrderLoadFails, OrderTypeOK
<1>7. ASSUME NEW i \in Group, Move(i) PROVE OrderShape'
  <2>1. persist' \in Sequence
    BY <1>7, SwapIsList DEF Move, OrderTypeOK
  <2>2. \A g \in Group : <<g, PositionIn(persist', g), TRUE>> \in Group \X Place \X BOOLEAN
    BY <2>1, PlacesOfTeams
  <2>3. writes' \subseteq Group \X Place \X BOOLEAN
    BY <1>7, <2>2 DEF Move, ToWrite, OrderTypeOK
  <2> QED
    BY <1>7, <2>1, <2>3 DEF Move, dialogSide, OrderTypeOK
<1>8. ASSUME NEW w \in writes, WritePlace(w) PROVE OrderShape'
  BY <1>8 DEF WritePlace, dialogSide, OrderTypeOK, Orders
<1>9. ASSUME NEW w \in writes, WriteFails(w) PROVE OrderShape'
  <2>1. order' \in Orders /\ trouble' \in 0..MaxTrouble
    BY <1>0, <1>9, GroupAssumption DEF WriteFails, OrderTypeOK, Orders
  <2>2. writes' \subseteq Group \X Place \X BOOLEAN
    <3>1. writes \subseteq Group \X Place \X BOOLEAN
      BY DEF OrderTypeOK
    <3>2. \A v \in writes : v[1] \in Group /\ v[2] \in Place
      BY <3>1
    <3>3. \A v \in writes : <<v[1], v[2], FALSE>> \in Group \X Place \X BOOLEAN
      BY <3>2
    <3>4. writes' \subseteq writes \cup {<<v[1], v[2], FALSE>> : v \in writes}
      BY <1>9 DEF WriteFails
    <3> QED
      BY <3>1, <3>3, <3>4
  <2>3. persist' \in Sequence \cup {<<>>}
    BY <1>9 DEF WriteFails, OrderTypeOK
  <2> QED
    BY <1>9, <2>1, <2>2, <2>3 DEF WriteFails, dialogSide, OrderTypeOK
<1>10. CASE Persisted
  BY <1>10, ListedIsSorted DEF Persisted, Idle, dialogSide, OrderTypeOK
<1>11. ASSUME NEW g \in Group, NEW k \in Place, OtherOrders(g, k) PROVE OrderShape'
  <2>1. order' \in Orders /\ trouble' \in 0..MaxTrouble
    BY <1>0, <1>11, GroupAssumption DEF OtherOrders, OrderTypeOK, Orders
  <2> QED
    BY <1>11, <2>1 DEF OtherOrders, dialogSide, OrderTypeOK
<1>12. CASE UNCHANGED orderVars
  BY <1>12 DEF orderVars, OrderTypeOK
<1> QED
  BY <1>1, <1>2, <1>3, <1>5, <1>6, <1>7, <1>8, <1>9, <1>10, <1>11, <1>12 DEF OrderNext

\* When a clean save ends, the server has the order that is shown from then on.
LEMMA SavedAsShown ==
  ASSUME OrderShape, OrderFollows, clean, Persisted
  PROVE  writes = {} /\ order = BelievedAfter(persist) /\ Sorted(order) = persist
<1>1. persist \in Sequence /\ ~Idle /\ order \in Orders
  BY DEF OrderShape, OrderTypeOK, Persisted, Idle
<1>2. writes = {}
  <2> SUFFICES ASSUME NEW w \in writes PROVE FALSE
    OBVIOUS
  <2>1. PICK g \in Group : w = Sends(g)
    BY <1>1 DEF OrderFollows
  <2>2. w[3]
    BY <2>1 DEF Sends
  <2> QED
    BY <2>2 DEF Persisted
<1>3. \A g \in Group : order[g] = PositionIn(persist, g)
  BY <1>1, <1>2 DEF OrderFollows
<1>4. order = BelievedAfter(persist)
  BY <1>1, <1>3 DEF BelievedAfter, Orders
<1> QED
  BY <1>1, <1>2, <1>4, ListedIsSorted

\* A step that leaves the dialog clean keeps what it believes true.
LEMMA OrderFollowsStep ==
  OrderShape /\ OrderFollows /\ [OrderNext]_orderVars => OrderFollows'
<1> SUFFICES ASSUME OrderShape, OrderFollows, [OrderNext]_orderVars, clean'
             PROVE  OrderFollows'
  BY DEF OrderFollows
<1>1. ASSUME UNCHANGED <<order, believed, persist, writes, clean>> PROVE OrderFollows'
  BY <1>1 DEF OrderFollows, Idle, Sends
<1>2. ASSUME NEW l \in DOMAIN orderLoads, OrderLoaded(l) PROVE OrderFollows'
  BY <1>2 DEF OrderLoaded, OrderFollows, Idle
<1>3. ASSUME NEW i \in Group, Move(i) PROVE OrderFollows'
  <2>1. Swapped(i, i + 1) # <<>>
    BY <1>3, SwapIsList DEF Move, OrderShape, OrderTypeOK
  <2>2. persist' # <<>> /\ order' = order /\ writes = {} /\ believed = order
    BY <1>3, <2>1 DEF Move, OrderFollows
  <2>3. writes' = {<<g, PositionIn(persist', g), TRUE>> : g \in ToWrite(persist')}
    BY <1>3, <2>2 DEF Move
  <2>4. ToWrite(persist') = {g \in Group : PositionIn(persist', g) # order[g]}
    BY <2>2 DEF ToWrite
  <2> QED
    BY <2>2, <2>3, <2>4 DEF OrderFollows, Idle, Sends
<1>4. ASSUME NEW w \in writes, WritePlace(w) PROVE OrderFollows'
  <2>1. /\ persist' = persist /\ writes' = writes \ {w} /\ clean
        /\ order' = [order EXCEPT ![w[1]] = w[2]] /\ order \in Orders
    BY <1>4 DEF WritePlace, OrderShape, OrderTypeOK
  <2>2. ~Idle /\ writes \subseteq {Sends(g) : g \in Group}
        /\ \A g \in Group : Sends(g) \in writes \/ order[g] = PositionIn(persist, g)
    BY <2>1 DEF OrderFollows
  <2>3. PICK h \in Group : w = Sends(h)
    BY <2>2
  <2>4. w[1] = h /\ w[2] = PositionIn(persist, h)
    BY <2>3 DEF Sends
  <2>5. \A g \in Group : Sends(g) \in writes' \/ order'[g] = PositionIn(persist, g)
    <3> SUFFICES ASSUME NEW g \in Group, Sends(g) \notin writes'
                 PROVE  order'[g] = PositionIn(persist, g)
      OBVIOUS
    <3>1. CASE g = h
      BY <2>1, <2>4, <3>1 DEF Orders
    <3>2. CASE g # h
      <4>1. Sends(g) # w
        BY <2>3, <3>2 DEF Sends
      <4> QED
        BY <2>1, <2>2, <2>4, <3>2, <4>1 DEF Orders
    <3> QED
      BY <3>1, <3>2
  <2>6. \A g : Sends(g)' = Sends(g)
    BY <2>1 DEF Sends
  <2> QED
    BY <2>1, <2>2, <2>5, <2>6 DEF OrderFollows, Idle, Sends
<1>5. CASE Persisted
  <2>1. clean /\ persist' = <<>> /\ believed' = BelievedAfter(persist) /\ UNCHANGED <<order, writes>>
    BY <1>5 DEF Persisted
  <2> QED
    BY <1>5, <2>1, SavedAsShown DEF OrderFollows, Idle
<1>6. ASSUME NEW w \in writes, WriteFails(w) PROVE FALSE
  BY <1>6 DEF WriteFails
<1>7. ASSUME NEW g \in Group, NEW n \in Place, OtherOrders(g, n) PROVE FALSE
  BY <1>7 DEF OtherOrders
<1>8. CASE OpenOrder \/ CloseOrder \/ UNCHANGED orderVars
  BY <1>1, <1>8 DEF OpenOrder, CloseOrder, orderVars
<1>9. ASSUME NEW l \in DOMAIN orderLoads, ReadOrder(l) \/ OrderLoadFails(l) PROVE OrderFollows'
  BY <1>1, <1>9 DEF ReadOrder, OrderLoadFails
<1> QED
  BY <1>2, <1>3, <1>4, <1>5, <1>6, <1>7, <1>8, <1>9 DEF OrderNext

\* After a move that succeeded the server has the order the dialog shows
\* (persistTeamOrder), unless since the load a write has failed or another user
\* has moved a team.
THEOREM ServerHasTheOrder == OrderSpec => OrderAsShown
<1>1. OrderShape /\ OrderFollows /\ [OrderNext]_orderVars =>
        [Persisted /\ clean => Sorted(order) = shownTeams']_orderVars
  BY SavedAsShown DEF Persisted
<1> QED
  BY <1>1, OrderShapeInit, OrderShapeStep, OrderFollowsStep, PTL DEF OrderSpec, OrderAsShown

-----------------------------------------------------------------------------
(* Types of the four parts *)

\* Laying settings over others loses none.
LEMMA SettingsLaidOver ==
  ASSUME NEW new \in Partly
  PROVE  /\ \A old \in Known : Over(new, old) \in Known
         /\ \A old \in Partly : Over(new, old) \in Partly
BY DEF Over, Partly, Known

LEMMA KnownSettings == Known \subseteq Partly /\ Nothing \in Partly
BY DEF Known, Partly, Nothing

LEMMA SettingsTypesInit == SettingsInit => SettingsTypeOK
<1> SUFFICES ASSUME SettingsInit PROVE SettingsTypeOK
  OBVIOUS
<1>1. NoSettingsSave \in [data : Partly, base : Partly, shown : Partly, set : SUBSET Field]
  BY KnownSettings DEF NoSettingsSave
<1> QED
  BY <1>1, KnownSettings DEF SettingsInit, SettingsTypeOK

\* A step of the settings keeps their types.
LEMMA SettingsTypesKept == SettingsTypeOK /\ [SettingsNext]_settingVars => SettingsTypeOK'
<1> SUFFICES ASSUME SettingsTypeOK, [SettingsNext]_settingVars PROVE SettingsTypeOK'
  OBVIOUS
<1> DEFINE Loading == {<<"free">>, <<"asked">>} \cup {<<"read", k>> : k \in Known}
           Saving == [data : Partly, base : Partly, shown : Partly, set : SUBSET Field]
<1>0. /\ atZabbix \in Known /\ settings \in Partly /\ draft \in Partly /\ saveJob \in Saving
      /\ fetching \in [Fetch -> Loading] /\ touched \in SUBSET Field
      /\ <<"free">> \in Loading /\ <<"asked">> \in Loading /\ <<"read", atZabbix>> \in Loading
  BY DEF SettingsTypeOK
<1>a. ASSUME NEW n \in Fetch, NEW x \in Loading
      PROVE  [fetching EXCEPT ![n] = x] \in [Fetch -> Loading]
  <2> HIDE DEF Loading
  <2> QED BY <1>0
<1>b. NoSettingsSave \in Saving
  BY KnownSettings DEF NoSettingsSave
<1>1. ASSUME NEW n \in Fetch, NEW t \in {AuthenticationTab, HousekeepingTab}, MountSettings(t, n)
      PROVE  SettingsTypeOK'
  BY <1>1, <1>0, <1>a DEF MountSettings, SettingsTypeOK
<1>2. ASSUME NEW n \in Fetch, LoadSilently(n) PROVE SettingsTypeOK'
  BY <1>2, <1>0, <1>a DEF LoadSilently, SettingsTypeOK
<1>3. ASSUME NEW n \in Fetch, ReadSettings(n) PROVE SettingsTypeOK'
  BY <1>3, <1>0, <1>a DEF ReadSettings, SettingsTypeOK
<1>4. ASSUME NEW n \in Fetch, SettingsLoaded(n) PROVE SettingsTypeOK'
  <2>1. fetching[n] \in Loading /\ Len(fetching[n]) = 2
    BY <1>0, <1>4 DEF SettingsLoaded
  <2>2. fetching[n][2] \in Partly
    BY <2>1, KnownSettings
  <2>3. draft' \in Partly
    BY <1>4, <2>2, KnownSettings DEF SettingsLoaded
  <2> QED
    BY <1>4, <1>0, <1>a, <2>2, <2>3 DEF SettingsLoaded, SettingsTypeOK
<1>5. ASSUME NEW n \in Fetch, SettingsNotLoaded(n) PROVE SettingsTypeOK'
  BY <1>5, <1>0, <1>a DEF SettingsNotLoaded, SettingsTypeOK
<1>6. ASSUME NEW n \in Fetch, SettingsSaved(n) PROVE SettingsTypeOK'
  <2>1. UpdateRequest(saveJob) \in Partly
    <3>1. saveJob.data \in Partly
      BY <1>0
    <3> QED
      BY <3>1 DEF UpdateRequest, Partly, Value
  <2>2. atZabbix' \in Known
    BY <1>6, <1>0, <2>1, SettingsLaidOver DEF SettingsSaved
  <2>3. draft' \in Partly /\ touched' \in SUBSET Field
    BY <1>6, <1>0, KnownSettings DEF SettingsSaved
  <2> QED
    BY <1>6, <1>0, <1>a, <1>b, <2>2, <2>3 DEF SettingsSaved, SettingsTypeOK
<1>7. ASSUME NEW f \in Field, NEW v \in Value, SetSetting(f, v) PROVE SettingsTypeOK'
  <2>1. [draft EXCEPT ![f] = v] \in Partly
    BY <1>0 DEF Partly
  <2> QED
    BY <1>7, <1>0, <2>1 DEF SetSetting, SettingsTypeOK
<1>8. ASSUME NEW f \in Field, NEW v \in Value, OtherSetting(f, v) PROVE SettingsTypeOK'
  <2>1. [atZabbix EXCEPT ![f] = v] \in Known
    BY <1>0 DEF Known
  <2> QED
    BY <1>8, <1>0, <2>1 DEF OtherSetting, SettingsTypeOK
<1>9. CASE SaveSettings
  <2>1. Shown \in Partly
    <3>1. [f \in Field |-> "off"] \in Known
      BY DEF Known, Value
    <3> QED
      BY <1>0, <3>1, SettingsLaidOver, KnownSettings DEF Shown
  <2>2. [data |-> Payload, base |-> settings, shown |-> Shown, set |-> touched] \in Saving
    BY <1>0, <2>1 DEF Payload
  <2> QED
    BY <1>9, <1>0, <2>2 DEF SaveSettings, SettingsTypeOK
<1>10. CASE SettingsRefused
  BY <1>10, <1>0, <1>b DEF SettingsRefused, SettingsTypeOK
<1>11. CASE UNCHANGED settingVars
  BY <1>11 DEF settingVars, SettingsTypeOK
<1> QED
  BY <1>1, <1>2, <1>3, <1>4, <1>5, <1>6, <1>7, <1>8, <1>9, <1>10, <1>11 DEF SettingsNext

\* What the seven parts need for their types.
ItemsInv ==
  /\ ItemInv
  /\ SettingsTypeOK /\ PortalInv /\ ServerInv
  /\ BatchInv /\ OrderShape

\* One of the seven moves at a time.
LEMMA EachPartSteps ==
  [MCNext]_<<itemVars, authVars, teamsVars>> =>
    /\ [ItemNext]_itemVars
    /\ [SettingsNext]_settingVars /\ [PortalNext]_portalVars /\ [ServerNext]_serverVars
    /\ [BatchNext]_batchVars /\ [OrderNext]_orderVars
BY DEF MCNext, authVars, teamsVars, batchVars, BatchNext

\* Forms, settings and dialogs hold what they may, for any hosts, servers,
\* teams, loads and batches: ItemForms, AuthSettings, BatchDialogs, GroupOrder.
THEOREM ItemsTypes == MCSpec => []ItemsTypeOK
<1>1. MCInit => ItemsInv
  BY ItemInvInit, SettingsTypesInit, PortalInvInit, ServerInvInit, GiveStarts, RuleStarts,
     OrderShapeInit
  DEF MCInit, AuthInit, TeamsInit, BatchInit, BatchInv, ItemsInv
<1>2. ItemsInv /\ [MCNext]_<<itemVars, authVars, teamsVars>> => ItemsInv'
  BY EachPartSteps, ItemInvStep, SettingsTypesKept, PortalInvStep, ServerInvStep, BatchSteps,
     OrderShapeStep
  DEF ItemsInv
<1>3. ItemsInv => ItemsTypeOK
  <2>1. BatchInv => BatchTypeOK
    BY DEF BatchInv, GiveInv, RuleInv, BatchTypeOK
  <2> QED
    BY <2>1 DEF ItemsInv, ItemInv, PortalInv, ServerInv, OrderShape, ItemsTypeOK, AuthTypeOK
<1> QED
  BY <1>1, <1>2, <1>3, PTL DEF MCSpec
=============================================================================
