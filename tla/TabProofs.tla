------------------------------ MODULE TabProofs ------------------------------
(***************************************************************************)
(* Proofs about the administration tabs, for any number of loads in        *)
(* flight, changes of the lists, rows and openings of a dialog.            *)
(***************************************************************************)
EXTENDS MCTabs, FiniteSetTheorems, TLAPS

-----------------------------------------------------------------------------
(* Of the table *)

LEMMA ThreeAreFinite ==
  ASSUME NEW a, NEW b, NEW c
  PROVE  IsFiniteSet({a, b, c})
<1>1. IsFiniteSet({a})
  BY FS_Singleton
<1>2. IsFiniteSet({a} \cup {b})
  BY <1>1, FS_AddElement
<1>3. IsFiniteSet(({a} \cup {b}) \cup {c})
  BY <1>2, FS_AddElement
<1>4. ({a} \cup {b}) \cup {c} = {a, b, c}
  OBVIOUS
<1> QED
  BY <1>3, <1>4

Names ==
  {"groups", "maintenances", "hostGroups"} \cup {"rules", "correlations", "templates"}
  \cup {"macros", "proxies", "proxyGroups"} \cup {"queue", "actions", "mediaTypes"}
  \cup {"scripts", "history", "roles"} \cup {"tokens", "users", "services"}
  \cup {"slas", "teams", "problems"} \cup {"hosts"}

LEMMA ListsAreFinite ==
  ASSUME NEW t \in Tabs
  PROVE  IsFiniteSet(t.load.lists)
<1>1. t.load.lists \subseteq Names
  <2>1. CASE t \in {HostGroups, TemplateGroups, Maintenance, Discovery, Correlation, Templates}
    BY <2>1 DEF HostGroups, HostGroupsLoad, TemplateGroups, TemplateGroupsLoad, Maintenance,
       MaintenanceLoad, Discovery, DiscoveryLoad, Correlation, CorrelationLoad, Templates,
       TemplatesLoad, Load, Tab, Names
  <2>2. CASE t \in {Macros, Proxies, ProxyGroups, Queue, Actions, MediaTypes, Scripts}
    BY <2>2 DEF Macros, MacrosLoad, Proxies, ProxiesLoad, ProxyGroups, ProxyGroupsLoad, Queue,
       QueueLoad, Actions, ActionsLoad, MediaTypes, MediaTypesLoad, Scripts, ScriptsLoad, Load, Tab,
       Names
  <2>3. CASE t \in {Notifications, UserGroups, Roles, ApiTokens, Services, Sla}
    BY <2>3 DEF Notifications, NotificationsLoad, UserGroups, UserGroupsLoad, Roles, RolesLoad,
       ApiTokens, ApiTokensLoad, Services, ServicesLoad, Sla, SlaLoad, Load, Tab, Names
  <2>4. CASE t \in {Users, Teams, TeamUsers, Problems, Hosts, AlertRules}
    BY <2>4 DEF Users, UsersLoad, Teams, TeamUsers, Problems, ProblemsLoad, Hosts, HostsLoad,
       AlertRules, AlertRulesLoad, Load, Tab, Names
  <2> QED
    BY <2>1, <2>2, <2>3, <2>4 DEF Tabs
<1>2. IsFiniteSet(Names)
  <2>1. /\ IsFiniteSet({"groups", "maintenances", "hostGroups"})
        /\ IsFiniteSet({"rules", "correlations", "templates"})
        /\ IsFiniteSet({"macros", "proxies", "proxyGroups"})
        /\ IsFiniteSet({"queue", "actions", "mediaTypes"})
        /\ IsFiniteSet({"scripts", "history", "roles"})
        /\ IsFiniteSet({"tokens", "users", "services"})
        /\ IsFiniteSet({"slas", "teams", "problems"})
        /\ IsFiniteSet({"hosts"})
    BY ThreeAreFinite, FS_Singleton
  <2> QED
    BY <2>1, FS_Union DEF Names
<1> QED
  BY <1>1, <1>2, FS_Subset

\* A tab with a list has at least one request in its load.
LEMMA ListTabLoads ==
  ASSUME NEW t \in ListTab
  PROVE  t.load.lists # {}
<1>1. PICK u \in Tabs : /\ u.load.lists # {}
                        /\ t = [load |-> [u.load EXCEPT !.lists = 1..Cardinality(@)],
                                row |-> u.rows.row]
  BY DEF ListTab
<1>2. Cardinality(u.load.lists) \in Nat /\ Cardinality(u.load.lists) # 0
  BY <1>1, ListsAreFinite, FS_EmptySet, FS_CardinalityType
<1>3. t.load.lists = 1..Cardinality(u.load.lists)
  <2>1. "lists" \in DOMAIN u.load
    BY <1>1 DEF Tabs, HostGroups, HostGroupsLoad, TemplateGroups, TemplateGroupsLoad, Maintenance,
       MaintenanceLoad, Discovery, DiscoveryLoad, Correlation, CorrelationLoad, Templates,
       TemplatesLoad, Macros, MacrosLoad, Proxies, ProxiesLoad, ProxyGroups, ProxyGroupsLoad, Queue,
       QueueLoad, Actions, ActionsLoad, MediaTypes, MediaTypesLoad, Scripts, ScriptsLoad,
       Notifications, NotificationsLoad, UserGroups, UserGroupsLoad, Roles, RolesLoad,
       ApiTokens, ApiTokensLoad, Services, ServicesLoad, Sla, SlaLoad,
       Users, UsersLoad, Teams, TeamUsers, Problems, ProblemsLoad, Hosts, HostsLoad,
       AlertRules, AlertRulesLoad, Load, Tab
  <2> QED
    BY <1>1, <2>1
<1> QED
  BY <1>2, <1>3

-----------------------------------------------------------------------------
(* The list *)

\* With the spinner a load is in flight; nothing is written before a tab is
\* mounted, and no row is patched before the list is shown.
SpinnerInv ==
  /\ ListTypeOK
  /\ SpinnerHasRequest
  /\ tab = NoTab => write = NoWrite /\ ~applied
  /\ write.op = "patch" => shown # Never

LEMMA NoTabStays == NoTab \notin ListTab /\ ~NoTab.load.ticks /\ NoTab.load.refresh = "none"
<1>1. NoTab.load.lists = {} /\ NoTab.load.ticks = FALSE /\ NoTab.load.refresh = "none"
  BY DEF NoTab, Load
<1> QED
  BY <1>1, ListTabLoads

LEMMA Requested ==
  ASSUME NEW t \in ListTab
  PROVE  /\ Request(t) # NoLoad
         /\ Request(t) \in [need : SUBSET t.load.lists, at : Version \cup {Never}]
BY ListTabLoads DEF Request, NoLoad

LEMMA ChangedType ==
  ASSUME server \in Version, server[1] < MaxRev, NEW on \in {0, 1}
  PROVE  Changed(on) \in Version
BY ListAssumption DEF Changed, Version

LEMMA SpinnerInvInit == ListInit => SpinnerInv
<1> SUFFICES ASSUME ListInit PROVE SpinnerInv
  OBVIOUS
<1> USE DEF ListInit
<1>1. <<0, 1>> \in Version
  BY ListAssumption DEF Version
<1>2. ListTypeOK
  BY <1>1 DEF ListTypeOK, NoLoad
<1> QED
  BY <1>2 DEF SpinnerInv, SpinnerHasRequest, NoWrite

LEMMA SpinnerInvStep == SpinnerInv /\ [ListNext]_listVars => SpinnerInv'
<1> SUFFICES ASSUME SpinnerInv, [ListNext]_listVars
             PROVE  SpinnerInv'
  OBVIOUS
<1> USE NoTabStays DEF SpinnerInv, ListTypeOK
<1>1. ASSUME NEW t \in ListTab, Mount(t)
      PROVE  SpinnerInv'
  <2>1. PICK s \in Slot, more \in SUBSET Slot :
          loads' = [r \in Slot |-> IF r \in {s} \cup more THEN Request(t) ELSE NoLoad]
    BY <1>1 DEF Mount
  <2>2. loads' \in [Slot -> [need : SUBSET t.load.lists, at : Version \cup {Never}]]
    BY <2>1, Requested DEF NoLoad
  <2>3. loads'[s] # NoLoad
    BY <2>1, Requested
  <2>4. loading' \in BOOLEAN
    BY <1>1 DEF Mount
  <2> QED
    BY <1>1, <2>2, <2>3, <2>4 DEF Mount, SpinnerHasRequest, Free
<1>2. ASSUME NEW s \in Slot, tab \in ListTab, loads' = [loads EXCEPT ![s] = Request(tab)],
             loading' \in BOOLEAN, UNCHANGED <<tab, server, up, shown>>,
             write' \in {write, NoWrite}, applied' \in BOOLEAN
      PROVE  SpinnerInv'
  <2>1. loads'[s] # NoLoad
    BY <1>2, Requested
  <2>2. loads' \in [Slot -> [need : SUBSET tab.load.lists, at : Version \cup {Never}]]
    BY <1>2, Requested
  <2> QED
    BY <1>2, <2>1, <2>2 DEF SpinnerHasRequest, Free, NoWrite
<1>3. ASSUME NEW s \in Slot, Tick(s)
      PROVE  SpinnerInv'
  BY <1>2, <1>3 DEF Tick
<1>4. ASSUME NEW s \in Slot, Refresh(s)
      PROVE  SpinnerInv'
  <2>1. loading' \in BOOLEAN
    BY <1>4 DEF Refresh
  <2> QED
    BY <1>2, <1>4, <2>1 DEF Refresh
<1>5. ASSUME NEW s \in Slot, Written(s)
      PROVE  SpinnerInv'
  BY <1>2, <1>5 DEF Written
<1>6. ASSUME NEW s \in Slot, Answer(s) \/ Fail(s)
      PROVE  SpinnerInv'
  <2> DEFINE In(t) == [need : SUBSET t.load.lists, at : Version \cup {Never}]
  <2>1. loads' = [loads EXCEPT ![s] = NoLoad] /\ loading' = FALSE
    BY <1>6 DEF Answer, Fail
  <2>2. NoLoad \in In(tab) /\ loads[s] \in In(tab)
    BY DEF NoLoad
  <2>3. loads' \in [Slot -> In(tab)]
    BY <2>1, <2>2
  <2>4. shown' = shown \/ (shown' = loads[s].at /\ shown' # Never)
    BY <1>6, <2>2 DEF Answer, Fail, Free, NoLoad
  <2>5. UNCHANGED <<tab, server, up, write, applied>>
    BY <1>6 DEF Answer, Fail
  <2> QED
    BY <2>1, <2>2, <2>3, <2>4, <2>5 DEF SpinnerHasRequest
<1>7. ASSUME NEW s \in Slot, NEW l \in tab.load.lists, Read(s, l)
      PROVE  SpinnerInv'
  <2>1. PICK w \in [need : SUBSET tab.load.lists, at : Version] :
          loads' = [loads EXCEPT ![s] = w]
    <3> DEFINE w == [need |-> loads[s].need \ {l},
                     at |-> IF loads[s].at = Never THEN server ELSE loads[s].at]
    <3>1. loads[s] \in [need : SUBSET tab.load.lists, at : Version \cup {Never}]
      OBVIOUS
    <3>2. w \in [need : SUBSET tab.load.lists, at : Version]
      BY <3>1
    <3>3. loads' = [loads EXCEPT ![s] = w]
      BY <1>7 DEF Read
    <3> QED
      BY <3>2, <3>3
  <2>2. loads' \in [Slot -> [need : SUBSET tab.load.lists, at : Version \cup {Never}]]
    BY <2>1
  <2>3. Never \notin Version
    BY ListAssumption DEF Never, Version
  <2>4. loads'[s] # NoLoad
    BY <2>1, <2>3 DEF NoLoad
  <2> QED
    BY <1>7, <2>2, <2>4 DEF Read, SpinnerHasRequest, Free
<1>8. ASSUME NEW w \in Write, Send(w)
      PROVE  SpinnerInv'
  BY <1>8 DEF Send, SpinnerHasRequest, Free
<1>9. CASE Apply
  <2>1. After(write) \in {0, 1}
    BY <1>9 DEF Apply, After, ToggleTo, Write, Version
  <2>2. server' \in Version
    BY <1>9, <2>1, ChangedType DEF Apply
  <2> QED
    BY <1>9, <2>2 DEF Apply, SpinnerHasRequest, Free
<1>10. CASE Patched
  <2>1. shown' \in Version /\ shown' # Never
    <3>1. shown \in Version /\ write.to \in {0, 1} /\ shown' = <<shown[1], write.to>>
      BY <1>10 DEF Patched, Write, NoWrite
    <3>2. shown[1] \in 0..MaxRev
      BY <3>1 DEF Version
    <3> QED
      BY <3>1, <3>2, ListAssumption DEF Patched, Version, Never
  <2> QED
    BY <1>10, <2>1 DEF Patched, SpinnerHasRequest, Free
<1>11. CASE Refused
  BY <1>11 DEF Refused, NoWrite, SpinnerHasRequest, Free
<1>12. CASE OtherChange
  BY <1>12, ChangedType DEF OtherChange, SpinnerHasRequest, Free
<1>13. CASE ApiBack
  BY <1>13 DEF ApiBack, SpinnerHasRequest, Free
<1>14. CASE UNCHANGED listVars
  BY <1>14 DEF listVars, SpinnerHasRequest, Free
<1> QED
  BY <1>1, <1>3, <1>4, <1>5, <1>6, <1>7, <1>8, <1>9, <1>10, <1>11, <1>12, <1>13, <1>14 DEF ListNext

\* The Refresh button, which the spinner disables, comes back: while it turns a
\* request is in flight whose end clears it.
THEOREM SpinnerEnds == ListSpec => []SpinnerHasRequest
<1>1. SpinnerInv => SpinnerHasRequest
  BY DEF SpinnerInv
<1> QED
  BY <1>1, SpinnerInvInit, SpinnerInvStep, PTL DEF ListSpec

-----------------------------------------------------------------------------
(* The dialogs *)

\* A row is edited with one write, or with two where the members are fetched.
LEMMA EditWrites ==
  ASSUME NEW t \in DialogTab, "edit" \in t.row
  PROVE  \/ t.save.edit = <<"update">>
         \/ t.save.edit = <<"update", "members">> /\ t.form.fetch = "guarded"
<1>1. PICK u \in Tabs :
        t = [save |-> u.save, add |-> u.rows.add, row |-> u.rows.row \cap {"edit"},
             form |-> [u.form EXCEPT !.add = @ # {}, !.edit = @ # {}]]
  BY DEF DialogTab
<1>2. "edit" \in u.rows.row
  BY <1>1
<1>3. u \in {HostGroups, TemplateGroups, Macros, Proxies, MediaTypes, Roles, Services, Users,
            Hosts, AlertRules}
  <2>1. u \notin {Maintenance, Discovery, Correlation, Templates, ProxyGroups, Queue, Actions}
    BY <1>2 DEF Maintenance, MaintenanceRows, Discovery, DiscoveryRows, Correlation,
       CorrelationRows, Templates, TemplatesRows, ProxyGroups, ProxyGroupsRows, Queue, Actions,
       ActionsRows, Tab, Rows
  <2>2. u \notin {Scripts, Notifications, UserGroups, ApiTokens}
    BY <1>2 DEF Scripts, ScriptsRows, Notifications, UserGroups, UserGroupsRows, ApiTokens,
       ApiTokensRows, Tab, Rows
  <2>3. u # Sla /\ u # Problems
    BY <1>2 DEF Sla, SlaRows, Problems, Tab, Rows
  <2>4. u # Teams /\ u # TeamUsers
    BY <1>2 DEF Teams, TeamUsers, Tab, Rows, Load
  <2> QED
    BY <2>1, <2>2, <2>3, <2>4 DEF Tabs
<1>4. CASE u \in {HostGroups, TemplateGroups}
  <2>1. t.save.edit = <<"update", "members">>
    BY <1>1, <1>4 DEF HostGroups, HostGroupsSave, TemplateGroups, TemplateGroupsSave, Tab, Save
  <2>2. u.form \in {HostGroupsForm, TemplateGroupsForm}
    BY <1>4 DEF HostGroups, TemplateGroups, Tab
  <2> DEFINE f == Form({"name"}, {"name"}, TRUE)
  <2>3. u.form = [f EXCEPT !.enter = TRUE, !.fetch = "guarded"]
    BY <2>2 DEF HostGroupsForm, HostGroupsOpen, TemplateGroupsForm, TemplateGroupsOpen
  <2>4. "fetch" \in DOMAIN f
    BY DEF Form
  <2> HIDE DEF f
  <2>5. u.form.fetch = "guarded" /\ "fetch" \in DOMAIN u.form
    BY <2>3, <2>4
  <2>6. t.form.fetch = u.form.fetch
    BY <1>1, <2>5
  <2> QED
    BY <2>1, <2>5, <2>6
<1>5. CASE u \notin {HostGroups, TemplateGroups}
  BY <1>1, <1>3, <1>5 DEF Macros, MacrosSave, Proxies, ProxiesSave, MediaTypes, MediaTypesSave,
     Roles, RolesSave, Services, ServicesSave, Users, UsersSave, Hosts, HostsSave, AlertRules,
     AlertRulesSave, Tab, Save
<1> QED
  BY <1>4, <1>5

-----------------------------------------------------------------------------
\* The form of an open dialog is that of its row, and unless the dialog was
\* opened under a save all saves in flight are its own.
FormsBelong ==
  /\ page = NoDialogs => dialog = "shut" /\ saves = {} /\ fetches = {}
  /\ \A j \in saves : j.from <= opened
  /\ dialog # "shut" => opened # 0
  /\ dialog # "shut" => \A j \in saves : j.from = opened => j.dialog = dialog
  /\ dialog # "shut" /\ ~late => \A j \in saves : j.from = opened
  /\ dialog \in Obj /\ ~late => form[FormOf("edit")].of = dialog

\* A save of a row writes its members only where a fetch has chosen them.
EditsWriteInOrder ==
  /\ dialog \in Obj => "edit" \in page.row
  /\ \A j \in saves : j.dialog \in Obj =>
       "edit" \in page.row /\ j.step \in 1..Len(page.save.edit)

\* What is chosen for a row are its own members; if not all of them, the opening
\* could not show them.
Chosen(o, n, chosen) == chosen.of \in {o, "none"} /\ (~chosen.all => n \in unseen)

MembersChosen ==
  page.form.fetch = "guarded" =>
    /\ \A p \in fetches : p.from <= opened
    /\ dialog \in Obj =>
         /\ fresh = opened
         /\ IF fetching THEN picked = NothingPicked ELSE Chosen(dialog, opened, picked)
         /\ \A p \in fetches : p.from = opened => p.of = dialog
    /\ \A j \in saves : j.dialog \in Obj => Chosen(j.dialog, j.from, j.picked)

DialogInv ==
  /\ DialogTypeOK
  /\ FormsBelong
  /\ UpdatesBelong
  /\ EditsWriteInOrder
  /\ MembersChosen
  /\ MembersKept

LEMMA Owners ==
  /\ "add" \notin Obj /\ "shut" \notin Obj
  /\ \A o \in Obj : Mode(o) = "edit"
  /\ \A d \in Owner : Mode(d) \in {"add", "edit"} /\ d # "shut" /\ (Mode(d) = "edit" => d \in Obj)
BY DialogAssumption DEF Mode, Owner

LEMMA DialogInvInit == DialogInit => DialogInv
<1> SUFFICES ASSUME DialogInit PROVE DialogInv
  OBVIOUS
<1> USE DEF DialogInit
<1>1. DialogTypeOK
  <2>1. Blank \in FormState
    BY DEF Blank, FormState, Owner
  <2>2. form \in [{"add", "edit"} -> FormState]
    BY <2>1
  <2>3. opened \in 0..MaxOpen /\ fresh \in 0..MaxOpen
    BY DialogAssumption
  <2>4. made \in [Opening -> 0..2] /\ picked \in Picked
    BY DEF NothingPicked, Picked
  <2>5. late \in BOOLEAN /\ fetching \in BOOLEAN /\ lost \in BOOLEAN /\ mixed \in BOOLEAN
    OBVIOUS
  <2>6. saves \subseteq SaveJob /\ fetches \subseteq [from : Opening, of : Owner]
    OBVIOUS
  <2> QED
    BY <2>2, <2>3, <2>4, <2>5, <2>6 DEF DialogTypeOK
<1> QED
  BY <1>1, Owners DEF DialogInv, FormsBelong, UpdatesBelong, EditsWriteInOrder, MembersChosen,
     MembersKept, NoDialogs, NoForm, Form

\* A write gives a row its own members, all that its opening has shown.
LEMMA PerformedKeeps ==
  ASSUME DialogInv, NEW j \in saves, Performed(j)
  PROVE  /\ made' \in [Opening -> 0..2]
         /\ ~mixed' /\ mixed' \in BOOLEAN
         /\ dropped' \subseteq Opening /\ dropped' \subseteq unseen
<1> USE DEF DialogInv
<1> DEFINE replaces == Kind(j) = "members" /\ j.dialog # "add"
<1>1. j \in SaveJob /\ j.from \in Opening /\ page \in DialogTab \cup {NoDialogs}
  BY DEF DialogTypeOK, SaveJob
<1>2. made' \in [Opening -> 0..2]
  <2>1. made \in [Opening -> 0..2]
    BY DEF DialogTypeOK
  <2>2. (IF made[j.from] < 2 THEN made[j.from] + 1 ELSE made[j.from]) \in 0..2
    BY <1>1, <2>1
  <2> QED
    BY <2>1, <2>2 DEF Performed
<1>3. dropped \subseteq Opening /\ dropped \subseteq unseen /\ mixed = FALSE
  BY DEF DialogTypeOK, MembersKept
<1>4. CASE replaces
  <2>1. j.dialog \in Obj
    BY <1>1, <1>4 DEF SaveJob, Owner
  <2>2. page \in DialogTab /\ "edit" \in page.row /\ j.step \in 1..Len(page.save.edit)
    BY <1>1, <2>1 DEF EditsWriteInOrder, NoDialogs
  <2>3. page.save.edit[j.step] = "members"
    BY <1>4, <2>1, Owners DEF Kind, Steps
  <2>4. page.form.fetch = "guarded"
    <3>1. CASE page.save.edit = <<"update">>
      BY <2>2, <2>3, <3>1
    <3> QED
      BY <2>2, <3>1, EditWrites
  <2>5. Chosen(j.dialog, j.from, j.picked)
    BY <2>1, <2>4 DEF MembersChosen
  <2>6. mixed' = FALSE
    BY <1>3, <2>5 DEF Performed, Chosen
  <2>7. dropped' = IF ~j.picked.all THEN dropped \cup {j.from} ELSE dropped
    BY <1>4 DEF Performed
  <2> QED
    BY <1>1, <1>2, <1>3, <2>5, <2>6, <2>7 DEF Chosen
<1>5. CASE ~replaces
  <2>1. mixed' = FALSE /\ dropped' = dropped
    BY <1>3, <1>5 DEF Performed
  <2> QED
    BY <1>2, <1>3, <2>1
<1> QED
  BY <1>4, <1>5

\* A save that ends leaves what holds of the others.
LEMMA SaveEnds ==
  ASSUME DialogInv, NEW j \in saves, saves' = saves \ {j},
         UNCHANGED <<page, opened, late, fetchVars>>,
         busy' = busy \ {Flag(Mode(j.dialog))}, lost' \in BOOLEAN,
         \/ Performed(j)
         \/ UNCHANGED serverVars,
         dialog' \in {dialog, "shut"}, form' \in {form, [form EXCEPT !["add"] = Blank]},
         dialog' # "shut" => late \/ form' = form
  PROVE  DialogInv'
<1> USE DEF DialogInv, fetchVars
<1>1. /\ made' \in [Opening -> 0..2]
      /\ ~mixed' /\ mixed' \in BOOLEAN
      /\ dropped' \subseteq Opening /\ dropped' \subseteq unseen
  BY PerformedKeeps DEF serverVars, DialogTypeOK, MembersKept
<1>2. Blank \in FormState
  BY DEF Blank, FormState, Owner
<1>3. form' \in [{"add", "edit"} -> FormState]
  <2>1. form \in [{"add", "edit"} -> FormState]
    BY DEF DialogTypeOK
  <2> QED
    BY <1>2, <2>1
<1>4. DialogTypeOK'
  <2>1. /\ page' \in DialogTab \cup {NoDialogs} /\ opened' \in 0..MaxOpen /\ late' \in BOOLEAN
        /\ busy' \in SUBSET {"add", "edit"} /\ saves' \subseteq SaveJob /\ fresh' \in 0..MaxOpen
    BY DEF DialogTypeOK
  <2>2. /\ fetches' \subseteq [from : Opening, of : Owner] /\ fetching' \in BOOLEAN
        /\ picked' \in Picked /\ unseen' \subseteq Opening /\ lost' \in BOOLEAN
        /\ dialog' \in Owner \cup {"shut"}
    BY <1>3 DEF DialogTypeOK
  <2> QED
    BY <1>1, <1>3, <2>1, <2>2 DEF DialogTypeOK, Opening, SaveJob, FormState, Owner
<1>5. FormsBelong'
  BY <1>3, Owners DEF FormsBelong, FormOf
<1>6. UpdatesBelong' /\ EditsWriteInOrder' /\ MembersChosen'
  BY <1>3, Owners DEF UpdatesBelong, EditsWriteInOrder, MembersChosen, Chosen
<1> QED
  BY <1>1, <1>4, <1>5, <1>6 DEF MembersKept

LEMMA DialogInvOpen ==
  ASSUME DialogInv, NEW d \in Owner, NEW f \in [{"add", "edit"} -> FormState], Open(d, f),
         page # NoDialogs, d \in Obj => "edit" \in page.row /\ f[FormOf("edit")].of = d
  PROVE  DialogInv'
<1> USE Owners DEF DialogInv, Open
<1>1. /\ opened' \in 1..MaxOpen /\ opened' = opened + 1 /\ opened \in Nat
      /\ \A j \in saves : j.from <= opened /\ j.from \in Nat
  BY DialogAssumption DEF DialogTypeOK, FormsBelong, SaveJob, Opening
<1>2. FormsBelong'
  <2>1. \A j \in saves' : j.from <= opened'
    BY <1>1
  <2>2. \A j \in saves' : j.from # opened'
    BY <1>1
  <2>3. ~late' => saves' = {}
    OBVIOUS
  <2>4. dialog' \in Obj => form'[FormOf("edit")'].of = dialog'
    BY DEF FormOf
  <2>5. opened' # 0
    BY <1>1
  <2> QED
    BY <2>1, <2>2, <2>3, <2>4, <2>5 DEF FormsBelong
<1>3. CASE page.form.fetch = "guarded"
  <2>1. /\ fresh' = opened' /\ fetches' = fetches \cup {[from |-> opened', of |-> d]}
        /\ fetching' = TRUE /\ picked' = NothingPicked /\ unseen' = unseen
    BY <1>3 DEF StartFetch
  <2>2. fetches' \subseteq [from : Opening, of : Owner]
    BY <1>1, <2>1 DEF DialogTypeOK, Opening
  <2>3. DialogTypeOK'
    <3>1. late' \in BOOLEAN /\ picked' \in Picked
      BY <2>1 DEF NothingPicked, Picked
    <3> QED
      BY <1>1, <2>1, <2>2, <3>1 DEF DialogTypeOK, Opening, serverVars, SaveJob, FormState, Owner
  <2>4. UpdatesBelong' /\ EditsWriteInOrder'
    BY DEF UpdatesBelong, EditsWriteInOrder
  <2>5. MembersChosen'
    <3>1. \A p \in fetches : p.from <= opened /\ p.from \in Nat
      BY <1>3 DEF MembersChosen, DialogTypeOK, Opening
    <3> QED
      BY <1>1, <1>3, <2>1, <3>1 DEF MembersChosen, Chosen
  <2> QED
    BY <1>2, <2>1, <2>3, <2>4, <2>5 DEF MembersKept, serverVars
<1>4. CASE page.form.fetch # "guarded"
  <2>1. UNCHANGED fetchVars
    BY <1>4 DEF StartFetch
  <2>2. DialogTypeOK'
    <3>1. late' \in BOOLEAN
      OBVIOUS
    <3> QED
      BY <1>1, <2>1, <3>1 DEF DialogTypeOK, fetchVars, serverVars
  <2>3. UpdatesBelong' /\ EditsWriteInOrder' /\ MembersChosen'
    BY <1>4 DEF UpdatesBelong, EditsWriteInOrder, MembersChosen
  <2> QED
    BY <1>2, <2>1, <2>2, <2>3 DEF MembersKept, serverVars, fetchVars
<1> QED
  BY <1>3, <1>4

LEMMA DialogInvType ==
  ASSUME DialogInv, UNCHANGED <<page, dialog, opened, late, busy, saves, fetchVars, serverVars, lost>>,
         form' \in [{"add", "edit"} -> FormState],
         dialog \in Obj /\ ~late =>
           form'[FormOf("edit")].of \in {form[FormOf("edit")].of, dialog}
  PROVE  DialogInv'
<1> USE DEF DialogInv, fetchVars, serverVars
<1>1. DialogTypeOK'
  BY DEF DialogTypeOK
<1>2. FormsBelong'
  BY DEF FormsBelong, FormOf
<1> QED
  BY <1>1, <1>2 DEF UpdatesBelong, EditsWriteInOrder, MembersChosen, Chosen, MembersKept

LEMMA DialogInvFetch ==
  ASSUME DialogInv, NEW p \in fetches, (\E all \in BOOLEAN : Fetched(p, all)) \/ FetchFails(p)
  PROVE  DialogInv'
<1> USE Owners DEF DialogInv
<1>1. UNCHANGED <<page, dialog, opened, late, form, busy, saves, fresh, serverVars, lost>>
  BY DEF Fetched, FetchFails
<1>2. p.of \in Owner /\ fetches' = fetches \ {p}
  BY DEF DialogTypeOK, Fetched, FetchFails
<1>3. /\ picked' \in Picked /\ unseen' \subseteq Opening /\ unseen \subseteq unseen'
      /\ fetching' \in BOOLEAN
  <2>1. p.from \in Opening /\ picked \in Picked /\ unseen \subseteq Opening /\ fetching \in BOOLEAN
    BY DEF DialogTypeOK
  <2>2. ASSUME NEW all \in BOOLEAN, Fetched(p, all)
        PROVE  /\ picked' \in Picked /\ unseen' \subseteq Opening /\ unseen \subseteq unseen'
               /\ fetching' \in BOOLEAN
    <3>1. NothingPicked \in Picked /\ (p.of # "add" => [of |-> p.of, all |-> all] \in Picked)
      BY <1>2 DEF Owner, Picked, NothingPicked
    <3>2. picked' \in Picked
      BY <2>1, <2>2, <3>1 DEF Fetched
    <3> QED
      BY <2>1, <2>2, <3>2 DEF Fetched
  <2> QED
    BY <2>1, <2>2 DEF FetchFails
<1>4. DialogTypeOK'
  BY <1>1, <1>2, <1>3 DEF DialogTypeOK, serverVars
<1>5. FormsBelong' /\ UpdatesBelong' /\ EditsWriteInOrder'
  BY <1>1, <1>2 DEF FormsBelong, UpdatesBelong, EditsWriteInOrder, FormOf
<1>6. MembersChosen'
  <2> SUFFICES ASSUME page.form.fetch = "guarded"
               PROVE  MembersChosen'
    BY <1>1 DEF MembersChosen
  <2>1. \A q \in fetches' : q.from <= opened'
    BY <1>1, <1>2 DEF MembersChosen
  <2>2. \A j \in saves' : j.dialog \in Obj => Chosen(j.dialog, j.from, j.picked)'
    BY <1>1, <1>3 DEF MembersChosen, Chosen
  <2>3. ASSUME dialog \in Obj
        PROVE  IF fetching' THEN picked' = NothingPicked ELSE Chosen(dialog, opened, picked)'
    <3>1. fresh = opened /\ IF fetching THEN picked = NothingPicked ELSE Chosen(dialog, opened, picked)
      BY <2>3 DEF MembersChosen
    <3>2. CASE p.from # fresh
      BY <1>1, <1>3, <3>1, <3>2 DEF Fetched, FetchFails, Chosen
    <3>3. ASSUME p.from = fresh, NEW all \in BOOLEAN, Fetched(p, all)
          PROVE  IF fetching' THEN picked' = NothingPicked ELSE Chosen(dialog, opened, picked)'
      <4>1. p.of = dialog
        BY <2>3, <3>1, <3>3 DEF MembersChosen
      <4> QED
        BY <1>1, <2>3, <3>1, <3>3, <4>1 DEF Fetched, Chosen
    <3>4. CASE p.from = fresh /\ FetchFails(p)
      <4>1. p.of = dialog
        BY <2>3, <3>1, <3>4 DEF MembersChosen
      <4> QED
        BY <1>1, <2>3, <3>1, <3>4, <4>1 DEF FetchFails, Chosen, NothingPicked
    <3> QED
      BY <3>2, <3>3, <3>4
  <2>4. ASSUME dialog' \in Obj
        PROVE  fresh' = opened' /\ \A q \in fetches' : q.from = opened' => q.of = dialog'
    BY <1>1, <1>2, <2>4 DEF MembersChosen
  <2> QED
    BY <1>1, <2>1, <2>2, <2>3, <2>4 DEF MembersChosen
<1>7. MembersKept'
  BY <1>1, <1>3 DEF MembersKept, serverVars
<1> QED
  BY <1>4, <1>5, <1>6, <1>7

LEMMA DialogInvSubmit == DialogInv /\ Submit => DialogInv'
<1> SUFFICES ASSUME DialogInv, Submit PROVE DialogInv'
  OBVIOUS
<1> USE Owners DEF DialogInv
<1> DEFINE j == [dialog |-> dialog, from |-> opened, step |-> 1, late |-> late,
                 data |-> form[FormOf(Mode(dialog))], picked |-> picked,
                 nth |-> IF \E k \in saves : k.nth = 1 THEN 2 ELSE 1]
<1>1. /\ saves' = saves \cup {j} /\ busy' = busy \cup Busied(Mode(dialog))
      /\ UNCHANGED <<page, dialog, opened, late, form, fetchVars, serverVars, lost>>
      /\ dialog \in Owner /\ MaySend(Mode(dialog))
  BY DEF Submit, DialogTypeOK
<1>2. page \in DialogTab
  BY <1>1 DEF FormsBelong, DialogTypeOK, Owner
<1>3. j \in SaveJob
  <2>1. opened \in Opening
    <3>1. opened # 0
      BY <1>1 DEF FormsBelong
    <3> QED
      BY <3>1 DEF DialogTypeOK, Opening
  <2>2. form[FormOf(Mode(dialog))] \in FormState
    BY <1>1 DEF DialogTypeOK, FormOf
  <2>3. picked \in Picked /\ late \in BOOLEAN
    BY DEF DialogTypeOK
  <2> QED
    BY <1>1, <2>1, <2>2, <2>3 DEF SaveJob
<1>4. DialogTypeOK'
  <2>1. busy' \in SUBSET {"add", "edit"}
    BY <1>1 DEF DialogTypeOK, Busied, Flag
  <2> QED
    BY <1>1, <1>3, <2>1 DEF DialogTypeOK, fetchVars, serverVars
<1>5. j.dialog = dialog /\ j.from = opened /\ j.late = late /\ j.step = 1 /\ j.picked = picked
  OBVIOUS
<1>6. j.data = form[FormOf(Mode(dialog))]
  OBVIOUS
<1> HIDE DEF j
<1>7. FormsBelong'
  <2>1. opened <= opened
    BY DEF DialogTypeOK
  <2> QED
    BY <1>1, <1>2, <1>5, <2>1 DEF FormsBelong, FormOf, NoDialogs, fetchVars, DialogTypeOK
<1>8. UpdatesBelong'
  BY <1>1, <1>5, <1>6 DEF UpdatesBelong, FormsBelong
<1>9. EditsWriteInOrder'
  <2>1. ASSUME dialog \in Obj
        PROVE  "edit" \in page.row /\ 1 \in 1..Len(page.save.edit)
    BY <1>2, <2>1, EditWrites DEF EditsWriteInOrder
  <2> QED
    BY <1>1, <1>5, <2>1 DEF EditsWriteInOrder
<1>10. MembersChosen'
  <2>1. page.form.fetch = "guarded" => ~fetching
    BY <1>1 DEF MaySend
  <2> QED
    BY <1>1, <1>5, <2>1 DEF MembersChosen, Chosen, fetchVars
<1> QED
  BY <1>1, <1>4, <1>7, <1>8, <1>9, <1>10 DEF MembersKept, serverVars, fetchVars

LEMMA DialogInvStep == DialogInv /\ [DialogNext]_dialogVars => DialogInv'
<1> SUFFICES ASSUME DialogInv, [DialogNext]_dialogVars
             PROVE  DialogInv'
  OBVIOUS
<1> USE Owners
<1>0. /\ dialog \in Owner \cup {"shut"} /\ form \in [{"add", "edit"} -> FormState]
      /\ page \in DialogTab \cup {NoDialogs} /\ lost \in BOOLEAN
  BY DEF DialogInv, DialogTypeOK
<1>1. ASSUME NEW t \in DialogTab, MountDialogs(t)
      PROVE  DialogInv'
  <2>1. dialog = "shut" /\ saves = {} /\ fetches = {}
    BY <1>1 DEF MountDialogs, DialogInv, FormsBelong
  <2>2. DialogTypeOK'
    BY <1>1 DEF MountDialogs, DialogInv, DialogTypeOK, fetchVars, serverVars
  <2> QED
    BY <1>1, <2>1, <2>2 DEF MountDialogs, DialogInv, FormsBelong, UpdatesBelong, EditsWriteInOrder,
       MembersChosen, MembersKept, fetchVars, serverVars
<1>2. CASE OpenAdd
  <2>1. Blank \in FormState
    BY DEF Blank, FormState, Owner
  <2> DEFINE f == IF page.add = "blank" THEN [form EXCEPT !["add"] = Blank] ELSE form
  <2>2. f \in [{"add", "edit"} -> FormState]
    BY <1>0, <2>1
  <2>3. page # NoDialogs /\ Open("add", f) /\ "add" \in Owner
    BY <1>2 DEF OpenAdd, NoDialogs, Owner
  <2> HIDE DEF f
  <2> QED
    BY <2>2, <2>3, DialogInvOpen
<1>3. ASSUME NEW o \in Obj, OpenEdit(o)
      PROVE  DialogInv'
  <2> DEFINE f == [form EXCEPT ![FormOf("edit")] = Row(o)]
  <2>1. Row(o) \in FormState /\ Row(o).of = o /\ FormOf("edit") \in {"add", "edit"}
    BY DEF Row, FormState, Owner, FormOf
  <2>2. f \in [{"add", "edit"} -> FormState] /\ f[FormOf("edit")].of = o
    BY <1>0, <2>1
  <2>3. page # NoDialogs /\ "edit" \in page.row /\ Open(o, f) /\ o \in Owner
    BY <1>3 DEF OpenEdit, NoDialogs, Owner
  <2> HIDE DEF f
  <2> QED
    BY <2>2, <2>3, DialogInvOpen
<1>4. ASSUME NEW t \in {"part", "full"}, Type(t)
      PROVE  DialogInv'
  <2> DEFINE m == FormOf(Mode(dialog))
  <2>1. dialog \in Owner /\ m \in {"add", "edit"}
    BY <1>0, <1>4 DEF Type, FormOf, Owner
  <2>2. form' = [form EXCEPT ![m].touched = t]
    BY <1>4 DEF Type
  <2>3. dialog \in Obj => m = FormOf("edit")
    OBVIOUS
  <2> HIDE DEF m
  <2>4. [form[m] EXCEPT !.touched = t] \in FormState /\ [form[m] EXCEPT !.touched = t].of = form[m].of
    BY <1>0, <2>1 DEF FormState
  <2>5. form' \in [{"add", "edit"} -> FormState]
    BY <1>0, <2>1, <2>2, <2>4
  <2>6. dialog \in Obj => form'[FormOf("edit")].of = form[FormOf("edit")].of
    BY <1>0, <2>1, <2>2, <2>3, <2>4
  <2> QED
    BY <1>4, <2>5, <2>6, DialogInvType DEF Type
<1>5. CASE Reset
  <2>1. Row(dialog) \in FormState /\ Row(dialog).of = dialog
    BY <1>5 DEF Reset, Row, FormState, Owner
  <2>2. form' \in [{"add", "edit"} -> FormState]
    BY <1>0, <1>5, <2>1 DEF Reset
  <2>3. form'[FormOf("edit")].of \in {form[FormOf("edit")].of, dialog}
    BY <1>0, <1>5, <2>1 DEF Reset, FormOf
  <2> QED
    BY <1>5, <2>2, <2>3, DialogInvType DEF Reset
<1>6. CASE Cancel
  <2>1. fresh' \in 0..MaxOpen
    BY <1>6, DialogAssumption DEF Cancel, DialogInv, DialogTypeOK
  <2>2. DialogTypeOK'
    BY <1>6, <2>1 DEF Cancel, DialogInv, DialogTypeOK, serverVars
  <2> QED
    BY <1>6, <2>2 DEF Cancel, DialogInv, FormsBelong, UpdatesBelong, EditsWriteInOrder,
       MembersChosen, Chosen, MembersKept, serverVars
<1>7. CASE Submit
  BY <1>7, DialogInvSubmit
<1>8. ASSUME NEW j \in saves, NextStep(j)
      PROVE  DialogInv'
  <2> DEFINE k == [j EXCEPT !.step = 2]
  <2>1. /\ j \in SaveJob /\ saves' = (saves \ {j}) \cup {k} /\ ~Last(j) /\ Performed(j)
        /\ UNCHANGED <<page, dialog, opened, late, form, busy, fetchVars, lost>>
    BY <1>8 DEF NextStep, DialogInv, DialogTypeOK
  <2>2. /\ k.dialog = j.dialog /\ k.from = j.from /\ k.late = j.late /\ k.data = j.data
        /\ k.picked = j.picked /\ k.step = 2 /\ k \in SaveJob
    BY <2>1 DEF SaveJob
  <2> HIDE DEF k
  <2>3. /\ made' \in [Opening -> 0..2] /\ ~mixed' /\ mixed' \in BOOLEAN
        /\ dropped' \subseteq Opening /\ dropped' \subseteq unseen
    BY <2>1, PerformedKeeps
  <2>4. DialogTypeOK'
    BY <2>1, <2>2, <2>3 DEF DialogInv, DialogTypeOK, fetchVars
  <2>5. FormsBelong' /\ UpdatesBelong'
    BY <2>1, <2>2 DEF DialogInv, FormsBelong, UpdatesBelong, FormOf, fetchVars
  <2>6. ASSUME j.dialog \in Obj
        PROVE  "edit" \in page.row /\ 2 \in 1..Len(page.save.edit)
    <3>1. page \in DialogTab /\ "edit" \in page.row /\ j.step \in 1..Len(page.save.edit)
      BY <1>0, <2>6 DEF DialogInv, EditsWriteInOrder, NoDialogs
    <3>2. j.step # Len(page.save.edit)
      BY <2>1, <2>6 DEF Last, Steps
    <3> QED
      BY <3>1, <3>2, EditWrites
  <2>7. EditsWriteInOrder'
    BY <2>1, <2>2, <2>6 DEF DialogInv, EditsWriteInOrder
  <2>8. MembersChosen'
    BY <2>1, <2>2 DEF DialogInv, MembersChosen, Chosen, fetchVars
  <2> QED
    BY <2>1, <2>3, <2>4, <2>5, <2>7, <2>8 DEF DialogInv, MembersKept, fetchVars
<1>9. ASSUME NEW j \in saves, Saved(j)
      PROVE  DialogInv'
  <2>1. dialog' # "shut" => late
    <3> SUFFICES ASSUME dialog' # "shut", ~late PROVE FALSE
      BY <1>0 DEF DialogInv, DialogTypeOK
    <3>1. dialog # "shut" /\ ~Closes(j, dialog)
      BY <1>9 DEF Saved
    <3>2. j.dialog = dialog
      BY <3>1 DEF DialogInv, FormsBelong
    <3> QED
      BY <3>1, <3>2 DEF Closes
  <2> QED
    BY <1>0, <1>9, <2>1, SaveEnds DEF Saved
<1>10. ASSUME NEW j \in saves, Refuse(j) \/ LoseAnswer(j)
       PROVE  DialogInv'
  BY <1>0, <1>10, SaveEnds DEF Refuse, LoseAnswer, AfterFailure
<1>11. ASSUME NEW p \in fetches, (\E all \in BOOLEAN : Fetched(p, all)) \/ FetchFails(p)
       PROVE  DialogInv'
  BY <1>11, DialogInvFetch
<1>12. CASE UNCHANGED dialogVars
  BY <1>12 DEF dialogVars, DialogInv, DialogTypeOK, FormsBelong, UpdatesBelong, EditsWriteInOrder,
     MembersChosen, Chosen, MembersKept, FormOf
<1> QED
  BY <1>1, <1>2, <1>3, <1>4, <1>5, <1>6, <1>7, <1>8, <1>9, <1>10, <1>11, <1>12 DEF DialogNext

\* A save of a group in "Host groups" or "Template groups" writes members that
\* were fetched for this very group, and leaves one out only if its opening could
\* not show all: the fetch failed, or they were not among the options.
THEOREM NoForeignMembers == DialogSpec => []MembersKept
<1>1. DialogInv => MembersKept
  BY DEF DialogInv
<1> QED
  BY <1>1, DialogInvInit, DialogInvStep, PTL DEF DialogSpec

\* What an edit dialog sends as the update of a row is the form of that row,
\* unless it was opened while a save was in flight.
THEOREM UpdatesAreOfTheirRow == DialogSpec => []UpdatesBelong
<1>1. DialogInv => UpdatesBelong
  BY DEF DialogInv
<1> QED
  BY <1>1, DialogInvInit, DialogInvStep, PTL DEF DialogSpec

\* Nothing but the user, or the success of its own save, closes a dialog that
\* was opened with no save in flight, or changes what was typed.
THEOREM TypedInputSurvives == DialogSpec => InputSurvives
<1> DEFINE Survives ==
      dialog # "shut" /\ ~late /\ (dialog' # dialog \/ form' # form) =>
        \/ Cancel \/ Reset \/ \E t \in {"part", "full"} : Type(t)
        \/ \E j \in saves : Saved(j) /\ j.from = opened
<1>1. DialogInv /\ [DialogNext]_dialogVars => [Survives]_dialogVars
  <2> SUFFICES ASSUME DialogInv, DialogNext, dialog # "shut", ~late,
                      dialog' # dialog \/ form' # form
               PROVE  Survives
    OBVIOUS
  <2>1. \A j \in saves : j.from = opened
    BY DEF DialogInv, FormsBelong
  <2>2. ~\E t \in DialogTab : MountDialogs(t)
    BY DEF MountDialogs
  <2>3. ~OpenAdd /\ ~\E o \in Obj : OpenEdit(o)
    BY DEF OpenAdd, OpenEdit, Open
  <2>4. ~Submit
    BY DEF Submit
  <2>5. ~\E j \in saves : NextStep(j) \/ Refuse(j) \/ LoseAnswer(j)
    BY DEF NextStep, Refuse, LoseAnswer, AfterFailure
  <2>6. ~\E p \in fetches : FetchFails(p) \/ \E all \in BOOLEAN : Fetched(p, all)
    BY DEF Fetched, FetchFails
  <2> QED
    BY <2>1, <2>2, <2>3, <2>4, <2>5, <2>6 DEF DialogNext
<1> QED
  BY <1>1, DialogInvInit, DialogInvStep, PTL DEF DialogSpec, InputSurvives

-----------------------------------------------------------------------------
(* One opening of the add dialog creates one object *)

\* The save of an add dialog that Enter does not send is one write.
LEMMA AddWrites ==
  ASSUME NEW t \in DialogTab, t.add # "none", ~t.form.enter
  PROVE  t.save.add = <<"create">>
<1>1. PICK u \in Tabs :
        t = [save |-> u.save, add |-> u.rows.add, row |-> u.rows.row \cap {"edit"},
             form |-> [u.form EXCEPT !.add = @ # {}, !.edit = @ # {}]]
  BY DEF DialogTab
<1>2. u \notin {Queue, Notifications, Problems, Hosts}
  BY <1>1 DEF Queue, Notifications, Problems, Hosts, HostsRows, Tab, Rows
<1>3. CASE u \in {HostGroups, TemplateGroups}
  <2>1. u.form \in {HostGroupsForm, TemplateGroupsForm}
    BY <1>3 DEF HostGroups, TemplateGroups, Tab
  <2> DEFINE f == Form({"name"}, {"name"}, TRUE)
  <2>2. u.form = [f EXCEPT !.enter = TRUE, !.fetch = "guarded"]
    BY <2>1 DEF HostGroupsForm, HostGroupsOpen, TemplateGroupsForm, TemplateGroupsOpen
  <2>3. "enter" \in DOMAIN f
    BY DEF Form
  <2> HIDE DEF f
  <2>4. u.form.enter = TRUE /\ "enter" \in DOMAIN u.form
    BY <2>2, <2>3
  <2>5. t.form.enter = u.form.enter
    BY <1>1, <2>4
  <2> QED BY <2>4, <2>5
<1>4. CASE u \in {Maintenance, Discovery, Correlation, Templates, Macros, Proxies, ProxyGroups, Actions}
  BY <1>1, <1>4 DEF Maintenance, MaintenanceSave, Discovery, DiscoverySave, Correlation,
     CorrelationSave, Templates, TemplatesSave, Macros, MacrosSave, Proxies, ProxiesSave,
     ProxyGroups, ProxyGroupsSave, Actions, ActionsSave, Tab, Save
<1>5. CASE u \in {MediaTypes, Scripts, UserGroups, Roles, ApiTokens, Services, Sla}
  BY <1>1, <1>5 DEF MediaTypes, MediaTypesSave, Scripts, ScriptsSave, UserGroups, UserGroupsSave,
     Roles, RolesSave, ApiTokens, ApiTokensSave, Services, ServicesSave, Sla, SlaSave, Tab, Save
<1>6. CASE u \in {Users, Teams, TeamUsers, AlertRules}
  <2>1. CASE u \in {Users, AlertRules}
    BY <1>1, <2>1 DEF Users, UsersSave, AlertRules, AlertRulesSave, Tab, Save
  <2>2. CASE u = Teams
    <3>1. u.save = TeamsSave
      BY <2>2 DEF Teams, Tab
    <3> QED BY <1>1, <3>1 DEF TeamsSave, Save
  <2>3. CASE u = TeamUsers
    <3>1. u.save = TeamUsersSave
      BY <2>3 DEF TeamUsers, Tab
    <3> QED BY <1>1, <3>1 DEF TeamUsersSave, Save
  <2> QED BY <1>6, <2>1, <2>2, <2>3
<1> QED
  BY <1>2, <1>3, <1>4, <1>5, <1>6 DEF Tabs

Counted == ~page.form.enter /\ page.save.busy # "none"

AddsWriteOnce ==
  /\ dialog = "add" => page.add # "none"
  /\ \A j \in saves : j.dialog = "add" => page.add # "none" /\ (Counted => j.step = 1)

\* A busy flag stands for one save.
OneSavePerFlag ==
  Counted =>
    \A j \in saves :
      /\ Flag(Mode(j.dialog)) \in busy
      /\ \A k \in saves : Flag(Mode(k.dialog)) = Flag(Mode(j.dialog)) => k = j

\* An opening that has created its object sends no more.
OpeningsSpent ==
  \A n \in Opening :
    /\ n > opened => made[n] = 0
    /\ Counted /\ ~lost /\ made[n] # 0 =>
         /\ made[n] = 1
         /\ dialog = "add" => opened # n
         /\ \A j \in saves : j.dialog = "add" => j.from # n

CreateInv == AddsWriteOnce /\ OneSavePerFlag /\ OpeningsSpent

\* A write that is counted creates an object only in the add dialog, and is the
\* whole save there.
LEMMA OnlyAddsCreate ==
  ASSUME DialogInv, CreateInv, Counted, NEW j \in saves
  PROVE  /\ j.dialog = "add" => Kind(j) = "create" /\ Last(j)
         /\ j.dialog # "add" => Kind(j) # "create"
<1> USE Owners DEF DialogInv, CreateInv
<1>1. j \in SaveJob /\ page \in DialogTab
  BY DEF DialogTypeOK, FormsBelong
<1>2. ASSUME j.dialog = "add"
      PROVE  Kind(j) = "create" /\ Last(j)
  <2>1. page.save.add = <<"create">> /\ j.step = 1
    BY <1>1, <1>2, AddWrites DEF AddsWriteOnce, Counted
  <2>2. Mode(j.dialog) = "add"
    BY <1>2 DEF Mode
  <2> QED BY <2>1, <2>2 DEF Kind, Last, Steps
<1>3. ASSUME j.dialog # "add"
      PROVE  Kind(j) # "create"
  <2>1. j.dialog \in Obj
    BY <1>1, <1>3 DEF SaveJob, Owner
  <2>2. "edit" \in page.row /\ j.step \in 1..Len(page.save.edit)
    BY <2>1 DEF EditsWriteInOrder
  <2>3. page.save.edit[j.step] # "create"
    BY <1>1, <2>2, EditWrites
  <2> QED BY <2>1, <2>3 DEF Kind, Steps
<1> QED BY <1>2, <1>3

\* A write adds one object at most, to those of its opening.
LEMMA MadeByOne ==
  ASSUME DialogInv, CreateInv, NEW j \in saves, Performed(j)
  PROVE  /\ \A n \in Opening : n > opened => made'[n] = 0
         /\ Counted /\ ~lost => \A n \in Opening :
              \/ made'[n] = made[n]
              \/ j.dialog = "add" /\ n = j.from /\ made[n] = 0 /\ made'[n] = 1
<1>1. j \in SaveJob /\ made \in [Opening -> 0..2] /\ j.from \in Opening /\ j.from <= opened /\ opened \in Nat
  BY DialogAssumption DEF DialogInv, DialogTypeOK, FormsBelong, SaveJob
<1>2. \A n \in Opening : made'[n] = made[n] \/ (n = j.from /\ Kind(j) = "create" /\ made'[n] = made[n] + 1)
  BY <1>1 DEF Performed
<1>3. \A n \in Opening : n > opened => made'[n] = 0
  BY <1>1, <1>2 DEF CreateInv, OpeningsSpent, Opening
<1>4. ASSUME Counted, ~lost, NEW n \in Opening, made'[n] # made[n]
      PROVE  j.dialog = "add" /\ n = j.from /\ made[n] = 0 /\ made'[n] = 1
  <2>1. j.dialog = "add"
    BY <1>2, <1>4, OnlyAddsCreate
  <2>2. made[n] = 0
    BY <1>2, <1>4, <2>1 DEF CreateInv, OpeningsSpent
  <2> QED BY <1>2, <1>4, <2>1, <2>2
<1> QED BY <1>3, <1>4

\* A save that ends frees its flag; if it has created an object the dialog it
\* was sent from is shut, unless the answer was lost.
LEMMA CreateSaveEnds ==
  ASSUME DialogInv, CreateInv, NEW j \in saves, saves' = saves \ {j}, UNCHANGED <<page, opened>>,
         busy' = busy \ {Flag(Mode(j.dialog))}, dialog' \in {dialog, "shut"},
         \/ Performed(j) /\ (lost' \/ (lost' = lost /\ (j.dialog = "add" => dialog' # "add")))
         \/ made' = made /\ lost' = lost
  PROVE  CreateInv'
<1> USE Owners DEF CreateInv
<1>1. AddsWriteOnce'
  BY DEF AddsWriteOnce, Counted
<1>2. OneSavePerFlag'
  BY DEF OneSavePerFlag, Counted, Flag
<1>3. CASE made' = made /\ lost' = lost
  BY <1>1, <1>2, <1>3 DEF OpeningsSpent, Counted
<1>4. CASE Performed(j) /\ (lost' \/ (lost' = lost /\ (j.dialog = "add" => dialog' # "add")))
  <2>1. /\ \A n \in Opening : n > opened => made'[n] = 0
        /\ Counted /\ ~lost => \A n \in Opening :
             \/ made'[n] = made[n]
             \/ j.dialog = "add" /\ n = j.from /\ made[n] = 0 /\ made'[n] = 1
    BY <1>4, MadeByOne
  <2>2. ASSUME Counted, ~lost', NEW n \in Opening, made'[n] # 0
        PROVE  /\ made'[n] = 1
               /\ dialog' = "add" => opened # n
               /\ \A k \in saves' : k.dialog = "add" => k.from # n
    <3>1. ~lost /\ (j.dialog = "add" => dialog' # "add")
      BY <1>4, <2>2
    <3>2. CASE made'[n] = made[n]
      BY <2>2, <3>1, <3>2 DEF OpeningsSpent
    <3>3. CASE made'[n] # made[n]
      <4>1. j.dialog = "add" /\ made'[n] = 1
        BY <2>1, <2>2, <3>1, <3>3
      <4>2. \A k \in saves' : k.dialog # "add"
        BY <2>2, <4>1 DEF OneSavePerFlag
      <4> QED BY <3>1, <4>1, <4>2
    <3> QED BY <3>2, <3>3
  <2> QED BY <1>1, <1>2, <2>1, <2>2 DEF OpeningsSpent, Counted
<1> QED BY <1>3, <1>4

LEMMA CreateInvStep == DialogInv /\ CreateInv /\ [DialogNext]_dialogVars => CreateInv'
<1> SUFFICES ASSUME DialogInv, CreateInv, [DialogNext]_dialogVars
             PROVE  CreateInv'
  OBVIOUS
<1> USE Owners DEF CreateInv
<1>0. opened \in Nat /\ dialog \in Owner \cup {"shut"} /\ made \in [Opening -> 0..2]
  BY DialogAssumption DEF DialogInv, DialogTypeOK
<1>1. ASSUME UNCHANGED <<page, busy, saves, made, lost, opened>>, dialog' \in {dialog, "shut"}
      PROVE  CreateInv'
  BY <1>1 DEF AddsWriteOnce, OneSavePerFlag, OpeningsSpent, Counted, Flag
<1>2. ASSUME NEW t \in DialogTab, MountDialogs(t)
      PROVE  CreateInv'
  <2>1. dialog = "shut" /\ saves = {}
    BY <1>2 DEF MountDialogs, DialogInv, FormsBelong
  <2>2. page = NoDialogs /\ Counted
    BY <1>2 DEF MountDialogs, Counted, NoDialogs, NoForm, Form, NoSave, Save
  <2> QED
    BY <1>2, <2>1, <2>2 DEF MountDialogs, AddsWriteOnce, OneSavePerFlag, OpeningsSpent, Counted, serverVars
<1>3. ASSUME NEW d \in Owner, NEW f, Open(d, f), d = "add" => page.add # "none"
      PROVE  CreateInv'
  <2>1. /\ dialog' = d /\ opened' = opened + 1 /\ opened' \in Opening
        /\ UNCHANGED <<page, busy, saves, made, lost>>
    <3>1. opened < MaxOpen /\ MaxOpen \in Nat
      BY <1>3, DialogAssumption DEF Open
    <3>2. opened + 1 \in Opening
      BY <1>0, <3>1 DEF Opening
    <3> QED BY <1>3, <3>2 DEF Open, serverVars
  <2>2. made[opened'] = 0
    BY <1>0, <2>1 DEF OpeningsSpent
  <2>3. \A n \in Opening : n > opened' => n > opened
    BY <1>0, <2>1 DEF Opening
  <2> QED
    BY <1>3, <2>1, <2>2, <2>3 DEF AddsWriteOnce, OneSavePerFlag, OpeningsSpent, Counted, Flag
<1>4. CASE OpenAdd \/ \E o \in Obj : OpenEdit(o)
  BY <1>3, <1>4 DEF OpenAdd, OpenEdit, Owner
<1>5. CASE Submit
  <2> DEFINE j == [dialog |-> dialog, from |-> opened, step |-> 1, late |-> late,
                   data |-> form[FormOf(Mode(dialog))], picked |-> picked,
                   nth |-> IF \E k \in saves : k.nth = 1 THEN 2 ELSE 1]
  <2>1. /\ saves' = saves \cup {j} /\ busy' = busy \cup Busied(Mode(dialog))
        /\ UNCHANGED <<page, dialog, opened, made, lost>>
        /\ dialog # "shut" /\ MaySend(Mode(dialog))
    BY <1>5 DEF Submit, serverVars
  <2>2. j.dialog = dialog /\ j.from = opened /\ j.step = 1
    OBVIOUS
  <2> HIDE DEF j
  <2>3. AddsWriteOnce'
    BY <2>1, <2>2 DEF AddsWriteOnce, Counted
  <2>4. OneSavePerFlag'
    <3> SUFFICES ASSUME Counted PROVE OneSavePerFlag'
      BY <2>1 DEF OneSavePerFlag, Counted
    <3>1. Flag(Mode(dialog)) \notin busy
      BY <2>1 DEF MaySend, Counted
    <3>2. busy' = busy \cup {Flag(Mode(dialog))}
      BY <2>1 DEF Busied, Counted
    <3> QED
      BY <2>1, <2>2, <3>1, <3>2 DEF OneSavePerFlag, Counted, Flag
  <2>5. OpeningsSpent'
    BY <2>1, <2>2 DEF OpeningsSpent, Counted
  <2> QED BY <2>3, <2>4, <2>5
<1>6. ASSUME NEW j \in saves, NextStep(j)
      PROVE  CreateInv'
  <2> DEFINE k == [j EXCEPT !.step = 2]
  <2>1. /\ saves' = (saves \ {j}) \cup {k} /\ ~Last(j) /\ Performed(j)
        /\ UNCHANGED <<page, dialog, opened, busy, lost>> /\ j \in SaveJob
    BY <1>6 DEF NextStep, DialogInv, DialogTypeOK
  <2>2. k.dialog = j.dialog /\ k.from = j.from
    BY <2>1 DEF SaveJob
  <2> HIDE DEF k
  <2>3. Counted => j.dialog # "add"
    BY <2>1, OnlyAddsCreate
  <2>4. AddsWriteOnce'
    BY <2>1, <2>2, <2>3 DEF AddsWriteOnce, Counted
  <2>5. OneSavePerFlag'
    BY <2>1, <2>2 DEF OneSavePerFlag, Counted, Flag
  <2>6. OpeningsSpent'
    <3>1. /\ \A n \in Opening : n > opened => made'[n] = 0
          /\ Counted /\ ~lost => \A n \in Opening : made'[n] = made[n]
      BY <2>1, <2>3, MadeByOne
    <3> QED BY <2>1, <2>2, <2>3, <3>1 DEF OpeningsSpent, Counted
  <2> QED BY <2>4, <2>5, <2>6
<1>7. ASSUME NEW j \in saves, Saved(j)
      PROVE  CreateInv'
  <2>1. j.dialog = "add" => dialog' # "add"
    BY <1>7 DEF Saved, Closes
  <2> QED BY <1>7, <2>1, CreateSaveEnds DEF Saved
<1>8. ASSUME NEW j \in saves, Refuse(j) \/ LoseAnswer(j)
      PROVE  CreateInv'
  BY <1>8, CreateSaveEnds DEF Refuse, LoseAnswer, AfterFailure, serverVars
<1>9. ASSUME NEW p \in fetches, (\E all \in BOOLEAN : Fetched(p, all)) \/ FetchFails(p)
      PROVE  CreateInv'
  BY <1>1, <1>9 DEF Fetched, FetchFails, serverVars
<1>10. CASE Reset \/ Cancel \/ UNCHANGED dialogVars \/ \E t \in {"part", "full"} : Type(t)
  BY <1>1, <1>10 DEF Reset, Cancel, Type, dialogVars, serverVars
<1> QED
  BY <1>2, <1>4, <1>5, <1>6, <1>7, <1>8, <1>9, <1>10 DEF DialogNext

\* However often an add dialog is sent, cancelled and opened again while saves
\* are in flight, one opening of it creates one object, on the pages that have
\* a busy flag which Enter does not pass, unless the answer to a create is lost.
THEOREM OneObjectPerOpening == DialogSpec => []CreatedOnce
<1>1. DialogInit => CreateInv
  BY Owners DEF DialogInit, CreateInv, AddsWriteOnce, OneSavePerFlag, OpeningsSpent
<1>2. DialogInv /\ CreateInv => CreatedOnce
  <2> SUFFICES ASSUME DialogInv, CreateInv, Counted, ~lost, NEW n \in Opening
               PROVE  made[n] <= 1
    BY DEF CreatedOnce, Counted
  <2>1. made[n] = 0 \/ made[n] = 1
    BY DEF CreateInv, OpeningsSpent
  <2> QED BY <2>1
<1> QED
  BY <1>1, <1>2, DialogInvInit, DialogInvStep, CreateInvStep, PTL DEF DialogSpec

-----------------------------------------------------------------------------
(* All tabs together *)

\* Whatever tab is mounted, its list, its dialogs and the saves and loads in
\* flight hold what they may.
THEOREM TabsTypes == MCSpec => []TabsTypeOK
<1> DEFINE Inv == SpinnerInv /\ DialogInv
<1>1. MCInit => Inv
  BY SpinnerInvInit, DialogInvInit DEF MCInit
<1>2. Inv /\ [MCNext]_<<listVars, dialogVars>> => Inv'
  <2> SUFFICES ASSUME Inv, [MCNext]_<<listVars, dialogVars>>
               PROVE  Inv'
    OBVIOUS
  <2>1. [ListNext]_listVars /\ [DialogNext]_dialogVars
    BY DEF MCNext
  <2> QED
    BY <2>1, SpinnerInvStep, DialogInvStep
<1>3. Inv => TabsTypeOK
  BY DEF TabsTypeOK, SpinnerInv, DialogInv
<1> QED
  BY <1>1, <1>2, <1>3, PTL DEF MCSpec
=============================================================================
