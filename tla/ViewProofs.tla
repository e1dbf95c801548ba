----------------------------- MODULE ViewProofs -----------------------------
(***************************************************************************)
(* Proofs about the views of Lookups, the forms of AdminForms and the      *)
(* layout editor, for any selections, requests, months, proxy groups and   *)
(* number of edits.                                                        *)
(***************************************************************************)
EXTENDS MCViews, TLAPS

-----------------------------------------------------------------------------
(* Lookups *)

\* What is in flight under the present selection is a request for it.
SinceIsOfSel == \A r \in since : r \in Req /\ requests[r] = sel
\* Nothing was asked before a view is open.
ClosedIsEmpty ==
  view = NoView =>
    /\ sel = "none" /\ content = "none" /\ chosen = "none"
    /\ sent = [sel |-> "none", of |-> "none"] /\ Flying = {}
\* Without a failure or an overtaken request all that flies is of the present
\* selection, and once the spinner is off so is what is shown.
OnCourse ==
  ~astray =>
    /\ Flying \subseteq since
    /\ Settled \/ ~spinner => content \in {sel, "none"}
ChoiceOnCourse ==
  ~astray /\ view.choice = "select" => chosen \in {sel, "none"} /\ sent.of = sent.sel
GuardedContent == view.guard /\ view.clears => content \in {sel, "none"}

LookupInv ==
  /\ LookupTypeOK /\ SinceIsOfSel /\ ClosedIsEmpty
  /\ OnCourse /\ ChoiceOnCourse /\ GuardedContent

\* The two months of the report are picked within reach of each other.
LEMMA ReachKept == PeriodInReach /\ LookupTypeOK /\ PickMonths => PeriodInReach'
<1> SUFFICES ASSUME PeriodInReach, LookupTypeOK, PickMonths PROVE PeriodInReach'
  OBVIOUS
<1> USE LookupAssumption DEF Month
<1>1. months.from \in Month /\ months.to \in Month /\ months \in [from : Month, to : Month]
  BY DEF LookupTypeOK
<1>2. ASSUME NEW v \in Month, months' = [from |-> v, to |-> ToInReach(v, months.to)]
      PROVE  PeriodInReach'
  <2>1. months'.from = v /\ months'.to = ToInReach(v, months.to)
    BY <1>2
  <2>2. ToInReach(v, months.to) # 0 =>
          /\ v # 0 /\ ToInReach(v, months.to) = months.to
          /\ monthDiff(v, months.to) >= 0 /\ monthDiff(v, months.to) < MAX_RANGE_MONTHS
    BY <1>1 DEF ToInReach, monthDiff, MAX_RANGE_MONTHS
  <2> QED BY <1>1, <2>1, <2>2 DEF PeriodInReach, monthDiff, MAX_RANGE_MONTHS
<1>3. ASSUME NEW v \in toMonthOptions(months.from) \cup {0}, months.from # 0,
             months' = [months EXCEPT !.to = v]
      PROVE  PeriodInReach'
  <2>1. months'.from = months.from /\ months'.to = v
    BY <1>1, <1>3
  <2>2. v # 0 => monthDiff(months.from, v) \in 0..(MAX_RANGE_MONTHS - 1)
    BY DEF toMonthOptions
  <2> QED BY <1>3, <2>1, <2>2 DEF PeriodInReach
<1> QED BY <1>2, <1>3 DEF PickMonths

LEMMA LookupInvInit == LookupInit => LookupInv /\ PeriodInReach
<1> SUFFICES ASSUME LookupInit PROVE LookupInv /\ PeriodInReach
  OBVIOUS
<1> USE LookupAssumption DEF LookupInit
<1>1. Flying = {}
  BY DEF Flying
<1>2. LookupTypeOK
  <2>1. sel \in Some /\ content \in Some /\ chosen \in Some /\ requests \in [Req -> Some]
    BY DEF Some
  <2>2. sent \in [sel : Some, of : Some]
    BY DEF Some
  <2>3. months \in [from : Month, to : Month]
    BY DEF Month
  <2> QED BY <2>1, <2>2, <2>3 DEF LookupTypeOK
<1>3. SinceIsOfSel /\ ClosedIsEmpty /\ PeriodInReach
  BY <1>1 DEF SinceIsOfSel, ClosedIsEmpty, PeriodInReach
<1>4. OnCourse /\ ChoiceOnCourse /\ GuardedContent
  BY <1>1 DEF OnCourse, ChoiceOnCourse, GuardedContent
<1> QED BY <1>2, <1>3, <1>4 DEF LookupInv

\* Each step keeps the invariant.
LEMMA LookupStep == LookupInv /\ [LookupNext]_lookupVars => LookupInv'
<1> SUFFICES ASSUME LookupInv, [LookupNext]_lookupVars PROVE LookupInv'
  OBVIOUS
<1> USE LookupAssumption
<1>0. /\ LookupTypeOK /\ SinceIsOfSel /\ ClosedIsEmpty
      /\ OnCourse /\ ChoiceOnCourse /\ GuardedContent
  BY DEF LookupInv
<1>1. ASSUME NEW v \in Views, OpenView(v) PROVE LookupInv'
  <2>1. polling' \in BOOLEAN
    BY <1>1 DEF OpenView
  <2>2. /\ view' = v
        /\ UNCHANGED <<sel, content, stuck, requests, since, first, spinner, healthy, chosen,
                       sent, months, astray>>
    BY <1>1 DEF OpenView
  <2>3. LookupTypeOK'
    BY <1>0, <2>1, <2>2 DEF LookupTypeOK
  <2>4. SinceIsOfSel' /\ ClosedIsEmpty' /\ OnCourse'
    BY <1>0, <1>1 DEF OpenView, SinceIsOfSel, ClosedIsEmpty, OnCourse, Flying, Settled
  <2>5. ChoiceOnCourse' /\ GuardedContent'
    BY <1>0, <1>1 DEF OpenView, ClosedIsEmpty, ChoiceOnCourse, GuardedContent
  <2> QED BY <2>3, <2>4, <2>5 DEF LookupInv
<1>2. ASSUME NEW r \in Req, NEW x \in Sel, Select(x, r) PROVE LookupInv'
  <2> USE <1>0, <1>2 DEF Select
  <2>1. LookupTypeOK'
    <3>1. x \in Some /\ "none" \in Some
      BY DEF Some
    <3>2. requests' \in [Req -> Some] /\ sel' \in Some /\ content' \in Some /\ chosen' \in Some
      BY <3>1 DEF LookupTypeOK
    <3>3. astray' \in BOOLEAN /\ since' \in SUBSET Req
      BY DEF LookupTypeOK
    <3> QED BY <3>2, <3>3 DEF LookupTypeOK
  <2>2. requests'[r] = x /\ \A q \in Req : q # r => requests'[q] = requests[q]
    BY DEF LookupTypeOK
  <2>3. SinceIsOfSel' /\ ClosedIsEmpty'
    BY <2>2 DEF SinceIsOfSel, ClosedIsEmpty
  <2>4. ~astray' => ~astray /\ Flying = {}
    BY DEF LookupTypeOK
  <2>5. OnCourse'
    <3>1. r \in Flying' /\ spinner' = TRUE
      BY <2>2 DEF Flying
    <3>2. ~astray' => Flying' \subseteq since'
      BY <2>2, <2>4 DEF Flying
    <3> QED BY <3>1, <3>2 DEF OnCourse, Settled
  <2>6. ChoiceOnCourse'
    BY <2>4 DEF ChoiceOnCourse
  <2>7. GuardedContent'
    BY DEF GuardedContent
  <2> QED BY <2>1, <2>3, <2>5, <2>6, <2>7 DEF LookupInv
<1>3. ASSUME NEW r \in Req, Poll(r) PROVE LookupInv'
  <2> USE <1>0, <1>3 DEF Poll
  <2>1. LookupTypeOK'
    BY DEF LookupTypeOK
  <2>2. requests'[r] = sel /\ \A q \in Req : q # r => requests'[q] = requests[q]
    BY DEF LookupTypeOK
  <2>3. SinceIsOfSel'
    BY <2>2 DEF SinceIsOfSel
  <2>4. ClosedIsEmpty'
    BY DEF ClosedIsEmpty
  <2>5. OnCourse'
    <3>1. r \in Flying' /\ Flying' = Flying \cup {r}
      BY <2>2 DEF Flying
    <3> QED BY <3>1 DEF OnCourse, Settled
  <2>6. ChoiceOnCourse' /\ GuardedContent'
    BY DEF ChoiceOnCourse, GuardedContent
  <2> QED BY <2>1, <2>3, <2>4, <2>5, <2>6 DEF LookupInv
<1>4. ASSUME NEW r \in Req, Answer(r) PROVE LookupInv'
  <2> USE <1>0, <1>4 DEF Answer
  <2>1. r \in Flying /\ requests[r] \in Some /\ "none" \in Some
    BY DEF Flying, LookupTypeOK, Some
  <2>2. LookupTypeOK'
    BY <2>1 DEF LookupTypeOK
  <2>3. requests'[r] = "none" /\ \A q \in Req : q # r => requests'[q] = requests[q]
    BY DEF LookupTypeOK
  <2>4. SinceIsOfSel'
    BY <2>3 DEF SinceIsOfSel
  <2>5. ClosedIsEmpty'
    BY <2>1 DEF ClosedIsEmpty
  <2>6. Flying' = Flying \ {r}
    BY <2>3 DEF Flying
  <2>7. r \in since => requests[r] = sel
    BY DEF SinceIsOfSel
  <2>8. ~astray' => Counts(r) /\ content' = sel
    BY <2>1, <2>7 DEF OnCourse, Counts
  <2>9. OnCourse' /\ ChoiceOnCourse'
    BY <2>6, <2>8 DEF OnCourse, ChoiceOnCourse
  <2>10. GuardedContent'
    BY <2>7 DEF GuardedContent, Counts
  <2> QED BY <2>2, <2>4, <2>5, <2>9, <2>10 DEF LookupInv
<1>5. ASSUME NEW r \in Req, Fail(r) PROVE LookupInv'
  <2> USE <1>0, <1>5 DEF Fail
  <2>1. r \in Flying /\ "none" \in Some
    BY DEF Some
  <2>2. LookupTypeOK'
    BY <2>1 DEF LookupTypeOK
  <2>3. requests'[r] = "none" /\ \A q \in Req : q # r => requests'[q] = requests[q]
    BY DEF LookupTypeOK
  <2>4. SinceIsOfSel' /\ ClosedIsEmpty'
    BY <2>1, <2>3 DEF SinceIsOfSel, ClosedIsEmpty
  <2>5. OnCourse' /\ ChoiceOnCourse' /\ GuardedContent'
    BY DEF OnCourse, ChoiceOnCourse, GuardedContent
  <2> QED BY <2>2, <2>4, <2>5 DEF LookupInv
<1>6. ASSUME Choose PROVE LookupInv'
  <2> USE <1>0, <1>6 DEF Choose
  <2>1. LookupTypeOK'
    BY DEF LookupTypeOK
  <2>2. SinceIsOfSel' /\ ClosedIsEmpty' /\ OnCourse'
    BY DEF SinceIsOfSel, ClosedIsEmpty, OnCourse, Flying, Settled
  <2>3. ChoiceOnCourse' /\ GuardedContent'
    BY DEF OnCourse, ChoiceOnCourse, GuardedContent
  <2> QED BY <2>1, <2>2, <2>3 DEF LookupInv
<1>7. ASSUME Send PROVE LookupInv'
  <2> USE <1>0, <1>7 DEF Send
  <2>1. LookupTypeOK'
    BY DEF LookupTypeOK
  <2>2. SinceIsOfSel' /\ ClosedIsEmpty' /\ OnCourse'
    BY DEF MaySend, SinceIsOfSel, ClosedIsEmpty, OnCourse, Flying, Settled
  <2>3. ChoiceOnCourse' /\ GuardedContent'
    BY DEF MaySend, ChoiceOnCourse, GuardedContent
  <2> QED BY <2>1, <2>2, <2>3 DEF LookupInv
<1>8. ASSUME Recovers \/ ToggleAutoRefresh PROVE LookupInv'
  BY <1>0, <1>8 DEF Recovers, ToggleAutoRefresh, LookupInv, LookupTypeOK, SinceIsOfSel, ClosedIsEmpty, OnCourse,
                    ChoiceOnCourse, GuardedContent, Flying, Settled
<1>9. ASSUME PickMonths PROVE LookupInv'
  <2> USE <1>0, <1>9 DEF PickMonths
  <2>1. months' \in [from : Month, to : Month]
    <3>1. \A v \in Month : ToInReach(v, months.to) \in Month
      BY DEF ToInReach, LookupTypeOK, Month
    <3>2. toMonthOptions(months.from) \cup {0} \subseteq Month
      BY DEF toMonthOptions, Month
    <3> QED BY <3>1, <3>2 DEF LookupTypeOK
  <2>2. LookupTypeOK'
    BY <2>1 DEF LookupTypeOK
  <2>3. SinceIsOfSel' /\ ClosedIsEmpty' /\ OnCourse' /\ ChoiceOnCourse' /\ GuardedContent'
    BY DEF SinceIsOfSel, ClosedIsEmpty, OnCourse, ChoiceOnCourse, GuardedContent, Flying, Settled
  <2> QED BY <2>2, <2>3 DEF LookupInv
<1>10. CASE UNCHANGED lookupVars
  BY <1>0, <1>10 DEF lookupVars, LookupInv, LookupTypeOK, SinceIsOfSel, ClosedIsEmpty, OnCourse,
                     ChoiceOnCourse, GuardedContent, Flying, Settled
<1> QED BY <1>1, <1>2, <1>3, <1>4, <1>5, <1>6, <1>7, <1>8, <1>9, <1>10 DEF LookupNext

LEMMA LookupInvAlways == LookupSpec => []LookupInv
<1>1. LookupInit => LookupInv
  BY LookupInvInit
<1> QED BY <1>1, LookupStep, PTL DEF LookupSpec

\* A view that drops late answers and empties itself never shows one thing
\* under the name of another, and any view shows what is selected once its
\* requests are answered, unless one failed or was overtaken.
THEOREM ShowsWhatIsSelected == LookupSpec => []NeverAnothers
<1>1. LookupInv => NeverAnothers
  BY DEF LookupInv, NeverAnothers, GuardedContent, OnCourse
<1> QED BY <1>1, LookupInvAlways, PTL

\* Where a new host resets the choice, item and host of an alert rule, widget
\* or trigger belong together as long as no request went astray.
THEOREM ItemsGoWithTheirHost == LookupSpec => []ChoiceBelongs
<1>1. LookupInv => ChoiceBelongs
  BY DEF LookupInv, ChoiceBelongs, ChoiceOnCourse
<1> QED BY <1>1, LookupInvAlways, PTL

\* The period of the availability report spans at most six months and never
\* runs backwards, in whatever order its ends are picked.
THEOREM PeriodsAreInReach == LookupSpec => []PeriodInReach
<1>1. PeriodInReach /\ LookupInv /\ [LookupNext]_lookupVars => PeriodInReach'
  <2> SUFFICES ASSUME PeriodInReach, LookupInv, [LookupNext]_lookupVars PROVE PeriodInReach'
    OBVIOUS
  <2>1. CASE PickMonths
    BY <2>1, ReachKept DEF LookupInv
  <2>2. CASE UNCHANGED months
    BY <2>2 DEF PeriodInReach
  <2> QED BY <2>1, <2>2 DEF LookupNext, OpenView, ToggleAutoRefresh, Poll, Answer, Fail, Select,
                            Choose, Send, Recovers, lookupVars
<1>2. LookupInit => PeriodInReach
  BY LookupInvInit
<1> QED BY <1>1, <1>2, LookupInvAlways, PTL DEF LookupSpec

-----------------------------------------------------------------------------
(* Forms *)

\* The least types of a section and of its element add up to what Zabbix asks.
LEMMA SectionsKnowTheTypes ==
  ASSUME NEW s \in UI_SECTIONS, NEW i \in s.items, NEW t \in 1..3,
         isMinTypeMet(s.min, t), isMinTypeMet(i.min, t)
  PROVE  ZabbixMin[i.name] <= t
<1> USE DEF isMinTypeMet, Item, ZabbixMin
<1>1. CASE s = [min |-> 1, items |-> {Item("problems", 1), Item("discovery", 2)}]
  BY <1>1
<1>2. CASE s = [min |-> 1, items |-> {Item("availability", 1), Item("notifications", 2),
                                      Item("audit_log", 3)}]
  BY <1>2
<1>3. CASE s = [min |-> 2, items |-> {Item("host_groups", 1)}]
  BY <1>3
<1>4. CASE s = [min |-> 3, items |-> {Item("user_roles", 1)}]
  BY <1>4
<1> QED BY <1>1, <1>2, <1>3, <1>4 DEF UI_SECTIONS

RoleInv == role.type \in 1..3 /\ role = [type |-> role.type, access |-> role.access] /\ RoleAccepted

LEMMA RoleStep == RoleInv /\ [FormsNext]_formVars => RoleInv'
<1> SUFFICES ASSUME RoleInv, [FormsNext]_formVars PROVE RoleInv'
  OBVIOUS
<1> USE DEF RoleInv
<1>1. CASE OpenRole
  BY <1>1 DEF OpenRole, DefaultRole, RoleAccepted
<1>2. CASE CancelRole
  BY <1>2 DEF CancelRole, RoleAccepted
<1>3. ASSUME NEW t \in 1..3, PickType(t) PROVE RoleInv'
  BY <1>3 DEF PickType, RoleAccepted
<1>4. ASSUME NEW on \in BOOLEAN, NEW items, toggle(items, on) PROVE RoleInv'
  BY <1>4 DEF toggle, RoleAccepted
<1>5. CASE CreateRole
  <2>1. sentRole'.type = role.type
        /\ sentRole'.allowed \cup sentRole'.denied \subseteq visibleItemNames(role.type)
    BY <1>5 DEF CreateRole
  <2>2. \A i \in visibleItemNames(role.type) : ZabbixMin[i.name] <= role.type
    BY SectionsKnowTheTypes DEF visibleItemNames
  <2>3. RoleAccepted'
    BY <2>1, <2>2 DEF RoleAccepted
  <2> QED BY <1>5, <2>3 DEF CreateRole, DefaultRole
<1>6. CASE UNCHANGED roleVars
  BY <1>6 DEF roleVars, RoleAccepted
<1>7. ProxyNext => UNCHANGED roleVars
  BY DEF ProxyNext, OpenProxy, CancelProxy, ProxyTabGeneral, ProxyTabEncryption, FillAddresses, set,
         create_proxy, update_proxy, OtherKey
<1> QED BY <1>1, <1>2, <1>3, <1>4, <1>5, <1>6, <1>7
        DEF FormsNext, RoleNext, toggleUi, toggleSection, formVars

\* No role is sent with a rule on an element that Zabbix does not grant to its
\* type, whatever the form went through.
THEOREM RolesAreAccepted == FormsSpec => []RoleAccepted
<1>1. FormsInit => RoleInv
  BY DEF FormsInit, RoleInit, DefaultRole, NoRole, RoleInv, RoleAccepted
<1>2. RoleInv => RoleAccepted
  BY DEF RoleInv
<1> QED BY <1>1, <1>2, RoleStep, PTL DEF FormsSpec

\* The proxy at Zabbix is one that Zabbix accepts, and has no key it does not
\* use.
ProxyInv ==
  /\ proxy \in ProxyRow /\ form \in ProxyRow
  /\ ZabbixAccepts(proxy)
  /\ ~UsesPsk(proxy) => proxy.key = ""

LEMMA BuildsARow ==
  ASSUME GroupAssumption, NEW f \in ProxyRow, NEW p \in ProxyRow
  PROVE  LET b == _build_proxy_params(f, p)
         IN  /\ b \in ProxyRow /\ UsesPsk(b) = UsesPsk(f)
             /\ ~UsesPsk(f) => b.key = ""
<1> DEFINE general == [p EXCEPT !.mode = f.mode,
                                !.group = IF f.group # "none" THEN f.group ELSE @]
           key == KeyAfter(f, general)
<1>1. general \in ProxyRow /\ general.mode = f.mode
  BY DEF ProxyRow
<1>2. key \in Keys /\ (~UsesPsk(f) => key = "")
  BY <1>1 DEF KeyAfter, Keys, ProxyRow
<1>3. CASE f.mode = "passive"
  <2>1. _build_proxy_params(f, p) = [general EXCEPT !.connect = f.connect, !.key = key]
    BY <1>3 DEF _build_proxy_params, _passive_proxy_tls_params
  <2> HIDE DEF general, key
  <2> QED BY <1>1, <1>2, <1>3, <2>1 DEF UsesPsk, ProxyRow
<1>4. CASE f.mode = "active"
  <2>1. _build_proxy_params(f, p) = [general EXCEPT !.accept = f.accept, !.key = key]
    BY <1>4 DEF _build_proxy_params, _active_proxy_tls_params
  <2> HIDE DEF general, key
  <2> QED BY <1>1, <1>2, <1>4, <2>1 DEF UsesPsk, ProxyRow
<1> QED BY <1>3, <1>4 DEF ProxyRow

LEMMA ProxyStep == ProxyInv /\ [FormsNext]_formVars => ProxyInv'
<1> SUFFICES ASSUME ProxyInv, [FormsNext]_formVars PROVE ProxyInv'
  OBVIOUS
<1> USE GroupAssumption DEF ProxyInv
<1>0. NewProxy \in ProxyRow /\ proxyFormFromExisting(proxy) \in ProxyRow
  BY DEF NewProxy, proxyFormFromExisting, ProxyRow, Security, Keys
<1>1. ASSUME NEW how \in {"add", "edit"}, OpenProxy(how) PROVE ProxyInv'
  BY <1>0, <1>1 DEF OpenProxy
<1>2. ASSUME NEW f \in ProxyRow, set(f) PROVE ProxyInv'
  BY <1>2 DEF set
<1>3. ProxyTabGeneral => \E f \in ProxyRow : set(f)
  <2>1. \A m \in {"active", "passive"} : [form EXCEPT !.mode = m] \in ProxyRow
    BY DEF ProxyRow
  <2>2. \A g \in Group \cup {"none"} : [form EXCEPT !.group = g] \in ProxyRow
    BY DEF ProxyRow
  <2> QED BY <2>1, <2>2 DEF ProxyTabGeneral
<1>4. ProxyTabEncryption => \E f \in ProxyRow : set(f)
  <2>1. \A a \in SUBSET Security : [form EXCEPT !.accept = a] \in ProxyRow
    BY DEF ProxyRow
  <2>2. \A c \in Security : [form EXCEPT !.connect = c] \in ProxyRow
    BY DEF ProxyRow
  <2>3. \A k \in {"", "new"} : [form EXCEPT !.key = k] \in ProxyRow
    BY DEF ProxyRow, Keys
  <2> QED BY <2>1, <2>2, <2>3 DEF ProxyTabEncryption
<1>5. CASE create_proxy
  <2> DEFINE b == _build_proxy_params(form, NewProxy)
             k == IF UsesPsk(b) THEN "old" ELSE ""
  <2>1. b \in ProxyRow /\ ZabbixAccepts(b) /\ proxy' = [b EXCEPT !.key = k] /\ form' = form
    BY <1>0, <1>5, BuildsARow DEF create_proxy
  <2> HIDE DEF b
  <2>2. proxy' \in ProxyRow
    BY <2>1 DEF ProxyRow, Keys
  <2>3. UsesPsk(proxy') = UsesPsk(b) /\ proxy'.key = k
    BY <2>1 DEF UsesPsk, ProxyRow
  <2>4. ZabbixAccepts(proxy')
    BY <2>1, <2>3 DEF ZabbixAccepts, ProxyRow
  <2> QED BY <2>1, <2>2, <2>3, <2>4
<1>6. CASE update_proxy
  BY <1>6, BuildsARow DEF update_proxy
<1>7. CASE OtherKey
  <2>1. UsesPsk(proxy) /\ proxy' = [proxy EXCEPT !.key = "new"] /\ form' = form
    BY <1>7 DEF OtherKey
  <2>2. proxy' \in ProxyRow
    BY <2>1 DEF ProxyRow, Keys
  <2>3. UsesPsk(proxy') /\ ZabbixAccepts(proxy')
    BY <2>1 DEF UsesPsk, ProxyRow, ZabbixAccepts
  <2> QED BY <2>1, <2>2, <2>3
<1>8. CASE UNCHANGED <<proxy, form>>
  BY <1>8
<1>9. CancelProxy \/ FillAddresses \/ RoleNext \/ UNCHANGED formVars => UNCHANGED <<proxy, form>>
  BY DEF CancelProxy, FillAddresses, RoleNext, OpenRole, CancelRole, PickType, toggleUi, toggleSection,
         toggle, CreateRole, proxyVars, formVars
<1> QED BY <1>1, <1>2, <1>3, <1>4, <1>5, <1>6, <1>7, <1>8, <1>9 DEF FormsNext, ProxyNext

\* Opening the edit dialog of a proxy and saving it as it stands is accepted
\* and changes nothing, though the form never held the key.
THEOREM UntouchedEditsKeep == FormsSpec => []UntouchedEditKeeps
<1>1. FormsInit => ProxyInv
  <2>1. NewProxy \in ProxyRow
    BY DEF NewProxy, ProxyRow, Security, Keys
  <2>2. ~UsesPsk(NewProxy) /\ ZabbixAccepts(NewProxy) /\ NewProxy.key = ""
    BY DEF NewProxy, UsesPsk, ZabbixAccepts
  <2> QED BY <2>1, <2>2 DEF FormsInit, ProxyInit, ProxyInv
<1>2. ProxyInv => UntouchedEditKeeps
  <2> SUFFICES ASSUME ProxyInv, form = proxyFormFromExisting(proxy)
               PROVE  _build_proxy_params(form, proxy) = proxy
    BY DEF UntouchedEditKeeps, ProxyInv
  <2>1. form = [proxy EXCEPT !.key = ""] /\ proxy \in ProxyRow
    BY DEF proxyFormFromExisting, ProxyInv
  <2>2. /\ form.mode = proxy.mode /\ form.group = proxy.group /\ form.accept = proxy.accept
        /\ form.connect = proxy.connect /\ form.key = ""
    BY <2>1 DEF ProxyRow
  <2>3. KeyAfter(form, proxy) = proxy.key
    BY <2>2 DEF KeyAfter, UsesPsk, ProxyInv
  <2>4. [proxy EXCEPT !.mode = form.mode,
                      !.group = IF form.group # "none" THEN form.group ELSE @] = proxy
    BY <2>1, <2>2 DEF ProxyRow
  <2>5. _passive_proxy_tls_params(form, proxy) = proxy /\ _active_proxy_tls_params(form, proxy) = proxy
    BY <2>1, <2>2, <2>3 DEF _passive_proxy_tls_params, _active_proxy_tls_params, ProxyRow
  <2> QED BY <2>4, <2>5 DEF _build_proxy_params
<1> QED BY <1>1, <1>2, ProxyStep, PTL DEF FormsSpec

-----------------------------------------------------------------------------
(* The layout editor *)

LEMMA LayoutsOfScope ==
  /\ \A s \in Scope, p \in Page : At(s, p) \in Layout
  /\ \A o \in Owner : o \in Scope /\ o # "all" /\ OwnPage[o] \in Page /\ <<o, OwnPage[o]>> \in Layout
  /\ "default" \in Page /\ "user" \in Scope /\ "team" \in Scope
  /\ <<"user", "default">> \in Layout /\ <<"team", "default">> \in Layout
BY DEF Scope, Owner, Page, Layout, At

LEMMA WidgetsOfNothing == Empty \in Widgets /\ Empty.of = Nowhere
BY EditAssumption DEF Empty, Widgets

LEMMA ListsOfPages ==
  ASSUME EditorTypeOK, NEW s \in Scope, NEW p \in Page, NEW t \in BOOLEAN
  PROVE  /\ ListFor(s, p, t) \in Listing
         /\ ListFor(s, p, t).scope = s /\ ListFor(s, p, t).page = p
         /\ ListFor(s, p, t).ofTeam = t /\ ListFor(s, p, t).dirty = isDirty
BY DEF EditorTypeOK, ListFor, Listing

\* What going to a page, or to a scope, leaves in the variables it writes.
LEMMA GoPageTypes ==
  ASSUME EditorTypeOK, NEW s \in Scope, NEW d \in BOOLEAN, NEW p \in Page, NEW t \in BOOLEAN,
         handlePageChange(s, d, p, t)
  PROVE  /\ page' \in Page /\ ofTeam' \in BOOLEAN /\ loads' \subseteq Layout /\ lost' \in BOOLEAN
         /\ asked' \in Asking \cup {Stay} /\ consent' \in BOOLEAN
         /\ UNCHANGED <<scope, isDirty, widgets, unsaved>>
<1>1. [of |-> "page", scope |-> s, page |-> p, ofTeam |-> t] \in Asking
  BY DEF Asking
<1>2. At(s, p) \in Layout
  BY LayoutsOfScope
<1> QED BY <1>1, <1>2 DEF EditorTypeOK, handlePageChange, ShowPage

LEMMA GoScopeTypes ==
  ASSUME EditorTypeOK, NEW s \in Scope, NEW p \in Page, ShowScope(s, p)
  PROVE  scope' \in Scope /\ lists' \subseteq Listing /\ loads' \subseteq Layout /\ lost' \in BOOLEAN
<1>1. ListFor(s, page, ofTeam) \in Listing
  BY ListsOfPages DEF EditorTypeOK
<1>2. s # "all" => <<s, p>> \in Layout
  BY LayoutsOfScope DEF At
<1> QED BY <1>1, <1>2 DEF EditorTypeOK, ShowScope

\* Only a request that is under way is answered.
LEMMA RequestTyped ==
  EditorTypeOK /\ (PageCreated \/ PageDeleted) => request \in PageRequest /\ request # NoRequest
<1> SUFFICES ASSUME EditorTypeOK, PageCreated \/ PageDeleted
             PROVE  request \in PageRequest /\ request # NoRequest
  OBVIOUS
<1>1. request.what \in {"create", "delete"}
  BY DEF PageCreated, PageDeleted
<1>2. NoRequest.what = "none"
  BY DEF NoRequest
<1>3. request # NoRequest
  BY <1>1, <1>2
<1> QED BY <1>3 DEF EditorTypeOK

LEMMA EditorTypesKept ==
  ASSUME EditorTypeOK, [EditorNext]_editorVars
  PROVE  EditorTypeOK'
<1> USE LayoutsOfScope, WidgetsOfNothing DEF EditorTypeOK, serverVars
<1>1. ASSUME NEW s \in Scope, NEW d \in BOOLEAN, NEW p \in Page, NEW t \in BOOLEAN,
             handlePageChange(s, d, p, t),
             UNCHANGED <<confirms, loaded, saving, edits>>, lists' \subseteq Listing,
             offered' \in Scope \cup {"none"}, request' \in PageRequest \cup {NoRequest},
             pages' \subseteq Layout, stored' \in [Layout -> Widgets]
      PROVE  EditorTypeOK'
  BY <1>1, GoPageTypes
<1>2. CASE LoadFirst
  <2>1. widgets' \in Widgets /\ scope' \in Scope
    BY <1>2 DEF LoadFirst
  <2>2. ListFor(scope', page, ofTeam) \in Listing
    BY <2>1, ListsOfPages
  <2> QED BY <1>2, <2>1, <2>2 DEF LoadFirst
<1>3. CASE LoadFirstFails
  <2>1. ListFor(scope, page, ofTeam) \in Listing
    BY ListsOfPages
  <2> QED BY <1>3, <2>1 DEF LoadFirstFails
<1>4. CASE Edit
  <2>1. edits' \in 0..MaxEdit
    BY <1>4, EditAssumption DEF Edit
  <2>2. Selected \in Layout
    BY DEF Selected
  <2>3. widgets' \in Widgets
    BY <1>4, <2>1, <2>2 DEF Edit, Widgets
  <2> QED BY <1>4, <2>1, <2>3 DEF Edit
<1>5. ASSUME NEW p \in Page, NEW t \in BOOLEAN, ChoosePage(p, t) PROVE EditorTypeOK'
  <2>1. handlePageChange(scope, isDirty, p, t)
        /\ UNCHANGED <<confirms, loaded, lists, offered, request, saving, pages, stored, edits>>
    BY <1>5 DEF ChoosePage
  <2> QED BY <1>1, <2>1
<1>6. ASSUME NEW s \in Scope, ChooseScope(s) PROVE EditorTypeOK'
  <2>1. [of |-> "scope", scope |-> s, page |-> page, ofTeam |-> ofTeam] \in Asking
    BY DEF Asking
  <2>2. /\ scope' \in Scope /\ lists' \subseteq Listing /\ loads' \subseteq Layout
        /\ lost' \in BOOLEAN /\ asked' \in Asking \cup {Stay} /\ consent' \in BOOLEAN
    BY <1>6, <2>1, GoScopeTypes DEF ChooseScope
  <2> QED BY <1>6, <2>2 DEF ChooseScope
<1>7. CASE Discard
  <2>1. asked \in Asking /\ asked.scope \in Scope /\ asked.page \in Page /\ asked.ofTeam \in BOOLEAN
    BY <1>7 DEF Discard, Stay, Asking
  <2>2. At(asked.scope, asked.page) \in Layout
    BY <2>1
  <2>3. /\ scope' \in Scope /\ page' \in Page /\ ofTeam' \in BOOLEAN /\ lists' \subseteq Listing
        /\ loads' \subseteq Layout /\ lost' \in BOOLEAN
    BY <1>7, <2>1, <2>2, GoScopeTypes DEF Discard, ShowPage
  <2> QED BY <1>7, <2>3 DEF Discard
<1>8. CASE KeepEditing
  BY <1>8 DEF KeepEditing
<1>9. ASSUME NEW l \in lists, Listed(l) PROVE EditorTypeOK'
  <2>1. l.scope \in Scope /\ l.dirty \in BOOLEAN /\ (l.scope = "all") \in BOOLEAN
    BY DEF Listing
  <2>2. /\ UNCHANGED <<confirms, loaded, request, saving, pages, stored, edits>>
        /\ lists' \subseteq Listing /\ offered' \in Scope
    BY <1>9, <2>1 DEF Listed
  <2>3. CASE Valid(l.scope, l.page, l.ofTeam)
    BY <1>9, <2>2, <2>3 DEF Listed
  <2>4. CASE ~Valid(l.scope, l.page, l.ofTeam)
    <3>1. handlePageChange(l.scope, l.dirty, "default", l.scope = "all")
      BY <1>9, <2>4 DEF Listed
    <3> QED BY <1>1, <2>1, <2>2, <3>1
  <2> QED BY <2>3, <2>4
<1>10. ASSUME NEW l \in lists, ListFails(l) PROVE EditorTypeOK'
  BY <1>10 DEF ListFails
<1>11. ASSUME NEW k \in loads, LoadAnswer(k) \/ LoadFails(k) PROVE EditorTypeOK'
  BY <1>11 DEF LoadAnswer, LoadFails
<1>12. CASE saveLayout
  <2>1. Selected \in Layout
    BY DEF Selected
  <2> QED BY <1>12, <2>1 DEF saveLayout, SaveAt
<1>13. NoSaving \in [at : Layout \cup {Nowhere}, widgets : Widgets]
  BY DEF NoSaving
<1>14. CASE Saved
  BY <1>13, <1>14 DEF Saved
<1>15. CASE SaveFails
  BY <1>13, <1>15 DEF SaveFails
<1>16. ASSUME NEW what \in {"create", "delete"}, NEW k \in Layout, SendPage(what, k)
       PROVE  EditorTypeOK'
  <2>1. [what |-> what, at |-> k, dirty |-> isDirty] \in PageRequest
    BY DEF PageRequest
  <2> QED BY <1>16, <2>1 DEF SendPage
<1>17. CASE CreatePage
  <2>1. scope \in Owner
    BY <1>17 DEF CreatePage, Scope
  <2> QED BY <1>16, <1>17, <2>1 DEF CreatePage
<1>18. CASE DeletePage
  <2>1. Selected \in Layout
    BY DEF Selected
  <2> QED BY <1>16, <1>18, <2>1 DEF DeletePage
<1>19. CASE PageCreated \/ PageDeleted
  <2>1. request \in PageRequest
    BY <1>19, RequestTyped
  <2>2. request.at \in Layout /\ request.at[1] \in Scope /\ request.at[2] \in Page
        /\ request.dirty \in BOOLEAN
    BY <2>1 DEF PageRequest, Layout, Scope
  <2>3. CASE PageCreated
    <3>1. handlePageChange(request.at[1], request.dirty, request.at[2], FALSE)
          /\ UNCHANGED <<confirms, loaded, lists, offered, saving, stored, edits>>
          /\ pages' \subseteq Layout /\ request' = NoRequest
      BY <2>2, <2>3 DEF PageCreated
    <3> QED BY <1>1, <2>2, <3>1
  <2>4. CASE PageDeleted
    <3>1. handlePageChange(request.at[1], request.dirty, "default", FALSE)
          /\ UNCHANGED <<confirms, loaded, lists, offered, saving, edits>>
          /\ pages' \subseteq Layout /\ request' = NoRequest /\ stored' \in [Layout -> Widgets]
      BY <2>2, <2>4 DEF PageDeleted
    <3> QED BY <1>1, <2>2, <3>1
  <2> QED BY <1>19, <2>3, <2>4
<1>20. CASE PageRequestFails
  BY <1>20 DEF PageRequestFails
<1>21. CASE UNCHANGED editorVars
  BY <1>21 DEF editorVars
<1> QED
  BY <1>2, <1>3, <1>4, <1>5, <1>6, <1>7, <1>8, <1>9, <1>10, <1>11, <1>12, <1>14, <1>15, <1>17,
     <1>18, <1>19, <1>20, <1>21 DEF EditorNext

\* Before the first answer nothing has been done.
Fresh ==
  ~loaded =>
    /\ scope = "user" /\ page = "default" /\ ~ofTeam /\ ~isDirty
    /\ asked = Stay /\ loads = {} /\ lists = {} /\ widgets = Empty
    /\ request = NoRequest /\ offered = "none" /\ unsaved = "no" /\ saving = NoSaving
\* The user is asked in Item Graphs only, and about a scope that is not selected.
Asks ==
  /\ asked # Stay => confirms
  /\ asked.of = "scope" => asked.scope # scope

Apart == \A k \in Layout : stored[k].of \in {k, Nowhere}
SavingApart == saving # NoSaving => saving.widgets.of \in {saving.at, Nowhere}
LoadsAreOfSelected == loads \subseteq {Selected}
\* What an owner's page shows was put together on it, unless the editor is on
\* its way there: a layout is being fetched, or it has just left all teams.
ShownIsSelected ==
  scope # "all" /\ loads = {} => ofTeam \/ widgets.of \in {Selected, Nowhere}
\* The pages that are being listed will end the way out of all teams.
OnTheWay == lists # {} /\ \A l \in lists : l.ofTeam
\* The way out of all teams: the page of a team until the pages are listed, or
\* until the user, asked whether to stay, has answered.
LeavingAll ==
  scope # "all" =>
    /\ ofTeam => OnTheWay \/ asked.of = "page"
    /\ offered = "all" => OnTheWay
    /\ asked.of = "page" /\ asked.ofTeam /\ asked.scope # "all" =>
         OnTheWay /\ \A l \in lists : l.dirty
\* The way in: no page of a team until the pages are listed.
InAll ==
  scope = "all" =>
    /\ loads # {} => ofTeam
    /\ \A l \in lists : ~l.ofTeam
    /\ ~Pending => ofTeam \/ asked.of = "page"
\* An unsaved edit has its mark, wherever it was captured, and what a save
\* carries is what is shown.
Marked ==
  /\ \A l \in lists : l.scope = scope /\ (isDirty => l.dirty)
  /\ unsaved = "yes" => isDirty
  /\ unsaved = "yes" /\ request # NoRequest => request.dirty
  /\ unsaved = "yes" /\ saving # NoSaving => widgets = saving.widgets
\* A layout that will replace unsaved changes was agreed to.
AgreedLoads == confirms /\ loads # {} /\ unsaved = "yes" => consent

InOrderInv ==
  /\ Apart /\ SavingApart /\ LoadsAreOfSelected /\ ShownIsSelected
  /\ LeavingAll /\ InAll /\ Marked /\ AgreedLoads

EditorInv ==
  /\ EditorTypeOK /\ Fresh /\ Asks
  /\ ~lost => InOrderInv

LEMMA EditorInvInit == EditorInit => EditorInv
<1> SUFFICES ASSUME EditorInit PROVE EditorInv
  OBVIOUS
<1> USE DEF EditorInit
<1>1. stored \in [Layout -> Widgets] /\ Apart
  <2>1. PICK none \in SUBSET {<<"user", "default">>} :
          stored = [k \in Layout |-> IF k \in pages \ none THEN [of |-> k, rev |-> 0] ELSE Empty]
    BY Zenon
  <2>2. Empty \in Widgets /\ \A k \in Layout : [of |-> k, rev |-> 0] \in Widgets
    BY EditAssumption DEF Empty, Widgets
  <2>3. \A k \in Layout : stored[k].of \in {k, Nowhere}
    BY <2>1 DEF Empty
  <2> QED BY <2>1, <2>2, <2>3 DEF Apart
<1>2. EditorTypeOK
  <2>1. saving \in [at : Layout \cup {Nowhere}, widgets : Widgets]
    BY WidgetsOfNothing DEF NoSaving
  <2>2. edits \in 0..MaxEdit /\ page \in Page /\ scope \in Scope
    BY EditAssumption, LayoutsOfScope
  <2> QED BY <1>1, <2>1, <2>2, WidgetsOfNothing DEF EditorTypeOK
<1>3. Fresh /\ Asks
  BY DEF Fresh, Asks, Stay
<1>4. InOrderInv
  BY <1>1 DEF InOrderInv, SavingApart, LoadsAreOfSelected, ShownIsSelected, LeavingAll, InAll,
              Marked, AgreedLoads, Empty, Stay
<1> QED BY <1>2, <1>3, <1>4 DEF EditorInv

\* Going to a page, with a scope and a mark that may be old.
LEMMA GoToPage ==
  ASSUME EditorInv, ~lost', NEW s \in Scope, NEW d \in BOOLEAN, NEW p \in Page, NEW t \in BOOLEAN,
         handlePageChange(s, d, p, t), UNCHANGED <<confirms, saving>>,
         Apart => Apart', lists' \subseteq lists, request' \in {request, NoRequest},
         unsaved = "yes" => d
  PROVE  /\ Apart' /\ SavingApart' /\ LoadsAreOfSelected' /\ ShownIsSelected'
         /\ InAll' /\ Marked' /\ AgreedLoads'
<1> USE DEF EditorInv, InOrderInv
<1>1. ~lost /\ UNCHANGED <<scope, isDirty, widgets, unsaved>>
  BY DEF handlePageChange, ShowPage, EditorTypeOK
<1>2. Apart' /\ SavingApart'
  BY <1>1 DEF SavingApart
<1>3. Marked'
  BY <1>1 DEF Marked
<1>4. \A l \in lists' : scope = "all" => ~l.ofTeam
  BY <1>1 DEF InAll
<1>5. CASE NeedsConsent(d)
  <2>1. UNCHANGED <<page, ofTeam, loads, consent>> /\ asked'.of = "page"
    BY <1>5 DEF handlePageChange
  <2>2. Selected' = Selected
    BY <1>1, <2>1 DEF Selected, At
  <2>3. LoadsAreOfSelected' /\ ShownIsSelected' /\ AgreedLoads'
    BY <1>1, <2>1, <2>2 DEF LoadsAreOfSelected, ShownIsSelected, AgreedLoads
  <2>4. InAll'
    BY <1>1, <1>4, <2>1 DEF InAll
  <2> QED BY <1>2, <1>3, <2>3, <2>4
<1>6. CASE ~NeedsConsent(d)
  <2>1. page' = p /\ ofTeam' = t /\ s = scope /\ ~Refused(s, t) /\ loads' = {At(s, p)}
    BY <1>1, <1>6 DEF handlePageChange, ShowPage, EditorTypeOK
  <2>2. Selected' = At(s, p)
    BY <1>1, <2>1 DEF Selected
  <2>3. LoadsAreOfSelected' /\ ShownIsSelected'
    BY <2>1, <2>2 DEF LoadsAreOfSelected, ShownIsSelected
  <2>4. InAll'
    BY <1>1, <1>4, <2>1 DEF InAll, Refused, Pending
  <2>5. AgreedLoads'
    BY <1>1, <1>6 DEF AgreedLoads, NeedsConsent
  <2> QED BY <1>2, <1>3, <2>3, <2>4, <2>5
<1> QED BY <1>5, <1>6

\* Going to a scope, chosen or agreed to, when nothing is on its way.
LEMMA GoToScope ==
  ASSUME EditorInv, ~lost', NEW s \in Scope, s # scope, NEW p \in Page, ShowScope(s, p),
         UNCHANGED <<confirms, page, ofTeam, widgets, isDirty, offered, request, saving, stored,
                     unsaved>>,
         asked' = Stay, asked.of # "page",
         confirms /\ unsaved = "yes" => consent'
  PROVE  InOrderInv'
<1> USE DEF EditorInv, InOrderInv
<1>1. ~lost /\ loads = {} /\ lists = {} /\ p = page /\ scope' = s
  BY DEF ShowScope, Pending, EditorTypeOK
<1>2. lists' = {ListFor(s, page, ofTeam)} /\ page \in Page /\ ofTeam \in BOOLEAN
  BY <1>1 DEF ShowScope, EditorTypeOK
<1>3. \A l \in lists' : l.scope = s /\ l.ofTeam = ofTeam /\ l.dirty = isDirty
  BY <1>2, ListsOfPages
<1>4. scope # "all" => ~ofTeam /\ offered # "all"
  BY <1>1 DEF LeavingAll, OnTheWay
<1>5. scope = "all" => ofTeam
  BY <1>1 DEF InAll, Pending
<1>6. Apart' /\ SavingApart' /\ Marked' /\ AgreedLoads'
  BY <1>1, <1>3 DEF Apart, SavingApart, Marked, AgreedLoads
<1>7. loads' \subseteq {Selected'}
  BY <1>1 DEF ShowScope, Selected, At
<1>8. LoadsAreOfSelected' /\ ShownIsSelected'
  <2>1. CASE s = "all" \/ scope = "all"
    BY <1>1, <1>5, <1>7, <2>1 DEF ShowScope, LoadsAreOfSelected, ShownIsSelected
  <2>2. CASE s # "all" /\ scope # "all"
    BY <1>1, <1>7, <2>2 DEF ShowScope, LoadsAreOfSelected, ShownIsSelected
  <2> QED BY <2>1, <2>2
<1>9. LeavingAll'
  <2>1. asked'.of = "none"
    BY DEF Stay
  <2>2. OnTheWay' <=> ofTeam
    BY <1>2, <1>3 DEF OnTheWay
  <2> QED BY <1>1, <1>4, <1>5, <2>1, <2>2 DEF LeavingAll
<1>10. InAll'
  <2>1. s = "all" => loads' = {} /\ ~ofTeam
    BY <1>1, <1>4 DEF ShowScope
  <2> QED BY <1>1, <1>2, <1>3, <2>1 DEF InAll, Pending
<1> QED BY <1>6, <1>8, <1>9, <1>10

LEMMA EditorInvStep == EditorInv /\ [EditorNext]_editorVars => EditorInv'
<1> SUFFICES ASSUME EditorInv, [EditorNext]_editorVars PROVE EditorInv'
  OBVIOUS
<1> USE DEF EditorInv, serverVars
<1>0. EditorTypeOK'
  BY EditorTypesKept
<1>1. CASE LoadFirst
  <2> USE <1>1 DEF LoadFirst, Fresh
  <2> DEFINE mine == stored[<<"user", "default">>]
             ours == stored[<<"team", "default">>]
  <2>1. Fresh' /\ Asks'
    BY DEF Asks, Stay
  <2>2. ASSUME ~lost' PROVE InOrderInv'
    <3> USE <2>2 DEF InOrderInv
    <3>1. Apart' /\ SavingApart' /\ LoadsAreOfSelected' /\ AgreedLoads'
      BY DEF Apart, SavingApart, LoadsAreOfSelected, AgreedLoads
    <3>2. mine.of \in {<<"user", "default">>, Nowhere} /\ ours.of \in {<<"team", "default">>, Nowhere}
      BY LayoutsOfScope DEF Apart
    <3>3. ShownIsSelected'
      BY <3>2, WidgetsOfNothing DEF ShownIsSelected, Selected, At
    <3>4. \A l \in lists' : l.scope = scope' /\ l.dirty = isDirty
      BY <1>0, ListsOfPages DEF EditorTypeOK
    <3>5. LeavingAll' /\ InAll' /\ Marked'
      BY <3>4 DEF LeavingAll, InAll, Marked, Stay
    <3> QED BY <3>1, <3>3, <3>5
  <2> QED BY <1>0, <2>1, <2>2
<1>2. CASE LoadFirstFails
  BY <1>0, <1>2 DEF LoadFirstFails, Fresh, Asks
<1>3. CASE Edit
  <2> USE <1>3 DEF Edit
  <2>1. Fresh' /\ Asks'
    BY DEF Fresh, Asks
  <2>2. ASSUME ~lost' PROVE InOrderInv'
    <3> USE <2>2 DEF InOrderInv
    <3>1. ~lost /\ loads = {} /\ lists = {} /\ asked.of = "none" /\ Selected' = Selected
      BY DEF EditorTypeOK, Pending, Selected, At, Stay
    <3>2. scope # "all" => ~ofTeam /\ widgets.of \in {Selected, Nowhere}
      BY <3>1 DEF LeavingAll, OnTheWay, ShownIsSelected
    <3>3. scope # "all" => widgets'.of \in {Selected', Nowhere}
      BY <3>1, <3>2
    <3>4. Apart' /\ SavingApart' /\ Marked'
      BY <3>1 DEF Apart, SavingApart, Marked
    <3> QED BY <3>1, <3>2, <3>3, <3>4
            DEF LoadsAreOfSelected, ShownIsSelected, LeavingAll, OnTheWay, InAll, Pending, AgreedLoads
  <2> QED BY <1>0, <2>1, <2>2
<1>4. ASSUME NEW p \in Page, NEW t \in BOOLEAN, ChoosePage(p, t) PROVE EditorInv'
  <2> USE <1>4 DEF ChoosePage
  <2>1. scope \in Scope /\ isDirty \in BOOLEAN /\ UNCHANGED <<scope, isDirty>>
    BY DEF EditorTypeOK, handlePageChange
  <2>2. Fresh' /\ Asks'
    BY <2>1 DEF Fresh, Asks, handlePageChange, NeedsConsent
  <2>3. ASSUME ~lost' PROVE InOrderInv'
    <3> USE <2>3 DEF InOrderInv
    <3>1. ~lost
      BY DEF handlePageChange, ShowPage, EditorTypeOK
    <3>2. /\ Apart' /\ SavingApart' /\ LoadsAreOfSelected' /\ ShownIsSelected'
          /\ InAll' /\ Marked' /\ AgreedLoads'
      BY <2>1, <3>1, GoToPage DEF Apart, Marked
    <3>3. OnTheWay' <=> OnTheWay
      BY DEF OnTheWay
    <3>4. t => offered = "all"
      BY DEF Valid
    <3>5. LeavingAll'
      <4>1. CASE NeedsConsent(isDirty)
        <5>1. asked'.of = "page" /\ asked'.ofTeam = t /\ UNCHANGED ofTeam
          BY <4>1 DEF handlePageChange
        <5>2. \A l \in lists' : l.dirty
          BY <3>1, <4>1 DEF NeedsConsent, Marked
        <5> QED BY <2>1, <3>1, <3>3, <3>4, <5>1, <5>2 DEF LeavingAll
      <4>2. CASE ~NeedsConsent(isDirty)
        <5>1. asked' = Stay /\ ofTeam' = t
          BY <4>2 DEF handlePageChange, ShowPage
        <5> QED BY <2>1, <3>1, <3>3, <3>4, <5>1 DEF LeavingAll, Stay
      <4> QED BY <4>1, <4>2
    <3> QED BY <3>2, <3>5
  <2> QED BY <1>0, <2>2, <2>3
<1>5. ASSUME NEW s \in Scope, ChooseScope(s) PROVE EditorInv'
  <2> USE <1>5 DEF ChooseScope
  <2>1. Fresh' /\ Asks'
    BY DEF Fresh, Asks, NeedsConsent, Stay
  <2>2. ASSUME ~lost' PROVE InOrderInv'
    <3>1. CASE NeedsConsent(isDirty)
      <4>1. UNCHANGED <<scope, loads, lists, consent, lost>> /\ asked'.of = "scope" /\ asked.of = "none"
        BY <3>1 DEF Stay
      <4>2. Selected' = Selected
        BY <4>1 DEF Selected, At
      <4> QED BY <2>2, <4>1, <4>2
              DEF InOrderInv, Apart, SavingApart, LoadsAreOfSelected, ShownIsSelected, LeavingAll,
                  OnTheWay, InAll, Pending, Marked, AgreedLoads
    <3>2. CASE ~NeedsConsent(isDirty)
      <4>1. ShowScope(s, page) /\ asked' = Stay /\ asked.of = "none" /\ page \in Page
        BY <3>2 DEF Stay, EditorTypeOK
      <4>2. ~lost
        BY <2>2, <4>1 DEF ShowScope, EditorTypeOK
      <4>3. ~(confirms /\ unsaved = "yes")
        BY <3>2, <4>2 DEF InOrderInv, Marked, NeedsConsent
      <4> QED BY <2>2, <4>1, <4>3, GoToScope
    <3> QED BY <3>1, <3>2
  <2> QED BY <1>0, <2>1, <2>2
<1>6. CASE Discard
  <2> USE <1>6 DEF Discard
  <2>1. asked # Stay /\ asked \in Asking /\ asked.scope \in Scope /\ asked.page \in Page
        /\ asked.ofTeam \in BOOLEAN
    BY DEF EditorTypeOK, Stay, Asking
  <2>2. Fresh' /\ Asks'
    BY <2>1 DEF Fresh, Asks, Stay
  <2>3. ASSUME ~lost' PROVE InOrderInv'
    <3>1. CASE asked.of = "page" /\ ShowPage(asked.scope, asked.page, asked.ofTeam)
               /\ UNCHANGED <<scope, lists>>
      <4> USE <2>3, <3>1 DEF InOrderInv
      <4>1. /\ ~lost /\ asked.scope = scope /\ ~Refused(scope, asked.ofTeam)
            /\ loads' = {At(scope, asked.page)} /\ ofTeam' = asked.ofTeam /\ page' = asked.page
        BY DEF ShowPage, EditorTypeOK
      <4>2. Selected' = At(scope, asked.page)
        BY <4>1 DEF Selected
      <4>3. Apart' /\ SavingApart' /\ LoadsAreOfSelected' /\ ShownIsSelected' /\ AgreedLoads' /\ Marked'
        BY <4>1, <4>2
           DEF Apart, SavingApart, LoadsAreOfSelected, ShownIsSelected, AgreedLoads, Marked
      <4>4. OnTheWay' <=> OnTheWay
        BY DEF OnTheWay
      <4>5. LeavingAll'
        BY <4>1, <4>4 DEF LeavingAll, Stay
      <4>6. InAll'
        BY <4>1 DEF InAll, Refused, Pending
      <4> QED BY <4>3, <4>5, <4>6
    <3>2. CASE asked.of = "scope" /\ ShowScope(asked.scope, asked.page) /\ UNCHANGED <<page, ofTeam>>
      BY <2>1, <2>3, <3>2, GoToScope DEF Asks
    <3> QED BY <3>1, <3>2
  <2> QED BY <1>0, <2>2, <2>3
<1>7. CASE KeepEditing
  <2> USE <1>7 DEF KeepEditing
  <2>1. Fresh' /\ Asks'
    BY DEF Fresh, Asks, Stay
  <2>2. ASSUME ~lost' PROVE InOrderInv'
    <3>1. ~lost /\ Valid(scope, page, ofTeam) /\ Selected' = Selected /\ asked'.of = "none"
      BY <2>2 DEF EditorTypeOK, Selected, At, Stay
    <3>2. ofTeam <=> scope = "all"
      BY <3>1 DEF Valid, EditorTypeOK
    <3> QED BY <3>1, <3>2
            DEF InOrderInv, Apart, SavingApart, LoadsAreOfSelected, ShownIsSelected, LeavingAll,
                OnTheWay, InAll, Pending, Marked, AgreedLoads
  <2> QED BY <1>0, <2>1, <2>2
<1>8. ASSUME NEW l \in lists, Listed(l) PROVE EditorInv'
  <2> USE <1>8 DEF Listed
  <2>0. l.scope \in Scope /\ l.dirty \in BOOLEAN /\ (l.scope = "all") \in BOOLEAN /\ "default" \in Page
    BY LayoutsOfScope DEF EditorTypeOK, Listing
  <2>1. loaded /\ UNCHANGED <<scope, isDirty, unsaved>>
    BY DEF Fresh, handlePageChange
  <2>2. Fresh' /\ Asks'
    BY <2>1 DEF Fresh, Asks, handlePageChange, NeedsConsent
  <2>3. ASSUME ~lost' PROVE InOrderInv'
    <3> USE <2>3 DEF InOrderInv
    <3>1. ~lost
      BY DEF handlePageChange, ShowPage, EditorTypeOK
    <3>2. l.scope = scope /\ (isDirty => l.dirty)
      BY <3>1 DEF Marked
    <3>3. CASE Valid(l.scope, l.page, l.ofTeam)
      <4>1. UNCHANGED <<page, ofTeam, widgets, asked, loads, consent, lost>> /\ Selected' = Selected
        BY <2>1, <3>3 DEF Selected, At
      <4>2. l.ofTeam <=> scope = "all"
        BY <3>2, <3>3 DEF Valid, EditorTypeOK, Listing
      <4>3. LeavingAll'
        <5>1. scope # "all" => ~OnTheWay
          BY <4>2 DEF OnTheWay
        <5> QED BY <2>1, <3>1, <3>2, <4>1, <5>1 DEF LeavingAll
      <4>4. InAll'
        BY <2>1, <3>1, <4>1, <4>2 DEF InAll
      <4>5. Marked'
        BY <2>1, <3>1, <4>1 DEF Marked
      <4> QED BY <2>1, <3>1, <4>1, <4>3, <4>4, <4>5
              DEF Apart, SavingApart, LoadsAreOfSelected, ShownIsSelected, AgreedLoads
    <3>4. CASE ~Valid(l.scope, l.page, l.ofTeam)
      <4>1. handlePageChange(l.scope, l.dirty, "default", l.scope = "all")
        BY <3>4
      <4>2. unsaved = "yes" => l.dirty
        BY <3>1, <3>2 DEF Marked
      <4>3. /\ Apart' /\ SavingApart' /\ LoadsAreOfSelected' /\ ShownIsSelected'
            /\ InAll' /\ Marked' /\ AgreedLoads'
        BY <2>0, <4>1, <4>2, GoToPage DEF Apart
      <4>4. LeavingAll'
        <5> SUFFICES ASSUME scope # "all" PROVE LeavingAll'
          BY <2>1 DEF LeavingAll
        <5>1. offered' # "all"
          BY <3>2
        <5>2. CASE NeedsConsent(l.dirty)
          <6>0. (l.scope = "all") = FALSE
            BY <3>2
          <6>1. asked'.of = "page" /\ ~asked'.ofTeam
            <7>1. asked' = [of |-> "page", scope |-> l.scope, page |-> "default",
                            ofTeam |-> l.scope = "all"]
              BY <4>1, <5>2 DEF handlePageChange
            <7> QED BY <6>0, <7>1
          <6> QED BY <5>1, <6>1 DEF LeavingAll
        <5>3. CASE ~NeedsConsent(l.dirty)
          <6>1. ~ofTeam' /\ asked' = asked
            BY <3>2, <4>1, <5>3 DEF handlePageChange, ShowPage
          <6>2. ~(asked.of = "page" /\ asked.ofTeam /\ asked.scope # "all")
            BY <3>1, <5>3 DEF LeavingAll, NeedsConsent, Asks, Stay
          <6> QED BY <5>1, <6>1, <6>2 DEF LeavingAll
        <5> QED BY <5>2, <5>3
      <4> QED BY <4>3, <4>4
    <3> QED BY <3>3, <3>4
  <2> QED BY <1>0, <2>2, <2>3
<1>9. ASSUME NEW l \in lists, ListFails(l) PROVE EditorInv'
  BY <1>0, <1>9 DEF ListFails, Fresh, Asks
<1>10. ASSUME NEW k \in loads, LoadAnswer(k) PROVE EditorInv'
  <2> USE <1>10 DEF LoadAnswer
  <2>1. Fresh' /\ Asks'
    BY DEF Fresh, Asks
  <2>2. ASSUME ~lost' PROVE InOrderInv'
    <3> USE <2>2 DEF InOrderInv
    <3>1. ~lost /\ k = Selected /\ loads' = {} /\ Selected' = Selected /\ OnTheWay' = OnTheWay
      BY DEF LoadsAreOfSelected, Selected, At, OnTheWay
    <3>2. Selected \in Layout
      BY LayoutsOfScope DEF EditorTypeOK, Selected
    <3>3. ShownIsSelected'
      BY <3>1, <3>2 DEF Apart, ShownIsSelected
    <3>4. Apart' /\ SavingApart' /\ LoadsAreOfSelected' /\ AgreedLoads' /\ Marked'
      BY <3>1 DEF Apart, SavingApart, LoadsAreOfSelected, AgreedLoads, Marked
    <3>5. LeavingAll' /\ InAll'
      BY <3>1 DEF LeavingAll, InAll, Pending
    <3> QED BY <3>3, <3>4, <3>5
  <2> QED BY <1>0, <2>1, <2>2
<1>11. ASSUME NEW k \in loads, LoadFails(k) PROVE EditorInv'
  BY <1>0, <1>11 DEF LoadFails, Fresh, Asks
<1>12. CASE saveLayout
  <2> USE <1>12 DEF saveLayout
  <2>1. Fresh' /\ Asks'
    BY DEF Fresh, Asks
  <2>2. ASSUME ~lost' PROVE InOrderInv'
    <3> USE <2>2 DEF InOrderInv
    <3>1. ~lost /\ loads = {} /\ lists = {} /\ asked.of = "none" /\ Selected' = Selected
      BY DEF EditorTypeOK, Pending, Selected, At, Stay
    <3>2. widgets.of \in {Selected, Nowhere}
      BY <3>1 DEF LeavingAll, OnTheWay, ShownIsSelected
    <3>3. SavingApart' /\ Marked'
      BY <3>1, <3>2 DEF SavingApart, SaveAt, Marked
    <3> QED BY <3>1, <3>3
            DEF Apart, LoadsAreOfSelected, ShownIsSelected, LeavingAll, OnTheWay, InAll, Pending,
                AgreedLoads
  <2> QED BY <1>0, <2>1, <2>2
<1>13. CASE Saved
  <2> USE <1>13 DEF Saved
  <2>1. Fresh' /\ Asks'
    BY DEF Fresh, Asks
  <2>2. ASSUME ~lost' PROVE InOrderInv'
    <3> USE <2>2 DEF InOrderInv
    <3>1. ~lost /\ Selected' = Selected
      BY DEF Selected, At
    <3>2. Apart'
      BY <3>1 DEF Apart, SavingApart, EditorTypeOK
    <3>3. Marked' /\ AgreedLoads'
      BY <3>1 DEF Marked, AgreedLoads
    <3> QED BY <3>1, <3>2, <3>3
            DEF SavingApart, LoadsAreOfSelected, ShownIsSelected, LeavingAll, OnTheWay, InAll, Pending
  <2> QED BY <1>0, <2>1, <2>2
<1>14. ASSUME UNCHANGED <<confirms, loaded, scope, page, ofTeam, widgets, isDirty, asked, loads, lists,
                          offered, stored, consent, unsaved, lost>>,
              saving' \in {saving, NoSaving},
              request' \in {request, NoRequest} \/ (loaded /\ request'.dirty = isDirty)
       PROVE  EditorInv'
  <2>1. Fresh' /\ Asks'
    BY <1>14 DEF Fresh, Asks
  <2>2. Selected' = Selected
    BY <1>14 DEF Selected, At
  <2>3. Marked => Marked'
    BY <1>14 DEF Marked
  <2> QED BY <1>0, <1>14, <2>1, <2>2, <2>3
          DEF InOrderInv, Apart, SavingApart, LoadsAreOfSelected, ShownIsSelected, LeavingAll,
              OnTheWay, InAll, Pending, AgreedLoads
<1>15. CASE SaveFails \/ PageRequestFails
  BY <1>14, <1>15 DEF SaveFails, PageRequestFails
<1>16. CASE CreatePage \/ DeletePage
  <2>1. PICK what, k : SendPage(what, k)
    BY <1>16 DEF CreatePage, DeletePage
  <2> QED BY <1>14, <2>1 DEF SendPage
<1>17. ASSUME NEW p \in Page, PageCreated \/ PageDeleted,
              handlePageChange(request.at[1], request.dirty, p, FALSE),
              stored' \in {stored, [stored EXCEPT ![request.at] = Empty]}
       PROVE  EditorInv'
  <2>0. request \in PageRequest /\ request # NoRequest
    BY <1>17, RequestTyped
  <2>1. request \in PageRequest /\ request # NoRequest /\ request' = NoRequest
        /\ UNCHANGED <<confirms, loaded, lists, offered, saving>>
    BY <1>17, <2>0 DEF PageCreated, PageDeleted
  <2>2. request.at[1] \in Scope /\ request.dirty \in BOOLEAN /\ loaded
    BY <2>1 DEF PageRequest, Layout, Scope, Fresh
  <2>3. UNCHANGED <<scope, isDirty, widgets, unsaved>>
    BY <1>17 DEF handlePageChange
  <2>4. Fresh' /\ Asks'
    <3>1. Fresh'
      BY <2>1, <2>2 DEF Fresh
    <3>2. CASE NeedsConsent(request.dirty)
      <4>1. asked'.of = "page" /\ confirms
        BY <1>17, <3>2 DEF handlePageChange, NeedsConsent
      <4> QED BY <2>1, <3>1, <4>1 DEF Asks
    <3>3. CASE ~NeedsConsent(request.dirty)
      <4>1. asked' = asked
        BY <1>17, <3>3 DEF handlePageChange
      <4> QED BY <2>1, <2>3, <3>1, <4>1 DEF Asks
    <3> QED BY <3>2, <3>3
  <2>5. ASSUME ~lost' PROVE InOrderInv'
    <3> USE <2>5 DEF InOrderInv
    <3>1. ~lost
      BY <1>17 DEF handlePageChange, ShowPage, EditorTypeOK
    <3>2. Apart'
      BY <1>17, <3>1, WidgetsOfNothing DEF Apart, EditorTypeOK
    <3>3. /\ Apart' /\ SavingApart' /\ LoadsAreOfSelected' /\ ShownIsSelected'
          /\ InAll' /\ Marked' /\ AgreedLoads'
      <4>1. unsaved = "yes" => request.dirty
        BY <2>1, <3>1 DEF Marked
      <4> QED BY <1>17, <2>1, <2>2, <3>2, <4>1, GoToPage
    <3>4. OnTheWay' = OnTheWay
      BY <2>1 DEF OnTheWay
    <3>5. LeavingAll'
      <4>1. CASE NeedsConsent(request.dirty)
        <5>1. asked'.of = "page" /\ ~asked'.ofTeam
          BY <1>17, <4>1 DEF handlePageChange
        <5> QED BY <2>1, <2>3, <3>1, <3>4, <5>1 DEF LeavingAll
      <4>2. CASE ~NeedsConsent(request.dirty)
        <5>1. ~ofTeam' /\ asked' = asked
          BY <1>17, <4>2 DEF handlePageChange, ShowPage
        <5> QED BY <2>1, <2>3, <3>1, <3>4, <5>1 DEF LeavingAll
      <4> QED BY <4>1, <4>2
    <3> QED BY <3>3, <3>5
  <2> QED BY <1>0, <2>4, <2>5
<1>18. CASE PageCreated
  <2>1. request.at[2] \in Page
    BY <1>18 DEF PageCreated, EditorTypeOK, NoRequest, PageRequest, Layout
  <2> QED BY <1>17, <1>18, <2>1 DEF PageCreated
<1>19. CASE PageDeleted
  BY <1>17, <1>19, LayoutsOfScope DEF PageDeleted
<1>20. CASE UNCHANGED editorVars
  BY <1>14, <1>20 DEF editorVars
<1> QED BY <1>1, <1>2, <1>3, <1>4, <1>5, <1>6, <1>7, <1>8, <1>9, <1>10, <1>11, <1>12, <1>13,
           <1>15, <1>16, <1>18, <1>19, <1>20 DEF EditorNext

LEMMA EditorInvAlways == EditorSpec => []EditorInv
<1> QED BY EditorInvInit, EditorInvStep, PTL DEF EditorSpec

\* A page never holds widgets that were put together on another one, as long as
\* nothing happened that `lost' records: a fetch that failed, was overtaken,
\* outrun or made for a scope that had been left, or a stay on a page that the
\* scope does not have.
THEOREM NoForeignWidgets == EditorSpec => []LayoutsStayApart
<1>1. EditorInv => LayoutsStayApart
  BY DEF EditorInv, InOrderInv, LayoutsStayApart, Apart
<1> QED BY <1>1, EditorInvAlways, PTL

\* Item Graphs gives up an edit only when the user agreed or a save carried it,
\* unless it fell into a save or a request for a page, or `lost' says why.
THEOREM AskedBeforeDiscarding == EditorSpec => DiscardedByConsent
<1>1. EditorInv /\ [EditorNext]_editorVars =>
        [confirms /\ ~lost /\ unsaved = "yes" /\ widgets' # widgets /\ edits' = edits
           => consent]_editorVars
  <2> SUFFICES ASSUME EditorInv, EditorNext, confirms, ~lost, unsaved = "yes", widgets' # widgets,
                      edits' = edits
               PROVE  consent
    BY DEF editorVars
  <2>1. loaded
    BY DEF EditorInv, Fresh
  <2>2. ~Edit
    <3>1. edits \in Nat
      BY EditAssumption DEF EditorInv, EditorTypeOK
    <3>2. Edit => edits' = edits + 1
      BY DEF Edit
    <3> QED BY <3>1, <3>2
  <2>3. ASSUME NEW k \in loads, LoadAnswer(k) PROVE consent
    BY <2>3 DEF EditorInv, InOrderInv, AgreedLoads
  <2> QED BY <2>1, <2>2, <2>3
          DEF EditorNext, LoadFirst, LoadFirstFails, ChoosePage, ChooseScope, handlePageChange, Discard,
              KeepEditing, Listed, ListFails, LoadFails, saveLayout, Saved, SaveFails, CreatePage,
              DeletePage, SendPage, PageCreated, PageDeleted, PageRequestFails
<1> QED BY <1>1, EditorInvAlways, PTL DEF EditorSpec, DiscardedByConsent

-----------------------------------------------------------------------------
(* Types of forms, editor and views *)

LEMMA VisibleOfRole ==
  ASSUME NEW t, NEW s \in UI_SECTIONS
  PROVE  visibleItemNames(t) \subseteq Elements /\ VisibleItems(s, t) \subseteq Elements
BY DEF visibleItemNames, VisibleItems, Elements

LEMMA DefaultRoleType == DefaultRole \in [type : 1..3, access : SUBSET Elements]
<1>1. 1 \in 1..3 /\ Elements \in SUBSET Elements
  OBVIOUS
<1> QED BY <1>1, Zenon DEF DefaultRole

LEMMA FormsTypesKept ==
  ASSUME FormsTypeOK, ProxyInv', [FormsNext]_formVars
  PROVE  FormsTypeOK'
<1> USE DEF FormsTypeOK
<1>1. ASSUME UNCHANGED roleVars, editing' \in {"no", "add", "edit"}, fit' \in BOOLEAN
      PROVE  FormsTypeOK'
  BY <1>1 DEF roleVars, ProxyInv
<1>2. ASSUME UNCHANGED proxyVars, role' \in [type : 1..3, access : SUBSET Elements],
             roleOpen' \in BOOLEAN, sentRole' \in RolePayload
      PROVE  FormsTypeOK'
  BY <1>2 DEF proxyVars, ProxyInv
<1>3. CASE ProxyNext
  <2>1. UNCHANGED roleVars /\ editing' \in {"no", "add", "edit"} /\ fit' \in BOOLEAN
    BY <1>3 DEF ProxyNext, OpenProxy, CancelProxy, ProxyTabGeneral, ProxyTabEncryption,
       FillAddresses, set, create_proxy, update_proxy, OtherKey
  <2> QED BY <1>1, <2>1
<1>4. CASE OpenRole \/ CancelRole
  <2>1. role' \in {role, DefaultRole} /\ roleOpen' \in BOOLEAN /\ UNCHANGED <<sentRole, proxyVars>>
    BY <1>4 DEF OpenRole, CancelRole
  <2> QED BY <1>2, <2>1, DefaultRoleType
<1>5. ASSUME NEW t \in 1..3, PickType(t) PROVE FormsTypeOK'
  BY <1>2, <1>5 DEF PickType
<1>6. ASSUME NEW items \in SUBSET Elements, NEW on \in BOOLEAN, toggle(items, on) PROVE FormsTypeOK'
  BY <1>2, <1>6 DEF toggle
<1>7. ASSUME NEW on \in BOOLEAN, NEW i \in Elements, toggleUi(i, on) PROVE FormsTypeOK'
  BY <1>6, <1>7 DEF toggleUi
<1>8. ASSUME NEW on \in BOOLEAN, NEW s \in UI_SECTIONS, toggleSection(s, on) PROVE FormsTypeOK'
  BY <1>6, <1>8, VisibleOfRole DEF toggleSection
<1>9. CASE CreateRole
  <2> DEFINE seen == visibleItemNames(role.type)
  <2>1. seen \subseteq Elements
    BY VisibleOfRole DEF visibleItemNames, Elements
  <2>2. sentRole' = [type |-> role.type, allowed |-> seen \cap role.access,
                     denied |-> seen \ role.access]
    BY <1>9 DEF CreateRole
  <2> HIDE DEF seen
  <2>3. sentRole' \in RolePayload
    BY <2>1, <2>2 DEF RolePayload
  <2>4. role' = DefaultRole /\ roleOpen' = FALSE /\ UNCHANGED proxyVars
    BY <1>9 DEF CreateRole
  <2> QED BY <1>2, <2>3, <2>4, DefaultRoleType
<1>10. CASE UNCHANGED formVars
  BY <1>1, <1>10 DEF formVars, proxyVars
<1> QED BY <1>3, <1>4, <1>5, <1>7, <1>8, <1>9, <1>10 DEF FormsNext, RoleNext

LEMMA ViewsTypesInit == MCInit => FormsTypeOK /\ ProxyInv /\ EditorTypeOK /\ LookupInv
<1> SUFFICES ASSUME MCInit PROVE FormsTypeOK /\ ProxyInv /\ EditorTypeOK /\ LookupInv
  OBVIOUS
<1> USE GroupAssumption, EditAssumption DEF MCInit
<1>1. NewProxy \in ProxyRow
  BY DEF NewProxy, ProxyRow, Security, Keys
<1>2. ProxyInv
  <2>1. ~UsesPsk(NewProxy) /\ ZabbixAccepts(NewProxy) /\ NewProxy.key = ""
    BY DEF NewProxy, UsesPsk, ZabbixAccepts
  <2> QED BY <1>1, <2>1 DEF FormsInit, ProxyInit, ProxyInv
<1>3. FormsTypeOK
  <2>1. NoRole \in RolePayload
    BY DEF NoRole, RolePayload
  <2> QED BY <1>1, <2>1, DefaultRoleType DEF FormsInit, RoleInit, ProxyInit, FormsTypeOK
<1>4. EditorTypeOK
  BY EditorInvInit DEF EditorInv
<1> QED BY <1>2, <1>3, <1>4, LookupInvInit

\* Whatever is filled in, edited or looked up, forms, layouts and views hold
\* what they may.
THEOREM ViewsTypes == MCSpec => []ViewsTypeOK
<1> DEFINE Inv == FormsTypeOK /\ ProxyInv /\ EditorTypeOK /\ LookupInv
<1>1. Inv /\ [MCNext]_<<formVars, editorVars, lookupVars>> => Inv'
  <2> SUFFICES ASSUME Inv, [MCNext]_<<formVars, editorVars, lookupVars>>
               PROVE  Inv'
    OBVIOUS
  <2>1. [FormsNext]_formVars /\ [EditorNext]_editorVars /\ [LookupNext]_lookupVars
    BY DEF MCNext, AdminStep, EditorStep, FormsNext
  <2>2. ProxyInv' /\ LookupInv'
    BY <2>1, ProxyStep, LookupStep
  <2> QED
    BY <2>1, <2>2, FormsTypesKept, EditorTypesKept
<1>2. Inv => ViewsTypeOK
  BY DEF ViewsTypeOK, LookupInv
<1> QED
  BY <1>1, <1>2, ViewsTypesInit, PTL DEF MCSpec
=============================================================================
