----------------------------- MODULE AdminForms -----------------------------
(***************************************************************************)
(* Two forms whose fields come and go with a choice made in them: the role *)
(* form, where the type of the role decides which elements of the Zabbix   *)
(* frontend it may open, and the proxy form, where mode, group and         *)
(* encryption decide which fields are shown.  What was filled in stays in  *)
(* the form when its field goes, and the writer has to leave it out.       *)
(***************************************************************************)
EXTENDS FiniteSets, Integers

CONSTANT Group   \* proxy groups

ASSUME GroupAssumption == "none" \notin Group

-----------------------------------------------------------------------------
(* Roles *)

Item(name, min) == [name |-> name, min |-> min]
\* One section and one element of each kind: with a least role type of its own
\* or of its section, or of neither (1).
UI_SECTIONS ==
  {[min |-> 1, items |-> {Item("problems", 1), Item("discovery", 2)}],
   [min |-> 1, items |-> {Item("availability", 1), Item("notifications", 2), Item("audit_log", 3)}],
   [min |-> 2, items |-> {Item("host_groups", 1)}],
   [min |-> 3, items |-> {Item("user_roles", 1)}]}
Elements == UNION {s.items : s \in UI_SECTIONS}

\* The least role type for which Zabbix accepts a rule on an element.
ZabbixMin ==
  [problems |-> 1, discovery |-> 2, availability |-> 1, notifications |-> 2, audit_log |-> 3,
   host_groups |-> 2, user_roles |-> 3]

isMinTypeMet(min, type) == type >= min
visibleItemNames(type) ==
  UNION {{i \in s.items : isMinTypeMet(i.min, type)} :
           s \in {u \in UI_SECTIONS : isMinTypeMet(u.min, type)}}
\* What the dialog renders looks at the elements only.
VisibleItems(s, type) == {i \in s.items : isMinTypeMet(i.min, type)}
Rendered(type) == UNION {VisibleItems(s, type) : s \in UI_SECTIONS}

DefaultRole == [type |-> 1, access |-> Elements]
NoRole == [type |-> 0, allowed |-> {}, denied |-> {}]
RolePayload == [type : 0..3, allowed : SUBSET Elements, denied : SUBSET Elements]

-----------------------------------------------------------------------------
(* Proxies *)

Security == {"no", "psk", "cert"}
Keys == {"", "old", "new"}
ProxyRow ==
  [mode : {"active", "passive"}, group : Group \cup {"none"}, connect : Security,
   accept : SUBSET Security, key : Keys]
NewProxy == [mode |-> "active", group |-> "none", connect |-> "no", accept |-> {"no"}, key |-> ""]
\* Seeded bug: the key is shown masked.
proxyFormMasked(p) == [p EXCEPT !.key = "******"]
\* The form of a row holds everything but the key, which Zabbix never returns.
proxyFormFromExisting(p) == [p EXCEPT !.key = ""]
UsesPsk(p) == IF p.mode = "active" THEN "psk" \in p.accept ELSE p.connect = "psk"
showPsk(p) ==
  \/ p.mode = "passive" /\ p.connect # "no" /\ p.connect = "psk"
  \/ p.mode = "active" /\ "psk" \in p.accept

VARIABLES
  role,       \* the role form
  roleOpen,
  sentRole,   \* the last role that was sent to Zabbix
  proxy,      \* the proxy at Zabbix
  form,       \* the proxy form
  editing,    \* the dialog that shows it: "no", "add" or "edit"
  fit         \* local address, and for a passive proxy address and port, are filled

roleVars == <<role, roleOpen, sentRole>>
proxyVars == <<proxy, form, editing, fit>>
formVars == <<roleVars, proxyVars>>

FormsTypeOK ==
  /\ role \in [type : 1..3, access : SUBSET Elements]
  /\ roleOpen \in BOOLEAN
  /\ sentRole \in RolePayload
  /\ proxy \in ProxyRow /\ form \in ProxyRow
  /\ editing \in {"no", "add", "edit"}
  /\ fit \in BOOLEAN

RoleInit == role = DefaultRole /\ roleOpen = FALSE /\ sentRole = NoRole
ProxyInit ==
  /\ proxy = NewProxy /\ form = NewProxy
  /\ editing = "no" /\ fit = FALSE
FormsInit == RoleInit /\ ProxyInit

-----------------------------------------------------------------------------
OpenRole ==
  /\ ~roleOpen
  /\ roleOpen' = TRUE /\ role' = DefaultRole
  /\ UNCHANGED <<sentRole, proxyVars>>

CancelRole ==
  /\ roleOpen
  /\ roleOpen' = FALSE
  /\ UNCHANGED <<role, sentRole, proxyVars>>

\* Elements of the old type keep their switches, shown or not.
PickType(t) ==
  /\ roleOpen
  /\ role' = [role EXCEPT !.type = t]
  /\ UNCHANGED <<roleOpen, sentRole, proxyVars>>

toggle(items, on) ==
  /\ roleOpen
  /\ role' = [role EXCEPT !.access = IF on THEN @ \cup items ELSE @ \ items]
  /\ UNCHANGED <<roleOpen, sentRole, proxyVars>>
toggleUi(i, on) == i \in Rendered(role.type) /\ toggle({i}, on)
toggleSection(s, on) ==
  /\ VisibleItems(s, role.type) # {}
  /\ toggle(VisibleItems(s, role.type), on)

\* A success closes the dialog and starts the form anew.
CreateRole ==
  /\ roleOpen
  /\ sentRole' = [type |-> role.type, allowed |-> visibleItemNames(role.type) \cap role.access,
                  denied |-> visibleItemNames(role.type) \ role.access]
  /\ roleOpen' = FALSE /\ role' = DefaultRole
  /\ UNCHANGED proxyVars

-----------------------------------------------------------------------------
OpenProxy(how) ==
  /\ editing = "no"
  /\ editing' = how
  /\ form' = IF how = "edit" THEN proxyFormFromExisting(proxy) ELSE NewProxy
  /\ fit' = (how = "edit")
  /\ UNCHANGED <<proxy, roleVars>>

CancelProxy ==
  /\ editing # "no"
  /\ editing' = "no"
  /\ UNCHANGED <<proxy, form, fit, roleVars>>

set(f) ==
  /\ editing # "no"
  /\ form' = f
  /\ UNCHANGED <<proxy, editing, fit, roleVars>>
ProxyTabGeneral ==
  \/ \E m \in {"active", "passive"} : set([form EXCEPT !.mode = m])
  \/ \E g \in Group \cup {"none"} : set([form EXCEPT !.group = g])
ProxyTabEncryption ==
  \/ form.mode = "active" /\ \E a \in SUBSET Security : set([form EXCEPT !.accept = a])
  \/ form.mode = "passive" /\ \E c \in Security : set([form EXCEPT !.connect = c])
  \/ showPsk(form) /\ \E k \in {"", "new"} : set([form EXCEPT !.key = k])
FillAddresses ==
  /\ editing # "no" /\ ~fit
  /\ fit' = TRUE
  /\ UNCHANGED <<proxy, form, editing, roleVars>>

canSubmitProxyForm == fit \/ (form.mode = "active" /\ form.group = "none")

\* Seeded bug: a blank key is sent.
KeyAsTyped(f, p) == IF UsesPsk(f) THEN f.key ELSE ""
\* The parameters of the two modes: a blank key is left out.
KeyAfter(f, p) == IF UsesPsk(f) THEN IF f.key = "" THEN p.key ELSE f.key ELSE ""
_active_proxy_tls_params(f, p) == [p EXCEPT !.accept = f.accept, !.key = KeyAfter(f, p)]
_passive_proxy_tls_params(f, p) == [p EXCEPT !.connect = f.connect, !.key = KeyAfter(f, p)]
\* What proxy p becomes: what is not sent stays as it is, and so does the
\* group where the form names none.
_build_proxy_params(f, p) ==
  LET general == [p EXCEPT !.mode = f.mode,
                           !.group = IF f.group # "none" THEN f.group ELSE @]
  IN  IF f.mode = "passive" THEN _passive_proxy_tls_params(f, general)
      ELSE _active_proxy_tls_params(f, general)

\* Zabbix refuses a proxy with no way to connect and a PSK without a key.
ZabbixAccepts(p) ==
  /\ p.mode = "active" => p.accept # {}
  /\ UsesPsk(p) => p.key # ""

\* The key of a new proxy is the old one from then on.
create_proxy ==
  /\ editing = "add" /\ canSubmitProxyForm
  /\ LET p == _build_proxy_params(form, NewProxy)
     IN  ZabbixAccepts(p) /\ proxy' = [p EXCEPT !.key = IF UsesPsk(p) THEN "old" ELSE ""]
  /\ editing' = "no"
  /\ UNCHANGED <<form, fit, roleVars>>

update_proxy ==
  /\ editing = "edit" /\ canSubmitProxyForm
  /\ ZabbixAccepts(_build_proxy_params(form, proxy))
  /\ proxy' = _build_proxy_params(form, proxy)
  /\ editing' = "no"
  /\ UNCHANGED <<form, fit, roleVars>>

\* In Zabbix an administrator replaces the key.
OtherKey ==
  /\ UsesPsk(proxy)
  /\ proxy' = [proxy EXCEPT !.key = "new"]
  /\ UNCHANGED <<form, editing, fit, roleVars>>

RoleNext ==
  \/ OpenRole \/ CancelRole \/ CreateRole
  \/ \E t \in 1..3 : PickType(t)
  \/ \E on \in BOOLEAN : \/ \E i \in Elements : toggleUi(i, on)
                         \/ \E s \in UI_SECTIONS : toggleSection(s, on)
ProxyNext ==
  \/ \E how \in {"add", "edit"} : OpenProxy(how)
  \/ CancelProxy \/ ProxyTabGeneral \/ ProxyTabEncryption \/ FillAddresses
  \/ create_proxy \/ update_proxy \/ OtherKey
FormsNext == RoleNext \/ ProxyNext

FormsSpec == FormsInit /\ [][FormsNext]_formVars

-----------------------------------------------------------------------------
\* Zabbix rejects a rule on an element the role's type may not have, and the
\* whole role with it: none is sent, whatever the form went through.
RoleAccepted ==
  \A i \in sentRole.allowed \cup sentRole.denied : ZabbixMin[i.name] <= sentRole.type

\* An edit that leaves the form as it was opened is accepted and changes
\* nothing, neither the key the form never held ("blank on update keeps the
\* existing key") nor what belongs to the mode the proxy is not in.
UntouchedEditKeeps ==
  editing = "edit" /\ form = proxyFormFromExisting(proxy) =>
    ZabbixAccepts(proxy) /\ _build_proxy_params(form, proxy) = proxy
=============================================================================
