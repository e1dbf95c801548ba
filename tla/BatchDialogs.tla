---------------------------- MODULE BatchDialogs ----------------------------
(***************************************************************************)
(* Dialogs that save a whole selection at once: hosts, host groups and     *)
(* members of a team on the page of the teams, and new alert rules, one    *)
(* per selected item.                                                      *)
(*                                                                         *)
(* The requests of a batch run in parallel.  The first failure is reported *)
(* and leaves the dialog open with its selection, while the others of the  *)
(* batch run on; nothing is undone.  The dialogs of a team have no busy    *)
(* flag: a second click sends the selection again.                         *)
(***************************************************************************)
EXTENDS Naturals, FiniteSets

CONSTANTS
  Team,      \* teams
  Thing,     \* what a team can be given: hosts, host groups or members
  Folder,    \* host groups, in which hosts can be selected together
  RuleHost,  \* hosts, in the dialog of the rules
  Metric,    \* the items of a host
  MaxBatch,  \* batches whose requests are in flight at one time (a bound)
  MaxListing \* loads of the items of one host in flight (a bound)

ASSUME BatchAssumption ==
  /\ MaxBatch \in Nat /\ MaxListing \in Nat
  /\ "shut" \notin Team /\ "none" \notin RuleHost
  /\ Thing \cap Folder = {}

Slot == 1..MaxBatch

-----------------------------------------------------------------------------
(* The dialogs of a team.  Closing one clears its selection, and so does   *)
(* opening most.  Hosts can be selected by their groups besides.           *)
AssignHosts == [gives |-> "hosts", opensEmpty |-> TRUE]
AssignGroups == [gives |-> "groups", opensEmpty |-> TRUE]
AddMembers == [gives |-> "members", opensEmpty |-> FALSE]
Kinds == {AssignHosts, AssignGroups, AddMembers}
NoKind == [gives |-> "none", opensEmpty |-> FALSE]

VARIABLES
  kind,     \* the dialog
  target,   \* the team it is open for, or "shut"
  picked,   \* the selection
  folders,  \* the host groups in it
  within,   \* the hosts of each group that the team lacks, as last loaded
  batches,  \* what is in flight
  stored,   \* what each team has been given
  chosen,   \* history: what was ever selected for a team
  held      \* history: the hosts a group was ever shown with

giveVars == <<kind, target, picked, folders, within, batches, stored, chosen, held>>

Batch == [for : Team \cup {"shut"}, todo : SUBSET Thing, ok : BOOLEAN]
NoBatch == [for |-> "shut", todo |-> {}, ok |-> FALSE]

GiveTypeOK ==
  /\ kind \in Kinds \cup {NoKind}
  /\ target \in Team \cup {"shut"}
  /\ picked \subseteq Thing /\ folders \subseteq Folder
  /\ within \in [Folder -> SUBSET Thing] /\ held \in [Folder -> SUBSET Thing]
  /\ batches \in [Slot -> Batch]
  /\ stored \in [Team -> SUBSET Thing]
  /\ chosen \in [Team -> SUBSET (Thing \cup Folder)]

GiveInit ==
  /\ kind = NoKind
  /\ target = "shut" /\ picked = {} /\ folders = {}
  /\ within = [f \in Folder |-> {}] /\ held = within
  /\ batches = [n \in Slot |-> NoBatch]
  /\ stored = [t \in Team |-> {}] /\ chosen = [t \in Team |-> {}]

MountBatch(k) ==
  /\ kind = NoKind /\ kind' = k
  /\ UNCHANGED <<target, picked, folders, within, batches, stored, chosen, held>>

\* The page is loaded, at any time: groups have other hosts.
LoadPage(w) ==
  /\ kind.gives = "hosts" /\ within' = w
  /\ held' = [f \in Folder |-> held[f] \cup w[f]]
  /\ UNCHANGED <<kind, target, picked, folders, batches, stored, chosen>>

OpenFor(t) ==
  /\ kind # NoKind /\ target = "shut"
  /\ target' = t
  /\ picked' = IF kind.opensEmpty THEN {} ELSE picked
  /\ UNCHANGED <<kind, folders, within, batches, stored, chosen, held>>

Toggled(x, s) == IF x \in s THEN s \ {x} ELSE s \cup {x}

Pick(x) ==
  /\ target # "shut" /\ picked' = Toggled(x, picked)
  /\ chosen' = [chosen EXCEPT ![target] = @ \cup {x}]
  /\ UNCHANGED <<kind, target, folders, within, batches, stored, held>>

PickFolder(f) ==
  /\ target # "shut" /\ kind.gives = "hosts" /\ folders' = Toggled(f, folders)
  /\ chosen' = [chosen EXCEPT ![target] = @ \cup {f}]
  /\ UNCHANGED <<kind, target, picked, within, batches, stored, held>>

\* Seeded bug: the selection stays.
PickedKept == picked
\* What closing a dialog leaves of the selection.
PickedAfter == {}

\* Cancelled, or closed by a success.
Shut == target' = "shut" /\ picked' = PickedAfter /\ folders' = {}

CancelBatch ==
  /\ target # "shut" /\ Shut
  /\ UNCHANGED <<kind, within, batches, stored, chosen, held>>

\* The hosts of a selected group are looked up when the selection is sent.
Selection == picked \cup UNION {within[f] : f \in folders}

SendBatch(n) ==
  /\ target # "shut" /\ Selection # {} /\ batches[n] = NoBatch
  /\ batches' = [batches EXCEPT ![n] = [for |-> target, todo |-> Selection, ok |-> TRUE]]
  /\ UNCHANGED <<kind, target, picked, folders, within, stored, chosen, held>>

\* A batch without one of its requests; a failed one ends with its last.
Without(b, x, ok) ==
  IF ~ok /\ b.todo \subseteq {x} THEN NoBatch ELSE [b EXCEPT !.todo = @ \ {x}, !.ok = ok]
Given(n, x) == [stored EXCEPT ![batches[n].for] = @ \cup {x}]

\* What the team has already stays its own once.
AddThing(n, x) ==
  /\ x \in batches[n].todo
  /\ stored' = Given(n, x)
  /\ batches' = [batches EXCEPT ![n] = Without(@, x, @.ok)]
  /\ UNCHANGED <<kind, target, picked, folders, within, chosen, held>>

\* A request fails, before the server performs it or after: a toast.
RequestFails(n, x) ==
  /\ x \in batches[n].todo
  /\ stored' \in {stored, Given(n, x)}
  /\ batches' = [batches EXCEPT ![n] = Without(@, x, FALSE)]
  /\ UNCHANGED <<kind, target, picked, folders, within, chosen, held>>

\* All requests have succeeded: the dialog closes, whatever team it is open for.
BatchDone(n) ==
  /\ batches[n].ok /\ batches[n].todo = {}
  /\ batches' = [batches EXCEPT ![n] = NoBatch]
  /\ Shut
  /\ UNCHANGED <<kind, within, stored, chosen, held>>

GiveNext ==
  \/ \E k \in Kinds : MountBatch(k)
  \/ \E w \in [Folder -> SUBSET Thing] : LoadPage(w)
  \/ \E t \in Team : OpenFor(t)
  \/ \E x \in Thing : Pick(x)
  \/ \E f \in Folder : PickFolder(f)
  \/ CancelBatch
  \/ \E n \in Slot : SendBatch(n) \/ BatchDone(n)
  \/ \E n \in Slot, x \in Thing : AddThing(n, x) \/ RequestFails(n, x)

-----------------------------------------------------------------------------
(* The dialog of new alert rules.  The host is chosen inside it; the items *)
(* of the host before, and those chosen of them, stay until the answer is  *)
(* there, and Create rule takes them.                                      *)
VARIABLES
  ruleOpen,     \* the dialog is open
  selectedHost, \* or "none"
  ruleItems,    \* the items listed
  selectedItems,
  itemsLoading, \* their spinner
  listing,      \* loads of the items in flight, by host
  creating,     \* the busy flag
  adding,       \* batches of rules in flight
  rules,        \* rules made: a host, and an item
  overtaken,    \* history: an answer for another host came last
  loose,        \* history: rules asked for before the items of their host were there
  sent,         \* history: items sent since the dialog was opened
  ruleFailed    \* history: a request failed since then

ruleVars == <<ruleOpen, selectedHost, ruleItems, selectedItems, itemsLoading, listing, creating,
              adding, rules, overtaken, loose, sent, ruleFailed>>

AnyItem == RuleHost \X Metric
ItemsOf(h) == {h} \X Metric
Rule == RuleHost \X AnyItem
RuleBatch == [rules : SUBSET Rule, ok : BOOLEAN, idle : BOOLEAN]
NoRules == [rules |-> {}, ok |-> FALSE, idle |-> TRUE]

RuleTypeOK ==
  /\ ruleOpen \in BOOLEAN /\ selectedHost \in RuleHost \cup {"none"}
  /\ ruleItems \subseteq AnyItem /\ selectedItems \subseteq AnyItem
  /\ itemsLoading \in BOOLEAN /\ creating \in BOOLEAN
  /\ listing \in [RuleHost -> 0..MaxListing]
  /\ adding \in [Slot -> RuleBatch]
  /\ rules \subseteq Rule /\ loose \subseteq Rule
  /\ overtaken \in BOOLEAN /\ sent \subseteq AnyItem /\ ruleFailed \in BOOLEAN

RuleInit ==
  /\ ruleOpen = FALSE /\ selectedHost = "none"
  /\ ruleItems = {} /\ selectedItems = {} /\ itemsLoading = FALSE
  /\ listing = [h \in RuleHost |-> 0]
  /\ creating = FALSE /\ adding = [n \in Slot |-> NoRules]
  /\ rules = {} /\ overtaken = FALSE /\ loose = {} /\ sent = {} /\ ruleFailed = FALSE

requestSide == <<listing, itemsLoading, creating, adding, rules, loose>>

\* What was loading or being created when it was closed still is.
OpenRules ==
  /\ ~ruleOpen /\ ruleOpen' = TRUE
  /\ selectedHost' = "none" /\ ruleItems' = {} /\ selectedItems' = {}
  /\ overtaken' = FALSE /\ sent' = {} /\ ruleFailed' = FALSE
  /\ UNCHANGED requestSide

CloseRules ==
  /\ ruleOpen /\ ruleOpen' = FALSE
  /\ UNCHANGED <<selectedHost, ruleItems, selectedItems, overtaken, sent, ruleFailed, requestSide>>

SelectHost(h) ==
  /\ ruleOpen /\ h # selectedHost /\ listing[h] < MaxListing
  /\ selectedHost' = h /\ itemsLoading' = TRUE
  /\ listing' = [listing EXCEPT ![h] = @ + 1]
  /\ UNCHANGED <<ruleOpen, ruleItems, selectedItems, creating, adding, rules, overtaken, loose,
                 sent, ruleFailed>>

\* The answer that comes last is the one that is shown.
ItemsListed(h) ==
  /\ listing[h] > 0 /\ listing' = [listing EXCEPT ![h] = @ - 1]
  /\ ruleItems' = ItemsOf(h) /\ selectedItems' = {} /\ itemsLoading' = FALSE
  /\ overtaken' = (h # selectedHost)
  /\ UNCHANGED <<ruleOpen, selectedHost, creating, adding, rules, loose, sent, ruleFailed>>

\* No items are listed, but those that were chosen stay so.
ItemsNotListed(h) ==
  /\ listing[h] > 0 /\ listing' = [listing EXCEPT ![h] = @ - 1]
  /\ ruleItems' = {} /\ itemsLoading' = FALSE /\ overtaken' = FALSE
  /\ UNCHANGED <<ruleOpen, selectedHost, selectedItems, creating, adding, rules, loose, sent,
                 ruleFailed>>

toggleItem(i) ==
  /\ ruleOpen /\ selectedHost # "none" /\ ~itemsLoading /\ i \in ruleItems
  /\ selectedItems' = Toggled(i, selectedItems)
  /\ UNCHANGED <<ruleOpen, selectedHost, ruleItems, overtaken, sent, ruleFailed, requestSide>>

\* Where none of the chosen items is listed, nothing is asked for, with success.
Asked == selectedItems \cap ruleItems
RulesAsked == {selectedHost} \X Asked

addItemRule(n) ==
  /\ ruleOpen /\ ~creating /\ selectedItems # {} /\ selectedHost # "none"
  /\ adding[n].idle
  /\ adding' = [adding EXCEPT ![n] = [rules |-> RulesAsked, ok |-> TRUE, idle |-> FALSE]]
  /\ creating' = TRUE /\ sent' = sent \cup Asked
  /\ loose' = loose \cup IF listing[selectedHost] > 0 \/ overtaken THEN RulesAsked ELSE {}
  /\ UNCHANGED <<ruleOpen, selectedHost, ruleItems, selectedItems, itemsLoading, listing, rules,
                 overtaken, ruleFailed>>

WithoutRule(b, r, ok) ==
  IF ~ok /\ b.rules \subseteq {r} THEN NoRules ELSE [b EXCEPT !.rules = @ \ {r}, !.ok = ok]

\* Another rule for an item that has one is another rule.
createAlertRule(n, r) ==
  /\ r \in adding[n].rules
  /\ rules' = rules \cup {r}
  /\ adding' = [adding EXCEPT ![n] = WithoutRule(@, r, @.ok)]
  /\ UNCHANGED <<ruleOpen, selectedHost, ruleItems, selectedItems, itemsLoading, listing, creating,
                 overtaken, loose, sent, ruleFailed>>

\* The first failure ends the busy state, though the rest of the batch runs on.
createAlertRuleFails(n, r) ==
  /\ r \in adding[n].rules
  /\ rules' \in {rules, rules \cup {r}}
  /\ adding' = [adding EXCEPT ![n] = WithoutRule(@, r, FALSE)]
  /\ creating' = IF adding[n].ok THEN FALSE ELSE creating
  /\ ruleFailed' = TRUE
  /\ UNCHANGED <<ruleOpen, selectedHost, ruleItems, selectedItems, itemsLoading, listing,
                 overtaken, loose, sent>>

RulesCreated(n) ==
  /\ adding[n].ok /\ adding[n].rules = {}
  /\ adding' = [adding EXCEPT ![n] = NoRules]
  /\ creating' = FALSE /\ ruleOpen' = FALSE
  /\ UNCHANGED <<selectedHost, ruleItems, selectedItems, itemsLoading, listing, rules, overtaken,
                 loose, sent, ruleFailed>>

RuleNext ==
  \/ OpenRules \/ CloseRules
  \/ \E h \in RuleHost : SelectHost(h) \/ ItemsListed(h) \/ ItemsNotListed(h)
  \/ \E i \in AnyItem : toggleItem(i)
  \/ \E n \in Slot : addItemRule(n) \/ RulesCreated(n)
  \/ \E n \in Slot, r \in Rule : createAlertRule(n, r) \/ createAlertRuleFails(n, r)

-----------------------------------------------------------------------------
batchVars == <<giveVars, ruleVars>>
BatchInit == GiveInit /\ RuleInit
BatchNext ==
  \/ GiveNext /\ UNCHANGED ruleVars
  \/ RuleNext /\ UNCHANGED giveVars

BatchSpec == BatchInit /\ [][BatchNext]_batchVars

BatchTypeOK == GiveTypeOK /\ RuleTypeOK

\* A team gets only what was selected while its own dialog was open: by itself,
\* or with a host group that was shown to hold it.
GivenToTeams ==
  \A t \in Team : \A x \in stored[t] :
    x \in chosen[t] \/ \E f \in chosen[t] \cap Folder : x \in held[f]

\* A rule names the host its item is of; unless Create rule was pressed while
\* the items of that host were being loaded, when the item may still be one of
\* the host before, or after the answer for another host had come last.
RulesOfTheirHost == \A r \in rules \ loose : r[1] = r[2][1]

\* What is given is what was chosen, whichever batches of other teams were in
\* flight, failed or closed the dialog under the user's hand.
GivenAsChosen == GivenToTeams /\ RulesOfTheirHost

\* The dialog of the rules sends an item once in an opening, unless a request
\* failed: no second press of Create rule makes a second rule.
SentOnce ==
  [][\A n \in Slot : addItemRule(n) => sent \cap Asked = {} \/ ruleFailed]_ruleVars
=============================================================================
