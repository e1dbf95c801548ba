----------------------------- MODULE ItemForms ------------------------------
(***************************************************************************)
(* The "Add Item" dialog: a panel is filled in, its request creates the    *)
(* item at one host, or in bulk mode at several, one after another, and    *)
(* with the item a trigger where one was asked for.                        *)
(*                                                                         *)
(* The panel can be changed while its request is under way, which disables *)
(* the Add button and nothing else.                                        *)
(***************************************************************************)
EXTENDS ItemTable, FiniteSets, Sequences

CONSTANT Host

ASSUME HostAssumption == "none" \notin Host

\* A panel as far as its steps can tell: whether it needs anything.
PanelTypes == {[p EXCEPT !.needs = IF @ = {} THEN {} ELSE {"fields"}] : p \in ItemPanels}

VARIABLES
  panel,    \* the panel on display
  form,     \* what it holds
  saving,   \* its request is under way
  post,     \* the request, or NoPost
  mine,     \* it was sent by this panel, not by one that was left since
  items,    \* hosts that have the item
  made,     \* the item created last, until the answer is there
  results   \* of the last bulk request: the hosts that were reported done

itemVars == <<panel, form, saving, post, mine, items, made, results>>

Condition == [on : BOOLEAN, text : BOOLEAN, threshold : {"", "number", "words"}, pattern : {"", "words"}]
Form == [filled : BOOLEAN, host : Host \cup {"none"}, bulk : BOOLEAN, hosts : SUBSET Host,
         set : SUBSET Setting, period : {"none", "half", "full"}, trigger : Condition]
Kind == {"none", "nodata", "threshold", "words", "pattern", "own"}
Item == [set : SUBSET Setting, trigger : Kind]
Post == [bulk : BOOLEAN, todo : SUBSET Host, done : SUBSET Host, set : SUBSET Setting,
         trigger : Condition, shown : Item]

\* The state of a panel that was just mounted: useCommonItemState.
NoCondition(p) == [on |-> p.trigger # "value", text |-> p.text, threshold |-> "", pattern |-> ""]
Fresh(p) ==
  [filled |-> p.needs = {}, host |-> "none", bulk |-> FALSE, hosts |-> {}, set |-> {},
   period |-> "none", trigger |-> NoCondition(p)]
NoItem == [set |-> {}, trigger |-> "none"]
NoPost == [bulk |-> FALSE, todo |-> {}, done |-> {}, set |-> {}, trigger |-> NoCondition(NoPanel),
           shown |-> NoItem]

ItemTypeOK ==
  /\ panel \in PanelTypes \cup {NoPanel} /\ form \in Form
  /\ saving \in BOOLEAN /\ mine \in BOOLEAN
  /\ post \in Post /\ items \in SUBSET Host
  /\ made \in [at : Host \cup {"none"}, item : Item]
  /\ results \in SUBSET Host

NotMade == [at |-> "none", item |-> NoItem]
ItemInit ==
  /\ panel = NoPanel /\ form = Fresh(NoPanel)
  /\ saving = FALSE /\ post = NoPost /\ mine = FALSE
  /\ items = {} /\ made = NotMade /\ results = {}

-----------------------------------------------------------------------------
\* Another type shows another panel, with nothing in it.
ShowPanel(p) ==
  /\ panel' = p /\ form' = Fresh(p)
  /\ saving' = FALSE /\ mine' = FALSE /\ results' = {}
  /\ UNCHANGED <<post, items, made>>

Change(f) ==
  /\ panel # NoPanel /\ form' = f
  /\ UNCHANGED <<panel, saving, post, mine, items, made, results>>

Fill(b) == panel.needs # {} /\ Change([form EXCEPT !.filled = b])
HostSelect(h) == ~form.bulk /\ Change([form EXCEPT !.host = h])
MultiHostSelect(hs) == form.bulk /\ Change([form EXCEPT !.hosts = hs])
BulkModeToggle == panel.many # <<>> /\ Change([form EXCEPT !.bulk = ~@])
SetControl(c) ==
  /\ c \in panel.shows \ {"intervals"}
  /\ Change([form EXCEPT !.set = IF c \in @ THEN @ \ {c} ELSE @ \cup {c}])
\* A custom interval is added, a part of it filled in, or all.
CustomIntervalsEditor(t) ==
  "intervals" \in panel.shows /\ Change([form EXCEPT !.period = t])
\* What is hidden by the value type stays as it was.
TriggerToggleFields(t) ==
  /\ panel.trigger = "value" /\ ~form.bulk
  /\ t.text # form.trigger.text => t = [form.trigger EXCEPT !.text = t.text]
  /\ t.pattern # form.trigger.pattern => form.trigger.on /\ form.trigger.text
  /\ t.threshold # form.trigger.threshold => form.trigger.on /\ ~form.trigger.text
  /\ Change([form EXCEPT !.trigger = t])

\* An interval that lacks its period is left out.
assembleDelay == IF form.period = "full" THEN {"intervals"} ELSE {}
Changed == form.set \cup assembleDelay
IntervalsShown == IF form.period = "full" THEN {"intervals"} ELSE {}

\* Seeded bug: words are sent as they are.
triggerFieldsNaN == [form.trigger EXCEPT !.threshold = IF @ = "words" THEN "NaN" ELSE @]

\* A threshold that is no number has no JSON but null.
triggerFields == [form.trigger EXCEPT !.threshold = IF @ = "words" THEN "" ELSE @]

\* The trigger the panel promises: "leave blank to alert on no data instead".
\* Where a threshold was typed that is no number, that is "words".
TriggerShown ==
  IF form.bulk \/ ~form.trigger.on THEN "none"
  ELSE IF panel.trigger # "value" THEN "own"
  ELSE IF form.trigger.text THEN IF form.trigger.pattern = "" THEN "nodata" ELSE "pattern"
  ELSE IF form.trigger.threshold = "" THEN "nodata"
  ELSE IF form.trigger.threshold = "number" THEN "threshold" ELSE "words"
ItemShown == [set |-> (form.set \cup IntervalsShown) \cap panel.shows, trigger |-> TriggerShown]

Targets == IF form.bulk THEN form.hosts ELSE {form.host} \ {"none"}
isDisabled == saving \/ ~form.filled \/ Targets = {}

\* One request at a time (a bound: a panel that is left may have its own).
onSubmit ==
  /\ panel # NoPanel /\ ~isDisabled /\ post = NoPost
  /\ post' = [bulk |-> form.bulk, todo |-> Targets, done |-> {},
              set |-> Changed \cap IF form.bulk THEN panel.many[1] ELSE panel.sends,
              trigger |-> IF form.bulk THEN [triggerFields EXCEPT !.on = FALSE] ELSE triggerFields,
              shown |-> ItemShown]
  /\ saving' = TRUE /\ mine' = TRUE /\ results' = {}
  /\ UNCHANGED <<panel, form, items, made>>

-----------------------------------------------------------------------------
\* Seeded bug: what is filled decides, not the value type.
PatternFirst(t) ==
  IF ~t.on THEN "none"
  ELSE IF t.pattern # "" THEN "pattern"
  ELSE IF t.threshold # "" THEN "threshold" ELSE "nodata"
\* At the server a trigger by the value type of the item.
maybe_create_trigger(t) ==
  IF ~t.on THEN "none"
  ELSE IF t.text THEN IF t.pattern = "" THEN "nodata" ELSE "pattern"
  ELSE IF t.threshold = "" THEN "nodata" ELSE "threshold"

\* The item is created, and reported so even where its trigger could not be.
Add(h) ==
  /\ h \in post.todo /\ h \notin items
  /\ items' = items \cup {h}
  /\ \E k \in {"none", IF post.shown.trigger = "own" THEN "own" ELSE maybe_create_trigger(post.trigger)} :
       made' = [at |-> h, item |-> [set |-> post.set, trigger |-> k]]
  /\ post' = [post EXCEPT !.todo = @ \ {h}, !.done = @ \cup {h}]
  /\ UNCHANGED <<panel, form, saving, mine, results>>

\* A host that is unknown, has no interface, or has the item already.
AddFails(h) ==
  /\ h \in post.todo
  /\ post' = [post EXCEPT !.todo = @ \ {h}]
  /\ UNCHANGED <<panel, form, saving, mine, items, made, results>>

\* The success of one item empties the fields and resets the common ones.
ResetPanel ==
  [form EXCEPT !.filled = panel.needs = {}, !.set = @ \cap panel.keeps, !.period = "none",
               !.trigger = IF panel.trigger = "value" THEN [NoCondition(panel) EXCEPT !.text = form.trigger.text]
                           ELSE @]

Ended == post # NoPost /\ post.todo = {}
\* Seeded bug: the answer empties whatever panel is shown.
AnswerAnyway ==
  /\ Ended
  /\ form' = IF post.done # {} /\ ~post.bulk THEN ResetPanel ELSE form
  /\ saving' = FALSE
  /\ results' = IF mine /\ post.bulk THEN post.done ELSE results
  /\ post' = NoPost /\ mine' = FALSE /\ made' = NotMade
  /\ UNCHANGED <<panel, items>>

\* The answer finds its panel, or nobody: a panel that was left is no more.
Answer ==
  /\ Ended
  /\ form' = IF mine /\ post.done # {} /\ ~post.bulk THEN ResetPanel ELSE form
  /\ saving' = FALSE
  /\ results' = IF mine /\ post.bulk THEN post.done ELSE results
  /\ post' = NoPost /\ mine' = FALSE /\ made' = NotMade
  /\ UNCHANGED <<panel, items>>

\* The request or its answer is lost: an error, and the form as it was.
LoseRequest ==
  /\ post # NoPost
  /\ saving' = FALSE
  /\ post' = NoPost /\ mine' = FALSE /\ made' = NotMade
  /\ UNCHANGED <<panel, form, items, results>>

User ==
  \/ \E p \in PanelTypes : ShowPanel(p)
  \/ \E b \in BOOLEAN : Fill(b)
  \/ \E h \in Host : HostSelect(h)
  \/ \E hs \in SUBSET Host : MultiHostSelect(hs)
  \/ BulkModeToggle
  \/ \E c \in Setting : SetControl(c)
  \/ \E t \in {"none", "half", "full"} : CustomIntervalsEditor(t)
  \/ \E t \in Condition : TriggerToggleFields(t)

ItemNext ==
  \/ User \/ onSubmit
  \/ \E h \in Host : Add(h) \/ AddFails(h)
  \/ Answer \/ LoseRequest

ItemSpec == ItemInit /\ [][ItemNext]_itemVars

-----------------------------------------------------------------------------
\* The item that is created is the one the panel showed when it was sent: its
\* settings, and its trigger unless that could not be created.  What the mode
\* or the value type hides has no part in it, nor has half an interval.  Left out
\* are the settings of a bulk request, which does not carry all that its panel
\* shows, and the trigger of a threshold that is no number.
CreatedAsShown ==
  made # NotMade =>
    /\ ~post.bulk => made.item.set = post.shown.set
    /\ post.shown.trigger # "words" => made.item.trigger \in {post.shown.trigger, "none"}

\* A host that a bulk request reports as done has the item.
ReportedHaveIt == results \subseteq items /\ post.done \subseteq items

\* What was typed goes only by the user's hand, or with the success of the
\* request this very panel had sent; what was typed since it was sent goes too.
TypedIsKept ==
  [][form' # form /\ post' # post => mine /\ Ended /\ post.done # {}]_itemVars

\* "Leave blank to alert on no data instead": nothing else does.
NoDataWhereBlank ==
  made # NotMade /\ made.item.trigger = "nodata" => post.shown.trigger = "nodata"
=============================================================================
