---------------------------- MODULE AlertChecker ----------------------------
(***************************************************************************)
(* Alert rules: AlertManager.run_checks against the requests that create,  *)
(* change, toggle and delete rules while it runs.                          *)
(*                                                                         *)
(* run_checks is one database transaction.  It selects the enabled rules,  *)
(* asks Zabbix for the latest values of their items, judges each rule by   *)
(* its copy, and writes an event and the is_firing flag as it goes; all of *)
(* it is committed or rolled back together.  Rows the transaction wrote    *)
(* are locked until then: a request on such a rule waits.  Every other row *)
(* can change, or vanish, between the SELECT and the judgement.            *)
(*                                                                         *)
(* A Zabbix value is abstracted to what the judgements look at: whether    *)
(* its type is numeric, its number, the patterns it contains, and whether  *)
(* it is recent enough to count for a service.                             *)
(***************************************************************************)
EXTENDS Naturals

CONSTANTS
  Rule,      \* keys of alert_rules; the portal holds no more rules at once
  Item,      \* Zabbix items rules watch
  Pattern,   \* values of expected_contains
  RuleForm,  \* the rules users may ask for
  Sample,    \* the values Zabbix may report
  Horizon    \* the number of events of a rule up to which they are counted

NumericOp == {">", "<", ">=", "<="}
TextOp == {"contains", "!contains"}

\* What a user chooses of a rule, the row, and a value of an item.
Form == [kind : {"item", "service"}, item : Item, op : NumericOp \cup TextOp,
         threshold : Nat, severity : 0..5, expected : Pattern]
Row == [form : Form, enabled : BOOLEAN, firing : BOOLEAN]
Value == [numeric : BOOLEAN, val : Nat, words : SUBSET Pattern, fresh : BOOLEAN]

NoRow == [form |-> "none"]
NoSample == [words |-> "none"]   \* unknown item, no last value, or a failed fetch

ASSUME CheckerAssumption ==
  /\ RuleForm \subseteq Form
  /\ Sample \subseteq Value
  /\ Horizon \in Nat \ {0}

VARIABLES
  rules,    \* the committed rows of alert_rules
  events,   \* how many committed alert_events each rule has
  reading,  \* what Zabbix would answer for each item
  pc,       \* run_checks: idle, items, judge_items, services, judge_services
  copy,     \* the rows it selected
  todo,     \* the rules it has not judged yet
  got,      \* the values it fetched
  fired,    \* fired_this_cycle: items an item rule started to fire for
  up,       \* rules with an uncommitted event and is_firing = TRUE
  down      \* rules with an uncommitted is_firing = FALSE

checkVars == <<pc, copy, todo, got, fired, up, down>>
vars == <<rules, events, reading, checkVars>>

-----------------------------------------------------------------------------
(* JUDGEMENT *)

Holds(op, val, threshold) ==
  \/ op = ">" /\ val > threshold
  \/ op = "<" /\ val < threshold
  \/ op = ">=" /\ val >= threshold
  \/ op = "<=" /\ val <= threshold

\* _evaluate_item_rule and the body of _process_service_rules: the rules that
\* are not judged at all, and those whose condition is met.
Unjudged(f, v) ==
  \/ v = NoSample
  \/ f.kind = "item" /\ f.op \in NumericOp /\ ~v.numeric

Breached(f, v) ==
  CASE f.kind = "service" -> ~(v.fresh /\ f.expected \in v.words)
    [] f.op = "contains" -> f.expected \in v.words
    [] f.op = "!contains" -> f.expected \notin v.words
    [] OTHER -> Holds(f.op, v.val, f.threshold)

-----------------------------------------------------------------------------
Live == {r \in Rule : rules[r] # NoRow}
Enabled == {r \in Live : rules[r].enabled}
OfKind(kind) == {r \in todo : copy[r].form.kind = kind}

\* ORDER BY severity ASC, threshold ASC: ties in any order.
FirstOf(S) ==
  {r \in S : \A q \in S :
     LET a == copy[r].form  b == copy[q].form
     IN  a.severity < b.severity \/ (a.severity = b.severity /\ a.threshold <= b.threshold)}

OneMore(n) == IF n = Horizon THEN n ELSE n + 1

NoCopy == [r \in Rule |-> NoRow]
NoReading == [i \in Item |-> NoSample]

Init ==
  /\ rules = NoCopy
  /\ events = [r \in Rule |-> 0]
  /\ reading \in [Item -> Sample \cup {NoSample}]
  /\ pc = "idle" /\ copy = NoCopy /\ todo = {} /\ got = NoReading
  /\ fired = {} /\ up = {} /\ down = {}

-----------------------------------------------------------------------------
(* RUN_CHECKS *)

\* The SELECT.  With no enabled rule the cycle is over.
SelectRules ==
  /\ pc = "idle" /\ Enabled # {}
  /\ pc' = "items"
  /\ copy' = [r \in Rule |-> IF r \in Enabled THEN rules[r] ELSE NoRow]
  /\ todo' = Enabled
  /\ UNCHANGED <<rules, events, reading, got, fired, up, down>>

\* item.get, once for the item rules and once more for the service rules.
Fetch(values) ==
  /\ \/ pc = "items" /\ OfKind("item") # {} /\ pc' = "judge_items"
     \/ pc = "services" /\ OfKind("service") # {} /\ pc' = "judge_services"
  /\ got' = values
  /\ UNCHANGED <<rules, events, reading, copy, todo, fired, up, down>>

FetchValues == Fetch(reading)
FetchFails == Fetch(NoReading)

\* A kind without rules is skipped, one that is done is left.
NextKind ==
  /\ \/ pc \in {"items", "judge_items"} /\ OfKind("item") = {} /\ pc' = "services"
     \/ pc = "judge_services" /\ todo = {} /\ pc' = "commit"
     \/ pc = "services" /\ todo = {} /\ pc' = "commit"
  /\ UNCHANGED <<rules, events, reading, copy, todo, got, fired, up, down>>

\* The rule judged next, by its copy.
Judging(r) ==
  \/ pc = "judge_items" /\ r \in FirstOf(OfKind("item"))
  \/ pc = "judge_services" /\ r \in FirstOf(OfKind("service"))

Firing(r) ==
  LET f == copy[r].form IN
    ~Unjudged(f, got[f.item]) /\ Breached(f, got[f.item])
Fine(r) ==
  LET f == copy[r].form IN
    ~Unjudged(f, got[f.item]) /\ ~Breached(f, got[f.item])

\* At most one item rule starts to fire per item and cycle.
SuppressedNever(r) == FALSE \* seeded bug: the set is filled but not consulted

Suppressed(r) == copy[r].form.kind = "item" /\ copy[r].form.item \in fired

\* Nothing to do: not judged, nothing new, or another rule of the item fired.
Pass ==
  \E r \in todo :
    /\ Judging(r)
    /\ ~(Firing(r) /\ ~copy[r].firing /\ ~Suppressed(r))
    /\ ~(Fine(r) /\ copy[r].firing)
    /\ todo' = todo \ {r}
    /\ UNCHANGED <<rules, events, reading, pc, copy, got, fired, up, down>>

\* alert_events.operator is VARCHAR(4); a service rule writes "!=" there.
Storable(r) == copy[r].form.kind = "service" \/ copy[r].form.op \in NumericOp

\* INSERT the event, then UPDATE is_firing.
Fire ==
  \E r \in todo :
    /\ Judging(r)
    /\ Firing(r) /\ ~copy[r].firing /\ ~Suppressed(r)
    /\ Storable(r) /\ r \in Live
    /\ todo' = todo \ {r}
    /\ up' = up \cup {r}
    /\ fired' = IF copy[r].form.kind = "item" THEN fired \cup {copy[r].form.item} ELSE fired
    /\ UNCHANGED <<rules, events, reading, pc, copy, got, down>>

\* Seeded bug: item rules have no way back.
RecoverServices ==
  \E r \in todo :
    /\ Judging(r)
    /\ Fine(r) /\ copy[r].firing
    /\ todo' = todo \ {r}
    /\ down' = IF r \in Live /\ copy[r].form.kind = "service" THEN down \cup {r} ELSE down
    /\ UNCHANGED <<rules, events, reading, pc, copy, got, fired, up>>

\* UPDATE is_firing; of a rule that is gone it changes no row.
Recover ==
  \E r \in todo :
    /\ Judging(r)
    /\ Fine(r) /\ copy[r].firing
    /\ todo' = todo \ {r}
    /\ down' = IF r \in Live THEN down \cup {r} ELSE down
    /\ UNCHANGED <<rules, events, reading, pc, copy, got, fired, up>>

\* Seeded bugs: fired_this_cycle outlives its cycle; a cycle that was broken
\* off is resumed without its rules.
EndCycleKeepsFired ==
  /\ pc' = "idle" /\ copy' = NoCopy /\ todo' = {} /\ got' = NoReading
  /\ up' = {} /\ down' = {}
  /\ UNCHANGED <<fired, reading>>

EndCycleKeepsTodo ==
  /\ pc' = "idle" /\ copy' = NoCopy /\ got' = NoReading
  /\ fired' = {} /\ up' = {} /\ down' = {}
  /\ UNCHANGED <<todo, reading>>

EndCycle ==
  /\ pc' = "idle" /\ copy' = NoCopy /\ todo' = {} /\ got' = NoReading
  /\ fired' = {} /\ up' = {} /\ down' = {}
  /\ UNCHANGED reading

\* Seeded bugs: the flag is committed without the event; a connection that
\* commits every statement.
CommitFlag ==
  /\ pc = "commit"
  /\ rules' = [r \in Rule |-> IF r \in up \cup down
                               THEN [rules[r] EXCEPT !.firing = r \in up] ELSE rules[r]]
  /\ EndCycle
  /\ UNCHANGED events
CrashAutocommit ==
  /\ pc # "idle"
  /\ events' = [r \in Rule |-> IF r \in up THEN OneMore(events[r]) ELSE events[r]]
  /\ EndCycle
  /\ UNCHANGED rules

Commit ==
  /\ pc = "commit"
  /\ rules' = [r \in Rule |-> IF r \in up \cup down
                               THEN [rules[r] EXCEPT !.firing = r \in up] ELSE rules[r]]
  /\ events' = [r \in Rule |-> IF r \in up THEN OneMore(events[r]) ELSE events[r]]
  /\ EndCycle

\* The INSERT breaks a constraint, the foreign key to a rule deleted since the
\* SELECT or the width of the operator, and the whole cycle is rolled back.
InsertFails ==
  /\ \E r \in todo :
       /\ Judging(r)
       /\ Firing(r) /\ ~copy[r].firing /\ ~Suppressed(r)
       /\ ~(Storable(r) /\ r \in Live)
  /\ EndCycle
  /\ UNCHANGED <<rules, events>>

\* The connection breaks or the backend dies: the database rolls back.
Crash ==
  /\ pc # "idle"
  /\ EndCycle
  /\ UNCHANGED <<rules, events>>

-----------------------------------------------------------------------------
(* REQUESTS *)

Unlocked(r) == r \notin up \cup down

CreateRule ==
  \E r \in Rule, f \in RuleForm :
    /\ rules[r] = NoRow /\ copy[r] = NoRow       \* keys are not given twice
    /\ rules' = [rules EXCEPT ![r] = [form |-> f, enabled |-> TRUE, firing |-> FALSE]]
    /\ UNCHANGED <<events, reading, checkVars>>

\* The columns change under the flag: is_firing stays as it was.  A rule keeps
\* its kind; only an item rule changes what it compares, only a service rule
\* the text it expects.
UpdateRule ==
  \E r \in Live, f \in RuleForm :
    /\ Unlocked(r)
    /\ LET g == rules[r].form IN
         IF g.kind = "item"
           THEN f.kind = "item" /\ f.expected = g.expected
           ELSE f = [g EXCEPT !.severity = f.severity, !.expected = f.expected]
    /\ rules' = [rules EXCEPT ![r].form = f]
    /\ UNCHANGED <<events, reading, checkVars>>

ToggleRule ==
  \E r \in Live :
    /\ Unlocked(r)
    /\ rules' = [rules EXCEPT ![r].enabled = ~@]
    /\ UNCHANGED <<events, reading, checkVars>>

\* alert_events.rule_id is ON DELETE CASCADE.
DeleteRule ==
  \E r \in Live :
    /\ Unlocked(r)
    /\ rules' = [rules EXCEPT ![r] = NoRow]
    /\ events' = [events EXCEPT ![r] = 0]
    /\ UNCHANGED <<reading, checkVars>>

-----------------------------------------------------------------------------
(* ZABBIX *)

Report ==
  \E i \in Item, v \in Sample \cup {NoSample} :
    /\ reading' = [reading EXCEPT ![i] = v]
    /\ UNCHANGED <<rules, events, checkVars>>

-----------------------------------------------------------------------------
CheckerStep ==
  \/ SelectRules \/ FetchValues \/ NextKind
  \/ Pass \/ Fire \/ Recover \/ InsertFails \/ Commit

UserStep == CreateRule \/ UpdateRule \/ ToggleRule \/ DeleteRule

Next == CheckerStep \/ FetchFails \/ Crash \/ UserStep \/ Report

Spec == Init /\ [][Next]_vars

\* _alert_loop runs for ever and the watchdog restarts it.
FairSpec == Spec /\ WF_vars(CheckerStep)

-----------------------------------------------------------------------------
(* PROPERTIES *)

TypeOK ==
  /\ rules \in [Rule -> Row \cup {NoRow}]
  /\ events \in [Rule -> 0..Horizon]
  /\ reading \in [Item -> Value \cup {NoSample}]
  /\ pc \in {"idle", "items", "judge_items", "services", "judge_services", "commit"}
  /\ copy \in [Rule -> Row \cup {NoRow}]
  /\ todo \subseteq Rule /\ \A r \in todo : copy[r] # NoRow
  /\ got \in [Item -> Value \cup {NoSample}]
  /\ fired \subseteq Item
  /\ up \subseteq Rule /\ down \subseteq Rule

\* _process_item_rules: at most one rule starts to fire per item and cycle.
OneFiringPerItem ==
  \A r, q \in up :
    /\ copy[r].form.kind = "item" /\ copy[q].form.kind = "item"
    /\ copy[r].form.item = copy[q].form.item
    => r = q

\* The ledger of the rules: what AlertLedger promises of them, judging by the
\* committed rows, holds of the transaction, its rollbacks and the requests in
\* between: one event per episode, none lost, none twice, none left behind.
StateOf(row) ==
  IF row = NoRow THEN "none" ELSE IF row.firing THEN "firing" ELSE "quiet"
Ledger == INSTANCE AlertLedger WITH
  sent <- events, state <- [r \in Rule |-> StateOf(rules[r])]
ImplementsLedger == Ledger!LedgerSpec

\* No committed rule fires without an event its owner can see.
FiringHasEvent == Ledger!FiringWasSent

\* Users, Zabbix and the database behave from some point on: the checker runs,
\* item.get succeeds and values may go on changing.
Settled == <>[][CheckerStep \/ Report]_vars

Judged(r, verdict) ==
  /\ r \in Enabled
  /\ LET f == rules[r].form  v == reading[f.item] IN
       ~Unjudged(f, v) /\ Breached(f, v) = verdict
IsFiring(r) == r \in Live /\ rules[r].firing

\* The other item rules of the item, one of which may start to fire in its place.
Rivals(r) ==
  {q \in Enabled \ {r} : /\ rules[q].form.kind = "item" /\ rules[r].form.kind = "item"
                         /\ rules[q].form.item = rules[r].form.item}

\* run_checks evaluates all enabled rules: one whose condition is met and stays
\* met ends up firing, though another rule of its item keeps starting to fire
\* and recovering before it.  With two such rules it may wait for ever: they can
\* start to fire in turns, one in each cycle.
BreachFires ==
  \A r \in Rule :
    Settled /\ <>[](Judged(r, TRUE) /\ \A p, q \in Rivals(r) : p = q) => <>[]IsFiring(r)

\* And one whose condition is over for good stops firing.
BreachEnds ==
  \A r \in Rule : Settled /\ <>[]Judged(r, FALSE) => <>[]~IsFiring(r)
=============================================================================
