--------------------------- MODULE MCAlertChecker ---------------------------
(***************************************************************************)
(* Small instances of AlertChecker.  The bounds are the rules there may be *)
(* at once, the items, the rules users ask for, and the values Zabbix      *)
(* reports; Horizon counts the events of a rule up to two.                 *)
(***************************************************************************)
EXTENDS AlertChecker

ItemRule(i, op, threshold, severity) ==
  [kind |-> "item", item |-> i, op |-> op, threshold |-> threshold,
   severity |-> severity, expected |-> "ok"]
ServiceRule(i) ==
  [kind |-> "service", item |-> i, op |-> ">", threshold |-> 0,
   severity |-> 2, expected |-> "ok"]
Number(n, words, fresh) == [numeric |-> TRUE, val |-> n, words |-> words, fresh |-> fresh]
Text(words, fresh) == [numeric |-> FALSE, val |-> 0, words |-> words, fresh |-> fresh]

\* The rule judged first has the higher threshold, so that it comes and goes
\* while the other one stays met.
ServiceForms == {ItemRule("cpu", ">", 2, 1), ItemRule("cpu", ">", 1, 2), ServiceRule("cpu")}
TextForms == {ItemRule("cpu", "contains", 0, 1)}
Answers == {Number(2, {"ok"}, TRUE), Number(3, {"ok"}, FALSE)}
Matching == {Text({"ok"}, TRUE)}

\* No two rules have the same form (a bound).
Distinct == \A r, q \in Live : r # q => rules[r].form # rules[q].form

MCSpec == Init /\ [][Next /\ Distinct']_vars /\ WF_vars(CheckerStep)
=============================================================================
