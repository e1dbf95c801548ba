----------------------------- MODULE AlertLedger -----------------------------
(***************************************************************************)
(* What alert rules promise their owners, whatever the checker, its        *)
(* transactions and the API do underneath: a rule is quiet until its       *)
(* condition is seen, it then fires with exactly one event, and it fires   *)
(* no second time before it has been seen to recover.                      *)
(***************************************************************************)
EXTENDS Naturals

CONSTANTS
  Rule,     \* keys of alert_rules
  Horizon   \* the number of events of a rule up to which they are counted, at least 1

VARIABLES
  state,  \* what each rule is doing
  sent    \* the events it has in alert_events

ledgerVars == <<state, sent>>

OneMore(n) == IF n = Horizon THEN n ELSE n + 1

LedgerInit ==
  /\ state = [r \in Rule |-> "none"]
  /\ sent = [r \in Rule |-> 0]

Create(r) ==
  /\ state[r] = "none"
  /\ state' = [state EXCEPT ![r] = "quiet"]
  /\ UNCHANGED sent

\* The events of a rule go with it (ON DELETE CASCADE).
Delete(r) ==
  /\ state[r] # "none"
  /\ state' = [state EXCEPT ![r] = "none"]
  /\ sent' = [sent EXCEPT ![r] = 0]

\* One check: the rules of up start to fire, those of down recover.
Settle(up, down) ==
  /\ \A r \in up : state[r] = "quiet"
  /\ \A r \in down : state[r] = "firing"
  /\ state' = [r \in Rule |-> IF r \in up THEN "firing"
                              ELSE IF r \in down THEN "quiet" ELSE state[r]]
  /\ sent' = [r \in Rule |-> IF r \in up THEN OneMore(sent[r]) ELSE sent[r]]

LedgerNext ==
  \/ \E r \in Rule : Create(r) \/ Delete(r)
  \/ \E up, down \in SUBSET Rule : Settle(up, down)

LedgerSpec == LedgerInit /\ [][LedgerNext]_ledgerVars

\* A rule that fires has told its owner so.
FiringWasSent == \A r \in Rule : state[r] = "firing" => sent[r] # 0
=============================================================================
