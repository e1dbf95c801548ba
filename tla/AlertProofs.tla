----------------------------- MODULE AlertProofs -----------------------------
(***************************************************************************)
(* Proofs about AlertChecker, for any rules, items and forms of rules: the *)
(* types, and that the checker and the requests together implement         *)
(* AlertLedger; and about AlertPolling, for any problems and any number of *)
(* polls: the types, and that a problem is announced once.                 *)
(***************************************************************************)
EXTENDS AlertChecker, AlertPolling, SequenceTheorems, Enumerations, TLAPS

LEMMA NoRowIsNoRow == NoRow \notin Row
BY DEF NoRow, Row

LEMMA OneMoreBounded ==
  ASSUME CheckerAssumption, NEW n \in 0..Horizon
  PROVE  OneMore(n) \in 0..Horizon /\ OneMore(n) # 0
BY DEF CheckerAssumption, OneMore

-----------------------------------------------------------------------------
(* TYPES *)

LEMMA InitType == CheckerAssumption /\ Init => TypeOK
BY DEF CheckerAssumption, Init, TypeOK, NoCopy, NoReading, Value

LEMMA EndCycleType ==
  ASSUME TypeOK, EndCycle,
         rules' \in [Rule -> Row \cup {NoRow}], events' \in [Rule -> 0..Horizon]
  PROVE  TypeOK'
BY DEF TypeOK, EndCycle, NoCopy, NoReading

LEMMA JudgeType ==
  ASSUME TypeOK, SelectRules \/ FetchValues \/ FetchFails \/ NextKind
                   \/ Pass \/ Fire \/ Recover
  PROVE  TypeOK'
<1>1. CASE SelectRules
  BY <1>1, NoRowIsNoRow DEF SelectRules, TypeOK, Enabled, Live
<1>2. CASE FetchValues \/ FetchFails
  BY <1>2 DEF FetchValues, FetchFails, Fetch, TypeOK, NoReading
<1>3. CASE NextKind
  BY <1>3 DEF NextKind, TypeOK
<1>4. CASE Pass
  BY <1>4 DEF Pass, TypeOK
<1>5. CASE Fire
  <2>1. PICK r \in todo :
          /\ todo' = todo \ {r}
          /\ up' = up \cup {r}
          /\ fired' = IF copy[r].form.kind = "item" THEN fired \cup {copy[r].form.item}
                                                    ELSE fired
          /\ UNCHANGED <<rules, events, reading, pc, copy, got, down>>
    BY <1>5 DEF Fire
  <2>2. copy[r].form.item \in Item
    BY DEF TypeOK, Row, Form
  <2> QED
    BY <2>1, <2>2 DEF TypeOK
<1>6. CASE Recover
  BY <1>6 DEF Recover, TypeOK
<1> QED
  BY <1>1, <1>2, <1>3, <1>4, <1>5, <1>6

LEMMA RequestType ==
  ASSUME CheckerAssumption, TypeOK, UserStep \/ Report
  PROVE  TypeOK'
<1>1. CASE CreateRule
  BY <1>1 DEF CreateRule, TypeOK, checkVars, Row, CheckerAssumption
<1>2. CASE UpdateRule
  <2>1. PICK r \in Live, f \in RuleForm : rules' = [rules EXCEPT ![r].form = f]
    BY <1>2 DEF UpdateRule
  <2>2. rules[r] \in Row /\ f \in Form /\ r \in Rule
    BY DEF Live, TypeOK, CheckerAssumption
  <2>3. [rules[r] EXCEPT !.form = f] \in Row
    BY <2>2 DEF Row
  <2> QED
    BY <1>2, <2>1, <2>3 DEF UpdateRule, TypeOK, checkVars
<1>3. CASE ToggleRule
  <2>1. PICK r \in Live : rules' = [rules EXCEPT ![r].enabled = ~@]
    BY <1>3 DEF ToggleRule
  <2>2. rules[r] \in Row /\ r \in Rule
    BY DEF Live, TypeOK
  <2>3. [rules[r] EXCEPT !.enabled = ~@] \in Row
    BY <2>2 DEF Row
  <2> QED
    BY <1>3, <2>1, <2>3 DEF ToggleRule, TypeOK, checkVars
<1>4. CASE DeleteRule
  BY <1>4 DEF DeleteRule, TypeOK, checkVars, Live, CheckerAssumption
<1>5. CASE Report
  BY <1>5 DEF Report, TypeOK, checkVars, CheckerAssumption
<1> QED
  BY <1>1, <1>2, <1>3, <1>4, <1>5 DEF UserStep

-----------------------------------------------------------------------------
(* THE TRANSACTION AND THE ROWS *)

\* The flag of a copy is the flag of its row as long as the row is there: only
\* run_checks writes it, and a key is not given again while a copy has it.
CopiesAgree ==
  \A r \in Rule : copy[r] # NoRow /\ rules[r] # NoRow => copy[r].firing = rules[r].firing

\* Rules the transaction wrote are still there, locked, and change their flag.
WrittenRows ==
  /\ \A r \in up : r \in Live /\ copy[r] # NoRow /\ copy[r].firing = FALSE
  /\ \A r \in down : r \in Live /\ copy[r] # NoRow /\ copy[r].firing = TRUE
IdleClean == pc = "idle" => up = {} /\ down = {}

TxnInv == TypeOK /\ CopiesAgree /\ WrittenRows /\ IdleClean

LEMMA CommitEffect ==
  ASSUME CheckerAssumption, TxnInv, Commit
  PROVE  /\ \A r \in up : rules[r] # NoRow /\ rules[r].firing = FALSE
         /\ \A r \in down : rules[r] # NoRow /\ rules[r].firing = TRUE
         /\ \A r \in up \cup down : /\ rules'[r] = [rules[r] EXCEPT !.firing = r \in up]
                                    /\ rules'[r] \in Row
         /\ \A r \in Rule : r \notin up \cup down => rules'[r] = rules[r]
         /\ TypeOK'
<1>1. /\ \A r \in up : rules[r] # NoRow /\ rules[r].firing = FALSE
      /\ \A r \in down : rules[r] # NoRow /\ rules[r].firing = TRUE
  BY DEF TxnInv, WrittenRows, CopiesAgree, Live
<1>2. up \subseteq Rule /\ down \subseteq Rule
  BY DEF TxnInv, TypeOK
<1>3. /\ \A r \in up \cup down : rules'[r] = [rules[r] EXCEPT !.firing = r \in up]
      /\ \A r \in Rule : r \notin up \cup down => rules'[r] = rules[r]
  BY <1>2 DEF Commit
<1>4. \A r \in up \cup down : rules[r] \in Row
  BY <1>1, <1>2 DEF TxnInv, TypeOK
<1>5. ASSUME NEW r \in up \cup down PROVE rules'[r] \in Row
  <2>1. (r \in up) \in BOOLEAN
    OBVIOUS
  <2>2. ASSUME NEW b \in BOOLEAN PROVE [rules[r] EXCEPT !.firing = b] \in Row
    BY <1>4 DEF Row
  <2>3. rules'[r] = [rules[r] EXCEPT !.firing = r \in up]
    BY <1>3
  <2> QED
    BY <2>1, <2>2, <2>3
<1>6. rules' \in [Rule -> Row \cup {NoRow}]
  <2>1. ASSUME NEW r \in Rule PROVE rules'[r] \in Row \cup {NoRow}
    BY <1>3, <1>5 DEF TxnInv, TypeOK
  <2>2. rules' = [r \in Rule |-> rules'[r]]
    BY DEF Commit
  <2> QED
    BY <2>1, <2>2
<1>7. events' \in [Rule -> 0..Horizon]
  BY OneMoreBounded DEF Commit, TxnInv, TypeOK
<1>8. TypeOK'
  BY <1>6, <1>7, EndCycleType DEF Commit, TxnInv
<1> QED
  BY <1>1, <1>3, <1>5, <1>8

LEMMA NextType ==
  ASSUME CheckerAssumption, TxnInv, [Next]_vars
  PROVE  TypeOK'
<1>1. CASE InsertFails \/ Crash
  BY <1>1, EndCycleType DEF InsertFails, Crash, TxnInv, TypeOK
<1>2. CASE UNCHANGED vars
  BY <1>2 DEF vars, checkVars, TxnInv, TypeOK
<1> QED
  BY <1>1, <1>2, JudgeType, RequestType, CommitEffect DEF Next, CheckerStep, TxnInv

LEMMA TxnStep ==
  ASSUME CheckerAssumption, TxnInv, [Next]_vars
  PROVE  TxnInv'
<1> DEFINE Goal == CopiesAgree /\ WrittenRows /\ IdleClean
<1> USE DEF CopiesAgree, WrittenRows, IdleClean, TxnInv
<1>1. ASSUME SelectRules PROVE Goal'
  BY <1>1 DEF SelectRules, TypeOK, Enabled, Live
<1>2. ASSUME FetchValues \/ FetchFails \/ NextKind \/ Pass \/ Report PROVE Goal'
  BY <1>2 DEF FetchValues, FetchFails, Fetch, NextKind, Pass, Report, checkVars, Judging, Live
<1>3. ASSUME Fire PROVE Goal'
  <2>1. PICK r \in todo : /\ ~copy[r].firing /\ r \in Live /\ up' = up \cup {r}
                          /\ pc # "idle"
                          /\ UNCHANGED <<rules, pc, copy, down>>
    BY <1>3 DEF Fire, Judging
  <2>2. copy[r] # NoRow /\ copy[r].firing \in BOOLEAN
    BY DEF TypeOK, Row
  <2> QED
    BY <2>1, <2>2 DEF Live
<1>4. ASSUME Recover PROVE Goal'
  <2>1. PICK r \in todo : /\ copy[r].firing
                          /\ down' = IF r \in Live THEN down \cup {r} ELSE down
                          /\ pc # "idle"
                          /\ UNCHANGED <<rules, pc, copy, up>>
    BY <1>4 DEF Recover, Judging
  <2>2. copy[r] # NoRow /\ copy[r].firing \in BOOLEAN
    BY DEF TypeOK, Row
  <2> QED
    BY <2>1, <2>2 DEF Live
<1>5. ASSUME Commit \/ InsertFails \/ Crash PROVE Goal'
  BY <1>5 DEF Commit, InsertFails, Crash, EndCycle, NoCopy
<1>6. ASSUME CreateRule PROVE Goal'
  BY <1>6 DEF CreateRule, checkVars, Live, TypeOK, NoRow
<1>7. ASSUME UpdateRule \/ ToggleRule PROVE Goal'
  <2>1. PICK r \in Live : /\ \A q \in Rule \ {r} : rules'[q] = rules[q]
                          /\ rules'[r] # NoRow /\ rules'[r].firing = rules[r].firing
                          /\ UNCHANGED checkVars
    <3>1. ASSUME NEW r \in Live, NEW f, rules' = [rules EXCEPT ![r].form = f]
          PROVE  /\ \A q \in Rule \ {r} : rules'[q] = rules[q]
                 /\ rules'[r].firing = rules[r].firing
      BY <3>1 DEF Live, TypeOK, Row
    <3>2. ASSUME NEW r \in Live, rules' = [rules EXCEPT ![r].enabled = ~@]
          PROVE  /\ \A q \in Rule \ {r} : rules'[q] = rules[q]
                 /\ rules'[r].firing = rules[r].firing
      BY <3>2 DEF Live, TypeOK, Row
    <3>3. ASSUME NEW r \in Live, \/ \E f : rules' = [rules EXCEPT ![r].form = f]
                                 \/ rules' = [rules EXCEPT ![r].enabled = ~@]
          PROVE  rules'[r] # NoRow
      <4>1. rules[r] \in Row /\ r \in Rule
        BY <3>3 DEF Live, TypeOK
      <4> QED
        BY <3>3, <4>1 DEF TypeOK, Row, NoRow
    <3>4. UNCHANGED checkVars
      BY <1>7 DEF UpdateRule, ToggleRule
    <3>5. ASSUME UpdateRule
          PROVE  \E r \in Live : \E f : rules' = [rules EXCEPT ![r].form = f]
      BY <3>5 DEF UpdateRule
    <3>6. ASSUME ToggleRule
          PROVE  \E r \in Live : rules' = [rules EXCEPT ![r].enabled = ~@]
      BY <3>6 DEF ToggleRule
    <3> QED
      BY <1>7, <3>1, <3>2, <3>3, <3>4, <3>5, <3>6
  <2> QED
    BY <2>1 DEF checkVars, Live, TypeOK
<1>8. ASSUME DeleteRule PROVE Goal'
  BY <1>8 DEF DeleteRule, Unlocked, checkVars, Live, TypeOK
<1>9. ASSUME UNCHANGED vars PROVE Goal'
  BY <1>9 DEF vars, checkVars, Live
<1>10. Goal'
  BY <1>1, <1>2, <1>3, <1>4, <1>5, <1>6, <1>7, <1>8, <1>9 DEF Next, CheckerStep, UserStep
<1> QED
  BY <1>10, NextType

LEMMA InitInv == Init => TxnInv
<1> SUFFICES ASSUME Init PROVE TxnInv
  OBVIOUS
<1>1. TypeOK
  BY CheckerAssumption, InitType
<1> QED
  BY <1>1 DEF Init, TxnInv, CopiesAgree, WrittenRows, IdleClean, NoCopy

\* Every value has its type; at most one row per key is a rule's, and no event
\* counter leaves its bound.
THEOREM TypeCorrect == Spec => []TypeOK
<1>1. Init => TxnInv
  BY InitInv
<1>2. TxnInv /\ [Next]_vars => TxnInv'
  BY CheckerAssumption, TxnStep
<1>3. TxnInv => TypeOK
  BY DEF TxnInv
<1> QED
  BY <1>1, <1>2, <1>3, PTL DEF Spec

-----------------------------------------------------------------------------
(* REFINEMENT *)

LEMMA InitRefines == Init => Ledger!LedgerInit
BY DEF Init, Ledger!LedgerInit, NoCopy, StateOf

\* The checker's commit is one Settle of the rules it wrote.
LEMMA CommitRefines ==
  ASSUME CheckerAssumption, TxnInv, Commit
  PROVE  Ledger!Settle(up, down)
<1>1. /\ \A r \in up : StateOf(rules[r]) = "quiet"
      /\ \A r \in down : StateOf(rules[r]) = "firing"
  BY CommitEffect DEF StateOf
<1>2. up \subseteq Rule /\ down \subseteq Rule
  BY DEF TxnInv, TypeOK
<1>3. up \cap down = {}
  BY CommitEffect
<1>4. ASSUME NEW r \in Rule
      PROVE  StateOf(rules'[r]) = IF r \in up THEN "firing"
                                  ELSE IF r \in down THEN "quiet" ELSE StateOf(rules[r])
  <2>1. CASE r \in up
    <3>1. rules'[r] = [rules[r] EXCEPT !.firing = r \in up] /\ rules[r] \in Row
      BY <2>1, CommitEffect DEF TxnInv, TypeOK
    <3>2. (r \in up) = TRUE
      BY <2>1
    <3>3. rules'[r] = [rules[r] EXCEPT !.firing = TRUE]
      BY <3>1, <3>2
    <3>4. rules'[r].firing = TRUE /\ rules'[r] # NoRow
      BY <2>1, <3>1, <3>3, CommitEffect, NoRowIsNoRow DEF Row
    <3> QED
      BY <2>1, <3>4 DEF StateOf
  <2>2. CASE r \in down
    <3>1. rules'[r] = [rules[r] EXCEPT !.firing = r \in up] /\ rules[r] \in Row
      BY <2>2, CommitEffect DEF TxnInv, TypeOK
    <3>2. (r \in up) = FALSE
      BY <1>3, <2>2
    <3>3. rules'[r] = [rules[r] EXCEPT !.firing = FALSE]
      BY <3>1, <3>2
    <3>4. rules'[r].firing = FALSE /\ rules'[r] # NoRow
      BY <2>2, <3>1, <3>3, CommitEffect, NoRowIsNoRow DEF Row
    <3> QED
      BY <1>3, <2>2, <3>4 DEF StateOf
  <2>3. CASE r \notin up \cup down
    BY <2>3, CommitEffect
  <2> QED
    BY <2>1, <2>2, <2>3
<1>5. [r \in Rule |-> StateOf(rules[r])]' =
        [r \in Rule |-> IF r \in up THEN "firing" ELSE IF r \in down THEN "quiet"
                        ELSE [q \in Rule |-> StateOf(rules[q])][r]]
  BY <1>4
<1>6. events' = [r \in Rule |-> IF r \in up THEN Ledger!OneMore(events[r]) ELSE events[r]]
  BY DEF Commit, OneMore, Ledger!OneMore
<1> QED
  BY <1>1, <1>2, <1>5, <1>6 DEF Ledger!Settle

LEMMA StepRefines ==
  ASSUME CheckerAssumption, TxnInv, [Next]_vars
  PROVE  [Ledger!LedgerNext]_(Ledger!ledgerVars)
<1>1. ASSUME rules' = rules, events' = events PROVE UNCHANGED Ledger!ledgerVars
  BY <1>1 DEF Ledger!ledgerVars
<1>2. ASSUME SelectRules \/ FetchValues \/ FetchFails \/ NextKind \/ Pass \/ Fire
               \/ Recover \/ InsertFails \/ Crash \/ Report \/ UNCHANGED vars
      PROVE  UNCHANGED Ledger!ledgerVars
  BY <1>1, <1>2 DEF SelectRules, FetchValues, FetchFails, Fetch, NextKind, Pass, Fire, Recover,
                    InsertFails, Crash, Report, vars
<1>3. ASSUME Commit PROVE Ledger!LedgerNext
  <2>1. up \in SUBSET Rule /\ down \in SUBSET Rule
    BY DEF TxnInv, TypeOK
  <2> QED
    BY <1>3, <2>1, CommitRefines DEF Ledger!LedgerNext
<1>4. ASSUME CreateRule PROVE Ledger!LedgerNext
  <2>1. PICK r \in Rule, f \in RuleForm :
          /\ rules[r] = NoRow
          /\ rules' = [rules EXCEPT ![r] = [form |-> f, enabled |-> TRUE, firing |-> FALSE]]
          /\ events' = events
    BY <1>4 DEF CreateRule
  <2>2. rules'[r] # NoRow /\ rules'[r].firing = FALSE
    BY <2>1 DEF TxnInv, TypeOK, NoRow
  <2>3. \A q \in Rule : StateOf(rules'[q]) = IF q = r THEN "quiet" ELSE StateOf(rules[q])
    BY <2>1, <2>2 DEF TxnInv, TypeOK, StateOf
  <2>4. Ledger!Create(r)
    BY <2>1, <2>3 DEF Ledger!Create, StateOf
  <2> QED
    BY <2>4 DEF Ledger!LedgerNext
<1>5. ASSUME UpdateRule \/ ToggleRule PROVE UNCHANGED Ledger!ledgerVars
  <2>1. PICK r \in Live : /\ \/ \E f \in RuleForm : rules' = [rules EXCEPT ![r].form = f]
                             \/ rules' = [rules EXCEPT ![r].enabled = ~@]
                          /\ events' = events
    BY <1>5 DEF UpdateRule, ToggleRule
  <2>2. rules[r] \in Row /\ r \in Rule
    BY DEF Live, TxnInv, TypeOK
  <2>3. rules'[r].firing = rules[r].firing
    BY <2>1, <2>2 DEF TxnInv, TypeOK, Row
  <2>4. rules'[r] # NoRow
    <3>1. ASSUME NEW f PROVE [rules[r] EXCEPT !.form = f] # NoRow
      BY <2>2 DEF Row, NoRow
    <3>2. [rules[r] EXCEPT !.enabled = ~@] # NoRow
      BY <2>2 DEF Row, NoRow
    <3> QED
      BY <2>1, <2>2, <3>1, <3>2 DEF TxnInv, TypeOK
  <2>5. \A q \in Rule : StateOf(rules'[q]) = StateOf(rules[q])
    <3>1. \A q \in Rule : q # r => rules'[q] = rules[q]
      BY <2>1, <2>2 DEF TxnInv, TypeOK
    <3>2. StateOf(rules'[r]) = StateOf(rules[r])
      BY <2>3, <2>4 DEF StateOf, Live
    <3> QED
      BY <3>1, <3>2
  <2> QED
    BY <2>1, <2>5 DEF Ledger!ledgerVars
<1>6. ASSUME DeleteRule PROVE Ledger!LedgerNext
  <2>1. PICK r \in Live : /\ rules' = [rules EXCEPT ![r] = NoRow]
                          /\ events' = [events EXCEPT ![r] = 0]
    BY <1>6 DEF DeleteRule
  <2>2. r \in Rule /\ StateOf(rules[r]) # "none"
    BY DEF Live, StateOf
  <2>3. \A q \in Rule : StateOf(rules'[q]) = IF q = r THEN "none" ELSE StateOf(rules[q])
    BY <2>1 DEF TxnInv, TypeOK, StateOf
  <2>4. Ledger!Delete(r)
    BY <2>1, <2>2, <2>3 DEF Ledger!Delete
  <2> QED
    BY <2>2, <2>4 DEF Ledger!LedgerNext
<1> QED
  BY <1>2, <1>3, <1>4, <1>5, <1>6 DEF Next, CheckerStep, UserStep

\* The checker's transaction, its rollbacks and crashes, and every request that
\* slips in between keep the ledger: one event for each time a rule starts to
\* fire, none before it was seen to recover.
THEOREM CheckerImplementsLedger == Spec => ImplementsLedger
<1>1. TxnInv /\ [Next]_vars => TxnInv'
  BY CheckerAssumption, TxnStep
<1>2. TxnInv /\ [Next]_vars => [Ledger!LedgerNext]_(Ledger!ledgerVars)
  BY CheckerAssumption, StepRefines
<1> QED
  BY InitInv, InitRefines, <1>1, <1>2, PTL DEF Spec, ImplementsLedger, Ledger!LedgerSpec
-----------------------------------------------------------------------------
(* EVENTS *)

LEMMA LedgerKeepsEvents ==
  ASSUME CheckerAssumption, TypeOK, FiringHasEvent, [Ledger!LedgerNext]_(Ledger!ledgerVars)
  PROVE  FiringHasEvent'
<1> DEFINE st == [r \in Rule |-> StateOf(rules[r])]
<1> USE DEF FiringHasEvent, Ledger!FiringWasSent
<1>1. ASSUME UNCHANGED Ledger!ledgerVars PROVE FiringHasEvent'
  BY <1>1 DEF Ledger!ledgerVars
<1>2. ASSUME NEW r \in Rule, Ledger!Create(r) \/ Ledger!Delete(r) PROVE FiringHasEvent'
  <2>1. /\ \A q \in Rule \ {r} : st'[q] = st[q] /\ events'[q] = events[q]
        /\ st'[r] # "firing"
    BY <1>2 DEF Ledger!Create, Ledger!Delete, TypeOK
  <2> QED
    BY <2>1
<1>3. ASSUME NEW S \in SUBSET Rule, NEW T \in SUBSET Rule, Ledger!Settle(S, T)
      PROVE  FiringHasEvent'
  <2>1. \A r \in Rule : st'[r] = "firing" => r \in S \/ st[r] = "firing"
    BY <1>3 DEF Ledger!Settle
  <2>2. \A r \in Rule : events'[r] = IF r \in S THEN Ledger!OneMore(events[r]) ELSE events[r]
    BY <1>3 DEF Ledger!Settle
  <2>3. \A n \in 0..Horizon : Ledger!OneMore(n) # 0
    BY DEF Ledger!OneMore, CheckerAssumption
  <2>4. \A r \in Rule : events[r] \in 0..Horizon
    BY DEF TypeOK
  <2> QED
    BY <2>1, <2>2, <2>3, <2>4
<1> QED
  BY <1>1, <1>2, <1>3 DEF Ledger!LedgerNext

\* A rule whose flag says that it fires has an event its owner can see, through
\* every rollback, crash and change of the rule.
THEOREM FiringHasEventAlways == Spec => []FiringHasEvent
<1>1. Init => FiringHasEvent
  BY InitRefines DEF FiringHasEvent, Ledger!FiringWasSent, Ledger!LedgerInit
<1>2. TxnInv /\ [Next]_vars => TxnInv'
  BY CheckerAssumption, TxnStep
<1>3. TxnInv /\ FiringHasEvent /\ [Next]_vars => FiringHasEvent'
  BY CheckerAssumption, StepRefines, LedgerKeepsEvents DEF TxnInv
<1> QED
  BY InitInv, <1>1, <1>2, <1>3, PTL DEF Spec

-----------------------------------------------------------------------------
(* ONE RULE PER ITEM *)

\* fired_this_cycle has the item of every item rule the cycle let fire.
FiredItems ==
  \A r \in up : copy[r].form.kind = "item" => copy[r].form.item \in fired
ItemInv == TxnInv /\ FiredItems /\ OneFiringPerItem

LEMMA ItemStep ==
  ASSUME CheckerAssumption, ItemInv, [Next]_vars
  PROVE  FiredItems' /\ OneFiringPerItem'
<1> USE DEF FiredItems, OneFiringPerItem
<1>1. ASSUME UNCHANGED <<copy, fired, up>> PROVE FiredItems' /\ OneFiringPerItem'
  BY <1>1 DEF ItemInv
<1>2. ASSUME up' = {} PROVE FiredItems' /\ OneFiringPerItem'
  BY <1>2
<1>3. ASSUME Fire PROVE FiredItems' /\ OneFiringPerItem'
  <2>1. PICK r \in todo :
          /\ ~Suppressed(r)
          /\ up' = up \cup {r}
          /\ fired' = IF copy[r].form.kind = "item" THEN fired \cup {copy[r].form.item}
                                                   ELSE fired
          /\ copy' = copy
    BY <1>3 DEF Fire
  <2> QED
    BY <2>1 DEF ItemInv, Suppressed
<1>4. ASSUME SelectRules PROVE up' = {}
  BY <1>4 DEF SelectRules, ItemInv, TxnInv, IdleClean
<1>5. ASSUME Commit \/ InsertFails \/ Crash PROVE up' = {}
  BY <1>5 DEF Commit, InsertFails, Crash, EndCycle
<1>6. ASSUME FetchValues \/ FetchFails \/ NextKind \/ Pass \/ Recover \/ UserStep \/ Report
               \/ UNCHANGED vars
      PROVE  UNCHANGED <<copy, fired, up>>
  BY <1>6 DEF FetchValues, FetchFails, Fetch, NextKind, Pass, Recover, UserStep, CreateRule,
              UpdateRule, ToggleRule, DeleteRule, Report, checkVars, vars
<1> QED
  BY <1>1, <1>2, <1>3, <1>4, <1>5, <1>6 DEF Next, CheckerStep

\* Whatever rules there are, a cycle lets one of those on an item start to fire.
THEOREM OneFiringPerItemAlways == Spec => []OneFiringPerItem
<1>1. Init => FiredItems /\ OneFiringPerItem
  BY DEF Init, FiredItems, OneFiringPerItem
<1>2. ItemInv /\ [Next]_vars => ItemInv'
  BY CheckerAssumption, TxnStep, ItemStep DEF ItemInv
<1>3. ItemInv => OneFiringPerItem
  BY DEF ItemInv
<1> QED
  BY InitInv, <1>1, <1>2, <1>3, PTL DEF Spec, ItemInv

-----------------------------------------------------------------------------
(* EVERY RULE IS JUDGED *)

\* The rules of a kind that the cycle selected.
Selected(kind) == {r \in Rule : copy[r] # NoRow /\ copy[r].form.kind = kind}

\* ORDER BY severity ASC, threshold ASC.
NotAfter(q, r) ==
  LET a == copy[q].form  b == copy[r].form
  IN  a.severity < b.severity \/ (a.severity = b.severity /\ a.threshold <= b.threshold)

\* The rules of r's item that the cycle lets fire, none of them after r.
FiresFor(q, r) ==
  q \in up \cap Selected("item") /\ copy[q].form.item = copy[r].form.item /\ NotAfter(q, r)

\* What judging a rule by the fetched values comes to.
JudgedBy(r) ==
  /\ r \in up => Firing(r)
  /\ r \in down => Fine(r)
  /\ Fine(r) /\ copy[r].firing => r \in down \/ r \notin Live
ItemSettled(r) ==
  JudgedBy(r) /\ (Firing(r) => copy[r].firing \/ \E q \in Rule : FiresFor(q, r))
ServiceSettled(r) ==
  JudgedBy(r) /\ (Firing(r) => copy[r].firing \/ r \in up)

\* Once the item rules are done, every one whose condition is met fires already
\* or has one of its item fire that comes no later than itself; every one whose
\* condition is over is put back; and no other is touched.
ItemsJudged ==
  pc = "judge_items" /\ OfKind("item") = {} => \A r \in Selected("item") : ItemSettled(r)

\* A cycle that commits leaves every service rule it selected firing if and only
\* if its condition is met, or could not be judged and it fired before.
ServicesJudged ==
  [][Commit => \A r \in Selected("service") \cap Live :
       rules'[r].firing = (Firing(r) \/ (~Fine(r) /\ copy[r].firing))]_vars

\* Rules are judged in their order, each kind by the values fetched for it.
JudgeInv ==
  /\ pc \in {"idle", "items"} => up = {} /\ down = {} /\ fired = {}
  /\ pc = "idle" => copy = NoCopy
  /\ pc = "items" => todo = {r \in Rule : copy[r] # NoRow}
  /\ pc = "judge_items" =>
       /\ Selected("service") \subseteq todo
       /\ up \cup down \subseteq Selected("item") \ todo
       /\ \A i \in fired : \E q \in up : copy[q].form.item = i
       /\ \A r \in Selected("item") \ todo :
            ItemSettled(r) /\ \A q \in OfKind("item") : NotAfter(r, q)
  /\ pc = "services" => todo = Selected("service") /\ up \cup down \subseteq Selected("item")
  /\ pc \in {"judge_services", "commit"} =>
       /\ todo \subseteq Selected("service")
       /\ up \cup down \subseteq Rule \ todo
       /\ \A r \in Selected("service") \ todo : ServiceSettled(r)
  /\ pc = "commit" => todo = {}

\* Requests and Zabbix leave the cycle as it is; rules it selected may only go.
LEMMA JudgeKept ==
  ASSUME JudgeInv, UNCHANGED checkVars,
         \A r \in Rule : copy[r] # NoRow /\ r \in Live' => r \in Live
  PROVE  JudgeInv'
<1>1. UNCHANGED <<pc, copy, todo, got, fired, up, down>>
  BY DEF checkVars
<1>2. /\ \A k : Selected(k)' = Selected(k) /\ OfKind(k)' = OfKind(k)
      /\ \A r : Firing(r)' = Firing(r) /\ Fine(r)' = Fine(r)
      /\ \A q, r : NotAfter(q, r)' = NotAfter(q, r)
  BY <1>1 DEF Selected, OfKind, Firing, Fine, NotAfter
<1>3. \A q, r : FiresFor(q, r)' = FiresFor(q, r)
  BY <1>1, <1>2 DEF FiresFor
<1>4. \A k : \A r \in Selected(k) : JudgedBy(r) => JudgedBy(r)'
  BY <1>1, <1>2 DEF JudgedBy, Selected
<1>5. /\ \A r \in Selected("item") : ItemSettled(r) => ItemSettled(r)'
      /\ \A r \in Selected("service") : ServiceSettled(r) => ServiceSettled(r)'
  BY <1>1, <1>2, <1>3, <1>4 DEF ItemSettled, ServiceSettled
<1> QED
  BY <1>1, <1>2, <1>5 DEF JudgeInv

\* A rule is judged: what is found is put down, and nothing else.
LEMMA JudgeOne ==
  ASSUME TxnInv, JudgeInv, NEW r \in todo, Judging(r), todo' = todo \ {r},
         UNCHANGED <<rules, pc, copy, got>>,
         \/ /\ UNCHANGED <<fired, up, down>>
            /\ Firing(r) /\ ~copy[r].firing => Suppressed(r)
            /\ Fine(r) /\ copy[r].firing => r \notin Live
         \/ /\ Firing(r) /\ UNCHANGED down /\ up' = up \cup {r}
            /\ fired' = IF copy[r].form.kind = "item" THEN fired \cup {copy[r].form.item} ELSE fired
         \/ Fine(r) /\ UNCHANGED <<fired, up>> /\ down' = down \cup {r}
  PROVE  JudgeInv'
<1>1. r \in Rule /\ copy[r] \in Row /\ copy[r] # NoRow /\ ~(Firing(r) /\ Fine(r))
  BY DEF TxnInv, TypeOK, Firing, Fine
<1>2. /\ \A k : Selected(k)' = Selected(k) /\ OfKind(k)' = OfKind(k) \ {r}
      /\ \A q : Firing(q)' = Firing(q) /\ Fine(q)' = Fine(q)
      /\ \A p, q : NotAfter(p, q)' = NotAfter(p, q)
      /\ Live' = Live
  BY DEF Selected, OfKind, Firing, Fine, NotAfter, Live
<1>3. up \subseteq up' /\ down \subseteq down' /\ up' \subseteq up \cup {r} /\ down' \subseteq down \cup {r}
  OBVIOUS
<1>4. \A p, q : FiresFor(p, q) => FiresFor(p, q)'
  BY <1>2, <1>3 DEF FiresFor
<1>5. /\ \A q : q # r /\ JudgedBy(q) => JudgedBy(q)'
      /\ \A q : q # r /\ ItemSettled(q) => ItemSettled(q)'
      /\ \A q : q # r /\ ServiceSettled(q) => ServiceSettled(q)'
  <2>1. \A q : q # r /\ JudgedBy(q) => JudgedBy(q)'
    BY <1>2, <1>3 DEF JudgedBy
  <2>2. \A q : q # r /\ ItemSettled(q) => ItemSettled(q)'
    BY <1>2, <1>4, <2>1 DEF ItemSettled
  <2>3. \A q : q # r /\ ServiceSettled(q) => ServiceSettled(q)'
    BY <1>2, <1>3, <2>1 DEF ServiceSettled
  <2> QED
    BY <2>1, <2>2, <2>3
<1>6. r \notin up /\ r \notin down => JudgedBy(r)'
  BY <1>1, <1>2 DEF JudgedBy
<1>7. CASE pc = "judge_items" /\ r \in FirstOf(OfKind("item"))
  <2>1. r \in OfKind("item") /\ r \in Selected("item")
        /\ \A q \in OfKind("item") : NotAfter(r, q)
    BY <1>1, <1>7 DEF FirstOf, OfKind, NotAfter, Selected
  <2>2. r \notin up /\ r \notin down
    BY <1>7 DEF JudgeInv
  <2>3. NotAfter(r, r)
    BY <2>1
  <2>4. Firing(r) => copy[r].firing \/ \E q \in Rule : FiresFor(q, r)'
    <3>1. CASE Firing(r) /\ UNCHANGED up
      <4>1. copy[r].firing \/ copy[r].form.item \in fired
        <5>1. Firing(r) /\ ~copy[r].firing => Suppressed(r)
          BY <1>1, <2>2, <3>1
        <5> QED
          BY <3>1, <5>1 DEF Suppressed
      <4>2. ASSUME NEW q \in up, copy[q].form.item = copy[r].form.item PROVE FiresFor(q, r)
        BY <1>7, <2>1, <4>2 DEF JudgeInv, FiresFor
      <4>3. up \subseteq Rule
        BY DEF TxnInv, TypeOK
      <4> QED
        BY <1>4, <1>7, <4>1, <4>2, <4>3 DEF JudgeInv
    <3>2. CASE up' = up \cup {r}
      <4>1. FiresFor(r, r)'
        BY <1>2, <2>1, <2>3, <3>2 DEF FiresFor
      <4> QED
        BY <1>1, <4>1
    <3> QED
      BY <3>1, <3>2
  <2>5. ItemSettled(r)'
    BY <1>2, <1>6, <2>2, <2>4 DEF ItemSettled
  <2>6. \A i \in fired' : \E q \in up' : copy[q].form.item = i
    BY <1>3, <1>7 DEF JudgeInv
  <2>7. up' \cup down' \subseteq Selected("item") \ todo'
    BY <1>3, <1>7, <2>1 DEF JudgeInv
  <2>8. Selected("service") \subseteq todo'
    BY <1>7, <2>1 DEF JudgeInv, Selected
  <2>9. \A s \in Selected("item") \ todo' :
          ItemSettled(s)' /\ \A q \in OfKind("item")' : NotAfter(s, q)
    <3> SUFFICES ASSUME NEW s \in Selected("item") \ todo'
                 PROVE  ItemSettled(s)' /\ \A q \in OfKind("item")' : NotAfter(s, q)
      OBVIOUS
    <3>1. CASE s = r
      BY <1>2, <2>1, <2>5, <3>1
    <3>2. CASE s # r
      BY <1>2, <1>5, <1>7, <3>2 DEF JudgeInv
    <3> QED
      BY <3>1, <3>2
  <2> QED
    BY <1>2, <1>7, <2>6, <2>7, <2>8, <2>9 DEF JudgeInv
<1>8. CASE pc = "judge_services" /\ r \in FirstOf(OfKind("service"))
  <2>1. r \in Selected("service") /\ r \notin up /\ r \notin down
    BY <1>8 DEF FirstOf, OfKind, JudgeInv
  <2>2. ~Suppressed(r)
    BY <2>1 DEF Suppressed, Selected
  <2>3. ServiceSettled(r)'
    BY <1>1, <1>2, <1>6, <2>1, <2>2 DEF ServiceSettled
  <2>4. \A s \in Selected("service") \ todo' : ServiceSettled(s)'
    BY <1>5, <1>8, <2>3 DEF JudgeInv
  <2>5. up' \cup down' \subseteq Rule \ todo'
    BY <1>1, <1>3, <1>8 DEF JudgeInv
  <2> QED
    BY <1>2, <1>8, <2>4, <2>5 DEF JudgeInv
<1> QED
  BY <1>7, <1>8 DEF Judging

\* No step of the checker or of anybody else breaks the order of judging.
LEMMA JudgeStep ==
  ASSUME TxnInv, JudgeInv, [Next]_vars
  PROVE  JudgeInv'
<1>1. ASSUME EndCycle PROVE JudgeInv'
  BY <1>1 DEF EndCycle, JudgeInv
<1>2. CASE Commit \/ InsertFails \/ Crash
  BY <1>1, <1>2 DEF Commit, InsertFails, Crash
<1>3. CASE SelectRules
  <2>1. /\ pc' = "items" /\ todo' = Enabled /\ UNCHANGED <<fired, up, down>>
        /\ copy' = [r \in Rule |-> IF r \in Enabled THEN rules[r] ELSE NoRow]
        /\ up = {} /\ down = {} /\ fired = {}
    BY <1>3 DEF SelectRules, JudgeInv
  <2>2. \A r \in Rule : copy'[r] # NoRow <=> r \in Enabled
    BY <2>1 DEF Enabled, Live
  <2>3. Enabled = {r \in Rule : copy'[r] # NoRow}
    BY <2>2 DEF Enabled, Live
  <2> QED
    BY <2>1, <2>3 DEF JudgeInv
<1>4. CASE FetchValues \/ FetchFails
  <2>1. /\ UNCHANGED <<rules, copy, todo, fired, up, down>>
        /\ \/ pc = "items" /\ pc' = "judge_items"
           \/ pc = "services" /\ pc' = "judge_services"
    BY <1>4 DEF FetchValues, FetchFails, Fetch
  <2>2. \A k : Selected(k)' = Selected(k)
    BY <2>1 DEF Selected
  <2>3. CASE pc = "items"
    <3>1. \A k : Selected(k) \subseteq todo
      BY <2>3 DEF JudgeInv, Selected
    <3> QED
      BY <2>1, <2>2, <2>3, <3>1 DEF JudgeInv
  <2>4. CASE pc = "services"
    <3>1. todo = Selected("service") /\ up \cup down \subseteq Selected("item")
      BY <2>4 DEF JudgeInv
    <3>2. Selected("item") \subseteq Rule \ Selected("service")
      BY DEF Selected
    <3> QED
      BY <2>1, <2>2, <2>4, <3>1, <3>2 DEF JudgeInv
  <2> QED
    BY <2>1, <2>3, <2>4
<1>5. CASE NextKind
  <2>1. UNCHANGED <<rules, copy, todo, got, fired, up, down>>
    BY <1>5 DEF NextKind
  <2>2. \A k : Selected(k)' = Selected(k)
    BY <2>1 DEF Selected
  <2>3. todo \subseteq Selected("item") \cup Selected("service")
    BY DEF TxnInv, TypeOK, Selected, Row, Form
  <2>4. \A k : OfKind(k) = todo \cap Selected(k)
    BY DEF OfKind, Selected, TxnInv, TypeOK
  <2>5. CASE pc' = "services"
    <3>1. todo \subseteq Selected("service")
      BY <1>5, <2>3, <2>4, <2>5 DEF NextKind
    <3>2. Selected("service") \subseteq todo
      BY <1>5, <2>5 DEF NextKind, JudgeInv, Selected
    <3>3. up \cup down \subseteq Selected("item")
      BY <1>5, <2>5 DEF NextKind, JudgeInv
    <3> QED
      BY <2>1, <2>2, <2>5, <3>1, <3>2, <3>3 DEF JudgeInv
  <2>6. CASE pc' = "commit"
    <3>1. todo = {} /\ pc \in {"services", "judge_services"}
      BY <1>5, <2>6 DEF NextKind
    <3>2. up \cup down \subseteq Rule
      BY DEF TxnInv, TypeOK
    <3>3. \A r \in Selected("service") : ServiceSettled(r)
      BY <3>1 DEF JudgeInv
    <3>4. \A r \in Selected("service") : ServiceSettled(r)'
      BY <2>1, <3>3 DEF ServiceSettled, JudgedBy, Firing, Fine, Live
    <3> QED
      BY <2>1, <2>2, <2>6, <3>1, <3>2, <3>4 DEF JudgeInv
  <2> QED
    BY <1>5, <2>5, <2>6 DEF NextKind
<1>6. CASE Pass
  <2>1. \A r \in todo : copy[r] \in Row
    BY DEF TxnInv, TypeOK
  <2>2. PICK r \in todo :
          /\ Judging(r) /\ todo' = todo \ {r} /\ UNCHANGED <<rules, pc, copy, got, fired, up, down>>
          /\ ~(Firing(r) /\ ~copy[r].firing /\ ~Suppressed(r))
          /\ ~(Fine(r) /\ copy[r].firing)
    BY <1>6 DEF Pass
  <2> QED
    BY <2>2, JudgeOne
<1>7. CASE Fire
  BY <1>7, JudgeOne DEF Fire
<1>8. CASE Recover
  <2>1. PICK r \in todo :
          /\ Judging(r) /\ todo' = todo \ {r} /\ UNCHANGED <<rules, pc, copy, got, fired, up>>
          /\ Fine(r) /\ copy[r].firing
          /\ down' = IF r \in Live THEN down \cup {r} ELSE down
    BY <1>8 DEF Recover
  <2>2. ~Firing(r)
    BY <2>1 DEF Firing, Fine
  <2> QED
    BY <2>1, <2>2, JudgeOne
<1>9. CASE UserStep
  <2>1. UNCHANGED checkVars
    BY <1>9 DEF UserStep, CreateRule, UpdateRule, ToggleRule, DeleteRule
  <2>2. \A r \in Rule : copy[r] # NoRow /\ rules[r] = NoRow => rules'[r] = NoRow
    BY <1>9 DEF UserStep, CreateRule, UpdateRule, ToggleRule, DeleteRule, Live, TxnInv, TypeOK
  <2> QED
    BY <2>1, <2>2, JudgeKept DEF Live
<1>10. CASE Report \/ UNCHANGED vars
  BY <1>10, JudgeKept DEF Report, vars, Live
<1> QED
  BY <1>2, <1>3, <1>4, <1>5, <1>6, <1>7, <1>8, <1>9, <1>10 DEF Next, CheckerStep

\* At the start nothing is selected.
LEMMA JudgeInit == Init => JudgeInv
BY DEF Init, JudgeInv

\* A cycle passes over no item rule (_process_item_rules): when it is through
\* with them, each that is met fires already or leaves the turn to one of its
\* item before it, and each that is over is put back, whatever users did to the
\* rules meanwhile.
THEOREM EveryItemRuleJudged == Spec => []ItemsJudged
<1>1. JudgeInv => ItemsJudged
  <2> SUFFICES ASSUME JudgeInv, pc = "judge_items", OfKind("item") = {}, NEW r \in Selected("item")
               PROVE  ItemSettled(r)
    BY DEF ItemsJudged
  <2>1. r \notin todo
    BY DEF OfKind, Selected
  <2> QED
    BY <2>1 DEF JudgeInv
<1>2. TxnInv /\ [Next]_vars => TxnInv'
  BY CheckerAssumption, TxnStep
<1>3. TxnInv /\ JudgeInv /\ [Next]_vars => JudgeInv'
  BY JudgeStep
<1> QED
  BY InitInv, JudgeInit, <1>1, <1>2, <1>3, PTL DEF Spec

\* A cycle that commits leaves every service rule firing exactly if its service
\* is not as expected, or was not readable while the rule was firing.
THEOREM EveryServiceRuleJudged == Spec => ServicesJudged
<1>1. TxnInv /\ JudgeInv /\ [Next]_vars =>
        [Commit => \A r \in Selected("service") \cap Live :
           rules'[r].firing = (Firing(r) \/ (~Fine(r) /\ copy[r].firing))]_vars
  <2> SUFFICES ASSUME TxnInv, JudgeInv, Commit, NEW r \in Selected("service") \cap Live
               PROVE  rules'[r].firing = (Firing(r) \/ (~Fine(r) /\ copy[r].firing))
    OBVIOUS
  <2>1. ServiceSettled(r)
    BY DEF JudgeInv, Commit
  <2>2. /\ copy[r] \in Row /\ rules[r] \in Row /\ copy[r].firing = rules[r].firing
        /\ copy[r].firing \in BOOLEAN
    BY DEF Selected, Live, TxnInv, TypeOK, CopiesAgree, Row
  <2>3. ~(Firing(r) /\ Fine(r))
    BY DEF Firing, Fine
  <2>4. CASE r \in up
    <3>1. Firing(r) /\ rules'[r] = [rules[r] EXCEPT !.firing = r \in up]
      BY <2>1, <2>4, CheckerAssumption, CommitEffect DEF ServiceSettled, JudgedBy
    <3> QED
      BY <2>2, <2>4, <3>1 DEF Row
  <2>5. CASE r \in down /\ r \notin up
    <3>1. Fine(r) /\ rules'[r] = [rules[r] EXCEPT !.firing = r \in up]
      BY <2>1, <2>5, CheckerAssumption, CommitEffect DEF ServiceSettled, JudgedBy
    <3> QED
      BY <2>2, <2>3, <2>5, <3>1 DEF Row
  <2>6. CASE r \notin up \cup down
    <3>1. rules'[r] = rules[r] /\ r \in Rule
      BY <2>6, CheckerAssumption, CommitEffect DEF Live
    <3> QED
      BY <2>1, <2>2, <2>3, <2>6, <3>1 DEF ServiceSettled, JudgedBy
  <2> QED
    BY <2>4, <2>5, <2>6
<1>2. TxnInv /\ [Next]_vars => TxnInv'
  BY CheckerAssumption, TxnStep
<1>3. TxnInv /\ JudgeInv /\ [Next]_vars => JudgeInv'
  BY JudgeStep
<1> QED
  BY InitInv, JudgeInit, <1>1, <1>2, <1>3, PTL DEF Spec, ServicesJudged

-----------------------------------------------------------------------------
(* Polls: the lists of toasts *)

\* The order of numbers.
Below == {s \in Nat \X Nat : s[1] < s[2]}

\* InOrder lists a finite set of numbers, the smallest first.
LEMMA NumbersInOrder ==
  ASSUME NEW S \in SUBSET Nat, IsFiniteSet(S)
  PROVE  /\ InOrder(S) \in [1..Cardinality(S) -> S]
         /\ \A i, j \in 1..Cardinality(S) : i < j => InOrder(S)[i] < InOrder(S)[j]
<1> DEFINE P(q) == \A i, j \in DOMAIN q : i < j => q[i] < q[j]
<1>1. IsOrder(Below, S)
  BY DEF IsOrder, Below
<1>2. PICK q : Enumerates(q, S, Below)
  BY <1>1, ListExists
<1>3. q \in [1..Cardinality(S) -> S] /\ P(q)
  BY <1>2 DEF Enumerates, Below
<1>4. InOrder(S) = CHOOSE p \in [1..Cardinality(S) -> S] : P(p)
  BY DEF InOrder
<1>5. InOrder(S) \in [1..Cardinality(S) -> S] /\ P(InOrder(S))
  <2> HIDE DEF P
  <2> QED BY <1>3, <1>4
<1> QED BY <1>5

LEMMA InOrderIsList ==
  ASSUME NEW T, NEW S \in SUBSET (T \cap Nat), IsFiniteSet(S)
  PROVE  InOrder(S) \in Seq(T) /\ Len(InOrder(S)) = Cardinality(S)
<1>1. Cardinality(S) \in Nat
  BY FS_CardinalityType
<1>2. InOrder(S) \in [1..Cardinality(S) -> S]
  BY NumbersInOrder
<1> QED BY <1>1, <1>2

\* Taking toasts away leaves a list that is no longer.
LEMMA WithoutIsShorter ==
  ASSUME NEW T, NEW q \in Seq(T), NEW S
  PROVE  Without(q, S) \in Seq(T) /\ Len(Without(q, S)) <= Len(q)
<1> DEFINE kept == {i \in DOMAIN q : q[i] \notin S}
           left == InOrder(kept)
<1>1. Len(q) \in Nat /\ DOMAIN q = 1..Len(q) /\ IsFiniteSet(1..Len(q)) /\ Cardinality(1..Len(q)) = Len(q)
  <2>1. Len(q) \in Nat /\ DOMAIN q = 1..Len(q)
    OBVIOUS
  <2>2. \A n \in Nat : IsFiniteSet(1..n) /\ Cardinality(1..n) = n
    <3> TAKE n \in Nat
    <3>1. 1 \in Int /\ n \in Int /\ (IF 1 > n THEN 0 ELSE n - 1 + 1) = n
      OBVIOUS
    <3> QED BY <3>1, FS_Interval
  <2> QED BY <2>1, <2>2
<1>2. kept \in SUBSET (1..Len(q)) /\ kept \in SUBSET Nat
  BY <1>1
<1>3. IsFiniteSet(kept) /\ Cardinality(kept) <= Len(q) /\ Cardinality(kept) \in Nat
  <2> HIDE DEF kept
  <2> DEFINE all == 1..Len(q)
  <2>1. kept \in SUBSET all /\ IsFiniteSet(all) /\ Cardinality(all) = Len(q)
    BY <1>1, <1>2
  <2> HIDE DEF all
  <2>2. IsFiniteSet(kept) /\ Cardinality(kept) <= Cardinality(all)
    BY <2>1, FS_Subset
  <2> QED BY <2>1, <2>2, FS_CardinalityType
<1>4. left \in [1..Cardinality(kept) -> kept]
  <2> HIDE DEF kept
  <2> QED BY <1>2, <1>3, NumbersInOrder
<1>5. Without(q, S) = [k \in 1..Cardinality(kept) |-> q[left[k]]]
  BY <1>4 DEF Without
<1>6. Without(q, S) \in [1..Cardinality(kept) -> T]
  <2>1. \A k \in 1..Cardinality(kept) : left[k] \in 1..Len(q)
    BY <1>2, <1>4
  <2> HIDE DEF kept, left
  <2> QED BY <1>5, <2>1
<1> QED
  <2> HIDE DEF kept, left
  <2> QED BY <1>1, <1>3, <1>6

\* The newest toasts are at most Cap.
LEMMA TopIsShort ==
  ASSUME NEW T, NEW q \in Seq(T)
  PROVE  Top(q) \in Seq(T) /\ Len(Top(q)) <= Cap
<1> DEFINE n == IF Len(q) < Cap THEN Len(q) ELSE Cap
<1>1. n \in Nat /\ n <= Len(q) /\ n <= Cap /\ Cap \in Nat /\ Len(q) \in Nat
  BY PollingAssumption
<1>2. Top(q) = SubSeq(q, 1, n)
  BY DEF Top
<1> HIDE DEF n
<1>3. SubSeq(q, 1, n) \in Seq(T) /\ Len(SubSeq(q, 1, n)) = n
  <2>1. 1 \in 1..Len(q) + 1 /\ n \in (1 - 1)..Len(q)
    BY <1>1
  <2> QED BY <1>1, <2>1, SubSeqProperties
<1> QED BY <1>1, <1>2, <1>3

-----------------------------------------------------------------------------
(* Polls: types *)

\* What Zabbix or a failed fetch answers is a list.
LEMMA ListTypes ==
  /\ EmptyList \in Listing /\ EmptyList.of = NoList.of
  /\ NoList.of \in [Problem -> {"none", "open", "acked"}]
  /\ (PollTypeOK => AtZabbix \in Listing /\ AtZabbix.rev = rev)
<1>1. NoList.of \in [Problem -> {"none", "open", "acked"}]
  BY DEF NoList
<1>2. EmptyList = [rev |-> -1, of |-> NoList.of]
  BY DEF EmptyList, NoList
<1>3. EmptyList \in Listing /\ EmptyList.of = NoList.of
  BY <1>1, <1>2, PollingAssumption DEF Listing
<1>4. ASSUME PollTypeOK PROVE AtZabbix \in Listing /\ AtZabbix.rev = rev
  <2>1. \A p \in Problem : problems[p] \in Status
    BY <1>4 DEF PollTypeOK
  <2>2. [p \in Problem |-> IF problems[p] = "gone" THEN "none" ELSE problems[p]]
          \in [Problem -> {"none", "open", "acked"}]
    BY <2>1 DEF Status
  <2> QED BY <1>4, <2>2 DEF AtZabbix, Listing, PollTypeOK
<1> QED BY <1>1, <1>3, <1>4

\* Every change of the toasts yields a list of at most Cap.
LEMMA ToastTypes ==
  ASSUME NEW q \in Seq(Problem \cup {0})
  PROVE  /\ Top(q) \in Seq(Problem \cup {0}) /\ Len(Top(q)) <= Cap
         /\ \A S : Without(q, S) \in Seq(Problem \cup {0}) /\ Len(Without(q, S)) <= Len(q)
         /\ \A S \in SUBSET Problem : Top(InOrder(S) \o q) \in Seq(Problem \cup {0}) /\ Len(Top(InOrder(S) \o q)) <= Cap
<1> DEFINE T == Problem \cup {0}
<1>1. Top(q) \in Seq(T) /\ Len(Top(q)) <= Cap
  BY TopIsShort
<1>2. \A S : Without(q, S) \in Seq(T) /\ Len(Without(q, S)) <= Len(q)
  BY WithoutIsShorter
<1>3. ASSUME NEW S \in SUBSET Problem
      PROVE  Top(InOrder(S) \o q) \in Seq(T) /\ Len(Top(InOrder(S) \o q)) <= Cap
  <2>1. IsFiniteSet(S) /\ S \in SUBSET (T \cap Nat)
    BY PollingAssumption, FS_Subset
  <2> HIDE DEF T
  <2>2. InOrder(S) \in Seq(T)
    BY <2>1, InOrderIsList
  <2>3. InOrder(S) \o q \in Seq(T)
    BY <2>2, ConcatProperties DEF T
  <2> QED BY <2>3, TopIsShort
<1> QED BY <1>1, <1>2, <1>3

LEMMA PollTypesKept ==
  ASSUME PollTypeOK, [PollNext]_pollVars
  PROVE  PollTypeOK'
<1> USE DEF PollTypeOK
<1>1. ASSUME NEW p \in Problem, NEW from, NEW to \in Status, ProblemBecomes(p, from, to),
             cache' \in {cache, NoList}, late' \in SUBSET Problem, acked' \in SUBSET Problem
      PROVE  PollTypeOK'
  <2>1. problems' \in [Problem -> Status] /\ rev' \in 0..MaxRev
    BY <1>1, PollingAssumption DEF ProblemBecomes
  <2> QED BY <1>1, <2>1 DEF ProblemBecomes, shellVars
<1>2. ASSUME NEW p \in Problem, Raise(p) PROVE PollTypeOK'
  <2>1. late' \in SUBSET Problem /\ acked' \in SUBSET Problem /\ cache' \in {cache, NoList}
    BY <1>2 DEF Raise
  <2> QED BY <1>1, <1>2, <2>1 DEF Raise, Status
<1>3. ASSUME NEW p \in Problem, Resolve(p) PROVE PollTypeOK'
  <2>1. late' \in SUBSET Problem /\ acked' \in SUBSET Problem /\ cache' \in {cache, NoList}
    BY <1>3 DEF Resolve
  <2> QED BY <1>1, <1>3, <2>1 DEF Resolve, Status
<1>4. ASSUME NEW p \in Problem, acknowledge_problem(p) PROVE PollTypeOK'
  <2>1. late' \in SUBSET Problem /\ acked' \in SUBSET Problem /\ cache' \in {cache, NoList}
    BY <1>4 DEF acknowledge_problem
  <2> QED BY <1>1, <1>4, <2>1 DEF acknowledge_problem, Status
<1>5. ASSUME NEW p \in Problem, unacknowledge_problem(p) PROVE PollTypeOK'
  <2>1. late' \in SUBSET Problem /\ acked' \in SUBSET Problem /\ cache' \in {cache, NoList}
    BY <1>5 DEF unacknowledge_problem
  <2> QED BY <1>1, <1>5, <2>1 DEF unacknowledge_problem, Status
<1>6. ASSUME NEW q, NEW S, ShowToasts(q), q \in Seq(Problem \cup {0}), Len(q) <= Cap,
             snoozed' \in SUBSET Problem
      PROVE  PollTypeOK'
  BY <1>6 DEF ShowToasts, zabbixVars
<1>7. /\ Len(toasts) \in Nat /\ Len(toasts) <= Cap /\ Cap \in Nat
      /\ \A S : Without(toasts, S) \in Seq(Problem \cup {0}) /\ Len(Without(toasts, S)) <= Cap
  <2>1. \A S : Without(toasts, S) \in Seq(Problem \cup {0}) /\ Len(Without(toasts, S)) <= Len(toasts)
    BY ToastTypes
  <2>2. \A S : Len(Without(toasts, S)) \in Nat
    BY <2>1
  <2>3. Len(toasts) \in Nat /\ Len(toasts) <= Cap /\ Cap \in Nat
    BY PollingAssumption
  <2> QED BY <2>1, <2>2, <2>3
<1>8. ASSUME NEW p \in Problem, Snooze(p) PROVE PollTypeOK'
  BY <1>6, <1>7, <1>8 DEF Snooze
<1>9. ASSUME NEW p \in Problem, SnoozeEnds(p) PROVE PollTypeOK'
  BY <1>9 DEF SnoozeEnds, zabbixVars, shellVars
<1>10. ASSUME NEW x \in Problem \cup {0}, Dismiss(x) PROVE PollTypeOK'
  BY <1>6, <1>7, <1>10 DEF Dismiss
<1>11. CASE AutoDismiss
  BY <1>6, <1>7, <1>11 DEF AutoDismiss
<1>12. CASE DismissAll
  <2>1. <<>> \in Seq(Problem \cup {0}) /\ Len(<<>>) <= Cap
    BY <1>7
  <2> QED BY <1>6, <1>12, <2>1 DEF DismissAll
<1>13. CASE RuleToast
  <2>1. <<0>> \o toasts \in Seq(Problem \cup {0})
    <3>1. <<0>> \in Seq(Problem \cup {0})
      OBVIOUS
    <3> QED BY <3>1, ConcatProperties
  <2>2. Top(<<0>> \o toasts) \in Seq(Problem \cup {0}) /\ Len(Top(<<0>> \o toasts)) <= Cap
    BY <2>1, TopIsShort
  <2> QED BY <1>6, <1>13, <2>2 DEF RuleToast
<1>14. CASE Ring
  <2>1. Ringing \in SUBSET Problem
    BY DEF Ringing, Open
  <2>2. toasts' \in Seq(Problem \cup {0}) /\ Len(toasts') <= Cap
    BY <1>7, <1>14, <2>1, ToastTypes DEF Ring
  <2> QED BY <1>14, <2>2 DEF Ring, zabbixVars
<1>15. ASSUME NEW q \in Call, NEW r \in Call, Becomes(q, r),
              cache' \in Listing \cup {NoList},
              UNCHANGED <<zabbixVars, healthy, shellVars, snoozed>>
       PROVE  PollTypeOK'
  <2>1. calls' \subseteq Call
    BY <1>15 DEF Becomes
  <2> QED BY <1>15, <2>1 DEF zabbixVars, shellVars
<1>16. ASSUME NEW q \in calls, CacheHit(q) PROVE PollTypeOK'
  <2>1. [q EXCEPT !.at = "answered", !.list = cache] \in Call /\ q \in Call
    BY DEF Call
  <2> QED BY <1>15, <1>16, <2>1 DEF CacheHit
<1>17. ASSUME NEW q \in calls, NEW list \in Listing, Fetched(q, list) PROVE PollTypeOK'
  <2>1. [q EXCEPT !.at = "fetched", !.list = list] \in Call /\ q \in Call
    BY DEF Call
  <2> QED BY <1>15, <1>17, <2>1 DEF Fetched
<1>18. ASSUME NEW q \in calls, CacheStore(q) PROVE PollTypeOK'
  <2>1. [q EXCEPT !.at = "answered"] \in Call /\ q \in Call /\ q.list \in Listing \cup {NoList}
    BY DEF Call
  <2> QED BY <1>15, <1>18, <2>1 DEF CacheStore
<1>19. ASSUME NEW q \in calls, PollAnswered(q) PROVE PollTypeOK'
  <2> DEFINE new == NewOf(q.list.of)
  <2>1. q \in Call /\ q.list \in Listing \cup {NoList}
    BY DEF Call
  <2>2. q.list.of \in [Problem -> {"none", "open", "acked"}] /\ q.list.rev \in -2..MaxRev
    <3>1. CASE q.list = NoList
      BY <3>1, ListTypes, PollingAssumption DEF NoList
    <3>2. CASE q.list \in Listing
      BY <3>2, PollingAssumption DEF Listing
    <3> QED BY <2>1, <3>1, <3>2
  <2>3. new \in SUBSET Problem /\ seen' \subseteq Problem
    BY <1>19 DEF PollAnswered, SeenAfter, NewOf, Listed
  <2> HIDE DEF new
  <2>4. toasts' \in Seq(Problem \cup {0}) /\ Len(toasts') <= Cap
    <3>1. toasts' = IF new = {} THEN toasts ELSE Top(InOrder(new) \o toasts)
      BY <1>19 DEF PollAnswered, new
    <3> QED BY <1>7, <2>3, <3>1, ToastTypes
  <2>5. told' \in [Problem -> 0..2]
    <3>1. told' = [p \in Problem |-> IF p \in new /\ told[p] < 2 THEN told[p] + 1 ELSE told[p]]
      BY <1>19 DEF PollAnswered, new
    <3> QED BY <3>1
  <2>6. newest' \in -2..MaxRev /\ disorder' \in BOOLEAN
    BY <1>19, <2>2 DEF PollAnswered
  <2>7. calls' \subseteq Call /\ active' \in [Problem -> {"none", "open", "acked"}] /\ firstPoll' \in BOOLEAN
    BY <1>19, <2>2 DEF PollAnswered
  <2> QED
    BY <1>19, <2>3, <2>4, <2>5, <2>6, <2>7 DEF PollAnswered, zabbixVars
<1>20. ASSUME NEW q \in calls, CallFails(q) PROVE PollTypeOK'
  BY <1>20 DEF CallFails, zabbixVars, shellVars
<1>21. CASE CacheExpires \/ Recovers
  BY <1>21 DEF CacheExpires, Recovers, zabbixVars, shellVars
<1>22. CASE Poll
  <2>1. [at |-> "asked", list |-> NoList] \in Call
    BY DEF Call
  <2> QED BY <1>22, <2>1 DEF Poll, zabbixVars, shellVars
<1>23. CASE OpenDrawer
  <2>1. PICK list \in Listing \cup {NoList} : ShowInDrawer(list) /\ list # NoList
    BY <1>23, ListTypes DEF OpenDrawer, Listing, NoList
  <2>2. list.of \in [Problem -> {"none", "open", "acked"}]
    BY <2>1 DEF Listing
  <2> QED BY <2>1, <2>2 DEF ShowInDrawer, SeenStill, zabbixVars
<1>24. CASE UNCHANGED pollVars
  BY <1>24 DEF pollVars, zabbixVars, shellVars
<1> QED
  BY <1>2, <1>3, <1>4, <1>5, <1>8, <1>9, <1>10, <1>11, <1>12, <1>13, <1>14, <1>16, <1>17, <1>18,
     <1>19, <1>20, <1>21, <1>22, <1>23, <1>24, ListTypes
  DEF PollNext, _fetch_problems, _fetch_problemsFails

\* What the browser keeps is a list of Zabbix, or none, and no more than Cap
\* toasts are up, whatever is raised, rung or dismissed in whatever order.
THEOREM PollTypes == PollSpec => []PollTypeOK
<1>1. PollInit => PollTypeOK
  <2> SUFFICES ASSUME PollInit PROVE PollTypeOK
    OBVIOUS
  <2>1. toasts \in Seq(Problem \cup {0}) /\ Len(toasts) <= Cap
    BY PollingAssumption DEF PollInit
  <2>2. problems \in [Problem -> Status] /\ told \in [Problem -> 0..2]
    BY DEF PollInit, Status
  <2>3. active \in [Problem -> {"none", "open", "acked"}]
    BY ListTypes DEF PollInit
  <2>4. rev \in 0..MaxRev /\ newest \in -2..MaxRev
    BY PollingAssumption DEF PollInit
  <2> QED BY <2>1, <2>2, <2>3, <2>4 DEF PollInit, PollTypeOK
<1>2. PollTypeOK /\ [PollNext]_pollVars => PollTypeOK'
  BY PollTypesKept
<1> QED BY <1>1, <1>2, PTL DEF PollSpec

-----------------------------------------------------------------------------
(* A problem is told once: the lists that are still on their way *)

\* The list of the browser, as long as lists were answered in order.
Page == [rev |-> newest, of |-> [p \in Problem |-> IF p \in seen THEN "open" ELSE "none"]]
\* The lists a browser may yet be told, or has been.
Lists == {cache, AtZabbix} \cup {q.list : q \in calls} \cup (IF disorder THEN {} ELSE {Page})

\* A list is of some moment of Zabbix, or empty.
Known(l) ==
  /\ l.rev \in Int /\ l.rev <= rev
  /\ l.rev < 0 => Listed(l.of) = {}
  /\ \A p \in Listed(l.of) : problems[p] # "none"

\* What has left the list does not come back in a later one.
OnceOut(C) ==
  \A l, m, n \in C :
    l.rev <= m.rev /\ m.rev <= n.rev =>
      \A p \in Problem : p \in Listed(l.of) /\ p \notin Listed(m.of) => p \notin Listed(n.of)

\* What was told and is not on the page any more is in no later list.
ToldIsPast(C) ==
  \A p \in Problem : told[p] > 0 /\ p \notin seen =>
    \A l \in C : l.rev >= newest => p \notin Listed(l.of)

OnceInv ==
  /\ \A l \in Lists : Known(l)
  /\ OnceOut(Lists)
  /\ \A p \in Problem : told[p] > 0 => problems[p] # "none"
  /\ disorder \/ ToldIsPast(Lists)
  /\ ToldOnce

LEMMA PageListed == seen \subseteq Problem => Listed(Page.of) = seen /\ Page.rev = newest
  BY DEF Page, Listed

\* Nothing changes at Zabbix, and no list comes up that is not there or empty.
LEMMA OnceKept ==
  ASSUME PollTypeOK, PollTypeOK', OnceInv,
         UNCHANGED <<problems, rev, seen, told, newest, disorder>>,
         \A l \in Lists' : l \in Lists \/ (l.rev \in {-1, -2} /\ Listed(l.of) = {})
  PROVE  OnceInv'
<1>1. AtZabbix' = AtZabbix /\ \A of : Listed(of)' = Listed(of)
  BY DEF AtZabbix, Listed
<1>2. rev \in Nat /\ newest \in Int
  BY PollingAssumption DEF PollTypeOK
<1>3. \A l \in Lists' : Known(l)
  BY <1>2 DEF OnceInv, Known
<1>4. \A l \in Lists' : Known(l)'
  BY <1>1, <1>3 DEF Known
<1>5. \A l \in Lists' : l \in Lists \/ Listed(l.of) = {}
  OBVIOUS
<1>6. \A l, m \in Lists' : l.rev <= m.rev /\ m \notin Lists => Listed(l.of) = {}
  BY <1>3 DEF Known
<1>7. OnceOut(Lists)'
  <2> SUFFICES ASSUME NEW l \in Lists', NEW m \in Lists', NEW n \in Lists',
                      l.rev <= m.rev, m.rev <= n.rev,
                      NEW p \in Problem, p \in Listed(l.of), p \notin Listed(m.of)
               PROVE  p \notin Listed(n.of)
    BY <1>1 DEF OnceOut
  <2>1. l \in Lists /\ m \in Lists
    BY <1>5, <1>6
  <2> QED BY <1>5, <2>1 DEF OnceOut, OnceInv
<1>8. disorder' \/ ToldIsPast(Lists)'
  BY <1>1, <1>5 DEF OnceInv, ToldIsPast
<1> QED BY <1>4, <1>7, <1>8 DEF OnceInv, ToldOnce

\* Zabbix moves on.
LEMMA OnceChanged ==
  ASSUME PollTypeOK, PollTypeOK', OnceInv, rev' = rev + 1,
         UNCHANGED <<seen, told, newest, disorder, calls>>, cache' \in {cache, NoList},
         \A p \in Problem : problems[p] # "none" => problems'[p] # "none",
         \A p \in Problem : problems[p] = "gone" => problems'[p] = "gone"
  PROVE  OnceInv'
<1> DEFINE Old == {l \in Lists' : l \in Lists \/ l = NoList}
<1>1. AtZabbix'.rev = rev + 1 /\ AtZabbix.rev = rev /\ rev \in Nat /\ newest \in Int /\ AtZabbix \in Lists
  BY PollingAssumption DEF AtZabbix, PollTypeOK, Lists
<1>2. \A of : Listed(of)' = Listed(of)
  BY DEF Listed
<1>3. Listed(AtZabbix.of) = {p \in Problem : problems[p] \notin {"none", "gone"}}
  BY DEF AtZabbix, Listed
<1>4. Listed(AtZabbix'.of) = {p \in Problem : problems'[p] \notin {"none", "gone"}}
  BY DEF AtZabbix, Listed
<1>5. \A l \in Lists' : l \in Old \/ l = AtZabbix'
  BY DEF Lists, Page
<1>6. NoList.rev = -2 /\ Listed(NoList.of) = {}
  BY DEF NoList, Listed
<1>7. \A l \in Old : Known(l)
  BY <1>1, <1>6 DEF OnceInv, Known
<1>8. \A l \in Lists' : Known(l)'
  <2>1. ASSUME NEW l \in Old PROVE Known(l)'
    BY <1>1, <1>2, <1>7 DEF Known, Listed
  <2>2. ASSUME NEW l \in Lists', l = AtZabbix' PROVE Known(l)'
    BY <1>1, <1>2, <1>4, <2>2 DEF Known
  <2> QED BY <1>5, <2>1, <2>2
<1>9. \A l \in Old : l.rev \in Int /\ l.rev <= rev
  BY <1>7 DEF Known
<1>10. \A l, m \in Old : l.rev <= m.rev /\ m \notin Lists => Listed(l.of) = {}
  BY <1>6, <1>7 DEF Known
<1>11. \A l \in Old : l \in Lists \/ Listed(l.of) = {}
  BY <1>6
<1>12. ASSUME NEW l \in Old, NEW m \in Old, l.rev <= m.rev,
              NEW p \in Problem, p \in Listed(l.of), p \notin Listed(m.of)
       PROVE  problems[p] = "gone"
  <2>1. l \in Lists /\ m \in Lists
    BY <1>10, <1>11, <1>12
  <2>2. p \notin Listed(AtZabbix.of)
    BY <1>1, <1>9, <1>12, <2>1 DEF OnceOut, OnceInv
  <2>3. problems[p] # "none"
    BY <1>7, <1>12 DEF Known
  <2> QED BY <1>3, <2>2, <2>3
<1>13. OnceOut(Lists)'
  <2> SUFFICES ASSUME NEW l \in Lists', NEW m \in Lists', NEW n \in Lists',
                      l.rev <= m.rev, m.rev <= n.rev,
                      NEW p \in Problem, p \in Listed(l.of), p \notin Listed(m.of)
               PROVE  p \notin Listed(n.of)
    BY <1>2 DEF OnceOut
  <2>1. CASE m = AtZabbix'
    <3>1. n = AtZabbix'
      BY <1>1, <1>5, <1>9, <2>1
    <3> QED BY <2>1, <3>1
  <2>2. CASE m \in Old
    <3>1. l \in Old
      BY <1>1, <1>5, <1>9, <2>2
    <3>2. CASE n \in Old
      <4>1. l \in Lists /\ m \in Lists
        BY <1>10, <1>11, <2>2, <3>1
      <4> QED BY <1>11, <3>2, <4>1 DEF OnceOut, OnceInv
    <3>3. CASE n = AtZabbix'
      BY <1>4, <1>12, <2>2, <3>1, <3>3
    <3> QED BY <1>5, <3>2, <3>3
  <2> QED BY <1>5, <2>1, <2>2
<1>14. ASSUME ~disorder PROVE ToldIsPast(Lists)'
  <2> SUFFICES ASSUME NEW p \in Problem, told[p] > 0, p \notin seen,
                      NEW l \in Lists', l.rev >= newest
               PROVE  p \notin Listed(l.of)
    BY <1>2 DEF ToldIsPast
  <2>1. newest <= rev
    <3>1. Page \in Lists /\ Page.rev = newest
      BY <1>14 DEF Lists, Page
    <3> QED BY <3>1 DEF OnceInv, Known
  <2>2. CASE l \in Old
    BY <1>11, <1>14, <2>2 DEF OnceInv, ToldIsPast
  <2>3. CASE l = AtZabbix'
    <3>1. p \notin Listed(AtZabbix.of)
      BY <1>1, <1>14, <2>1 DEF OnceInv, ToldIsPast
    <3>2. problems[p] # "none"
      BY DEF OnceInv
    <3> QED BY <1>3, <1>4, <2>3, <3>1, <3>2
  <2> QED BY <1>5, <2>2, <2>3
<1> QED BY <1>8, <1>13, <1>14 DEF OnceInv, ToldOnce

\* A list is answered.
LEMMA OnceAnswered ==
  ASSUME PollTypeOK, PollTypeOK', OnceInv, NEW q \in calls, PollAnswered(q)
  PROVE  OnceInv'
<1> DEFINE list == q.list
           S == Listed(list.of)
<1>1. UNCHANGED <<problems, rev, cache>> /\ calls' \subseteq calls /\ list \in Lists
  BY DEF PollAnswered, zabbixVars, Lists
<1>2. AtZabbix' = AtZabbix /\ \A of : Listed(of)' = Listed(of)
  BY <1>1 DEF AtZabbix, Listed
<1>3. /\ seen' = S /\ S \in SUBSET Problem
      /\ disorder' = (disorder \/ list.rev < newest \/ list.rev = -1)
      /\ newest' = IF list.rev > newest THEN list.rev ELSE newest
  BY <1>2 DEF PollAnswered, SeenAfter, Listed
<1>4. \A p \in Problem : told'[p] # told[p] =>
        p \in S \ seen /\ told'[p] = told[p] + 1
  BY DEF PollAnswered, NewOf, PollTypeOK
<1>5. newest \in Int /\ list.rev \in Int /\ rev \in Int /\ told \in [Problem -> 0..2] /\ told' \in [Problem -> 0..2]
  BY <1>1, PollingAssumption DEF PollTypeOK, OnceInv, Known
<1>6. \A p \in Problem : told'[p] > 0 => problems'[p] # "none"
  BY <1>1, <1>4, <1>5 DEF OnceInv, Known
<1>7. Known(list) /\ Known(AtZabbix)
  BY <1>1 DEF OnceInv, Lists
<1> HIDE DEF list
<1>8. CASE disorder'
  <2>1. Lists' \subseteq Lists
    BY <1>1, <1>2, <1>8 DEF Lists
  <2>2. \A l \in Lists' : Known(l)'
    BY <1>1, <1>2, <2>1 DEF OnceInv, Known
  <2>3. OnceOut(Lists)'
    BY <1>2, <2>1 DEF OnceInv, OnceOut
  <2> QED BY <1>6, <1>8, <2>2, <2>3 DEF OnceInv, ToldOnce
<1>9. CASE ~disorder'
  <2>1. newest' = list.rev /\ newest <= list.rev /\ ~disorder
    <3>1. ~disorder /\ ~(list.rev < newest)
      BY <1>3, <1>9, Zenon
    <3> QED BY <1>3, <1>5, <3>1
  <2>2. Page \in Lists /\ Page.rev = newest /\ Listed(Page.of) = seen
    BY <2>1, PageListed DEF Lists, PollTypeOK
  <2>3. Page'.rev = list.rev /\ Listed(Page'.of) = S
    BY <1>3, <2>1 DEF Page, Listed
  <2>4. \A l \in Lists' : l \in Lists \/ l = Page'
    BY <1>1, <1>2 DEF Lists
  <2>5. \A l \in Lists' : \E k \in Lists : k.rev = l.rev /\ Listed(k.of) = Listed(l.of)
    BY <1>1, <2>3, <2>4
  <2>6. \A l \in Lists' : Known(l)'
    BY <1>1, <1>2, <2>5 DEF OnceInv, Known
  <2>7. OnceOut(Lists)'
    <3> SUFFICES ASSUME NEW l \in Lists', NEW m \in Lists', NEW n \in Lists',
                        l.rev <= m.rev, m.rev <= n.rev,
                        NEW p \in Problem, p \in Listed(l.of), p \notin Listed(m.of)
                 PROVE  p \notin Listed(n.of)
      BY <1>2 DEF OnceOut
    <3>1. PICK a \in Lists : a.rev = l.rev /\ Listed(a.of) = Listed(l.of)
      BY <2>5
    <3>2. PICK b \in Lists : b.rev = m.rev /\ Listed(b.of) = Listed(m.of)
      BY <2>5
    <3>3. PICK c \in Lists : c.rev = n.rev /\ Listed(c.of) = Listed(n.of)
      BY <2>5
    <3> QED BY <3>1, <3>2, <3>3 DEF OnceOut, OnceInv
  <2>8. ToldIsPast(Lists)'
    <3> SUFFICES ASSUME NEW p \in Problem, told'[p] > 0, p \notin S,
                        NEW l \in Lists', l.rev >= list.rev
                 PROVE  p \notin Listed(l.of)
      BY <1>2, <1>3, <2>1 DEF ToldIsPast
    <3>1. told[p] > 0
      BY <1>4
    <3>2. PICK k \in Lists : k.rev = l.rev /\ Listed(k.of) = Listed(l.of)
      BY <2>5
    <3>3. k.rev \in Int
      BY <3>2 DEF OnceInv, Known
    <3>4. CASE p \in seen
      BY <1>1, <2>1, <2>2, <3>2, <3>4 DEF OnceInv, OnceOut
    <3>5. CASE p \notin seen
      BY <1>5, <2>1, <3>1, <3>2, <3>3, <3>5 DEF OnceInv, ToldIsPast
    <3> QED BY <3>4, <3>5
  <2>9. ASSUME NEW p \in Problem PROVE told'[p] <= 1
    <3>1. told[p] <= 1
      BY <2>1 DEF OnceInv, ToldOnce
    <3>2. CASE told'[p] # told[p]
      <4>1. p \in S \ seen /\ told'[p] = told[p] + 1
        BY <1>4, <3>2
      <4>2. ~(told[p] > 0)
        BY <1>1, <1>5, <2>1, <4>1 DEF OnceInv, ToldIsPast
      <4> QED BY <1>5, <4>1, <4>2
    <3> QED BY <3>1, <3>2
  <2> QED BY <1>6, <2>6, <2>7, <2>8, <2>9 DEF OnceInv, ToldOnce
<1> QED BY <1>8, <1>9

\* The lists that come from no moment of Zabbix hold nothing.
LEMMA EmptyLists ==
  /\ NoList.rev = -2 /\ Listed(NoList.of) = {}
  /\ EmptyList.rev = -1 /\ Listed(EmptyList.of) = {}
BY DEF NoList, EmptyList, Listed

\* Every step either keeps what lists there are, or is one of the two above.
LEMMA OnceNext ==
  ASSUME PollTypeOK, PollTypeOK', OnceInv, [PollNext]_pollVars
  PROVE  OnceInv'
<1>1. ASSUME NEW p \in Problem, NEW from, NEW to, ProblemBecomes(p, from, to),
             from \in {{"none"}, {"open"}, {"acked"}, {"open", "acked"}}, to # "none",
             cache' \in {cache, NoList}
      PROVE  OnceInv'
  <2>1. \A o \in Problem : /\ problems[o] # "none" => problems'[o] # "none"
                           /\ problems[o] = "gone" => problems'[o] = "gone"
    BY <1>1 DEF ProblemBecomes, PollTypeOK
  <2> QED BY <1>1, <2>1, OnceChanged DEF ProblemBecomes, shellVars
<1>2. ASSUME NEW p \in Problem,
             Raise(p) \/ Resolve(p) \/ acknowledge_problem(p) \/ unacknowledge_problem(p)
      PROVE  OnceInv'
  BY <1>1, <1>2 DEF Raise, Resolve, acknowledge_problem, unacknowledge_problem
<1>3. ASSUME UNCHANGED <<problems, rev, seen, told, newest, disorder>>,
             cache' \in {cache, NoList} \cup {AtZabbix, EmptyList} \cup {q.list : q \in calls},
             \A q \in calls' : q.list \in {cache, NoList, AtZabbix, EmptyList} \/ q \in calls
                               \/ \E r \in calls : q.list = r.list
      PROVE  OnceInv'
  <2>1. AtZabbix' = AtZabbix /\ Page' = Page
    BY <1>3 DEF AtZabbix, Page
  <2>2. \A l \in Lists' : l \in Lists \/ l \in {NoList, EmptyList}
    BY <1>3, <2>1 DEF Lists
  <2>3. \A l \in Lists' : l \in Lists \/ (l.rev \in {-1, -2} /\ Listed(l.of) = {})
    BY <2>2, EmptyLists
  <2> QED BY <1>3, <2>3, OnceKept
<1>4. ASSUME NEW p \in Problem, Snooze(p) \/ SnoozeEnds(p) PROVE OnceInv'
  BY <1>3, <1>4 DEF Snooze, SnoozeEnds, ShowToasts, zabbixVars, shellVars
<1>5. ASSUME NEW x, Dismiss(x) PROVE OnceInv'
  BY <1>3, <1>5 DEF Dismiss, ShowToasts, zabbixVars
<1>6. CASE Ring \/ RuleToast \/ AutoDismiss \/ DismissAll
  BY <1>3, <1>6 DEF Ring, RuleToast, AutoDismiss, DismissAll, ShowToasts, zabbixVars
<1>7. CASE Poll \/ CacheExpires \/ Recovers
  BY <1>3, <1>7 DEF Poll, CacheExpires, Recovers, zabbixVars, shellVars
<1>8. CASE OpenDrawer
  BY <1>3, <1>8 DEF OpenDrawer, ShowInDrawer, SeenStill, zabbixVars
<1>9. ASSUME NEW q \in calls, CallFails(q) PROVE OnceInv'
  BY <1>3, <1>9 DEF CallFails, zabbixVars, shellVars
<1>10. ASSUME NEW q \in calls, CacheHit(q) PROVE OnceInv'
  <2>1. [q EXCEPT !.at = "answered", !.list = cache].list = cache
    BY DEF PollTypeOK, Call
  <2> QED BY <1>3, <1>10, <2>1 DEF CacheHit, Becomes, zabbixVars, shellVars
<1>11. ASSUME NEW q \in calls, _fetch_problems(q) \/ _fetch_problemsFails(q) PROVE OnceInv'
  <2>1. \A list : [q EXCEPT !.at = "fetched", !.list = list].list = list
    BY DEF PollTypeOK, Call
  <2> QED
    BY <1>3, <1>11, <2>1 DEF _fetch_problems, _fetch_problemsFails, Fetched, Becomes, zabbixVars, shellVars
<1>12. ASSUME NEW q \in calls, CacheStore(q) PROVE OnceInv'
  <2>1. [q EXCEPT !.at = "answered"].list = q.list
    BY DEF PollTypeOK, Call
  <2> QED BY <1>3, <1>12, <2>1 DEF CacheStore, Becomes, zabbixVars, shellVars
<1>13. ASSUME NEW q \in calls, PollAnswered(q) PROVE OnceInv'
  BY <1>13, OnceAnswered
<1>14. CASE UNCHANGED pollVars
  BY <1>3, <1>14 DEF pollVars, zabbixVars, shellVars
<1> QED
  BY <1>2, <1>4, <1>5, <1>6, <1>7, <1>8, <1>9, <1>10, <1>11, <1>12, <1>13, <1>14 DEF PollNext

\* A problem is announced once to a browser whose lists were answered in order,
\* though several polls run at a time and the cache is filled by any of them.
THEOREM ProblemsToldOnce == PollSpec => []ToldOnce
<1>1. PollInit => OnceInv
  <2> SUFFICES ASSUME PollInit PROVE OnceInv
    OBVIOUS
  <2>1. \A l \in Lists : l \in {NoList, AtZabbix} \/ l = Page
    BY DEF PollInit, Lists
  <2>2. Page.rev = -2 /\ Listed(Page.of) = {}
    BY DEF PollInit, Page, Listed
  <2>3. AtZabbix.rev = 0 /\ rev = 0
    BY DEF PollInit, AtZabbix
  <2>4. \A p \in Listed(AtZabbix.of) : problems[p] # "none"
    BY DEF AtZabbix, Listed
  <2>5. \A l \in Lists : Known(l)
    BY <2>1, <2>2, <2>3, <2>4, EmptyLists DEF Known
  <2>6. \A l \in Lists : (l.rev = -2 /\ Listed(l.of) = {}) \/ l = AtZabbix
    BY <2>1, <2>2, EmptyLists
  <2>7. OnceOut(Lists)
    BY <2>3, <2>6 DEF OnceOut
  <2> QED BY <2>5, <2>7 DEF PollInit, OnceInv, ToldIsPast, ToldOnce
<1>2. PollTypeOK /\ PollTypeOK' /\ OnceInv /\ [PollNext]_pollVars => OnceInv'
  BY OnceNext
<1>3. OnceInv => ToldOnce
  BY DEF OnceInv
<1> QED BY <1>1, <1>2, <1>3, PollTypes, PTL DEF PollSpec
=============================================================================
