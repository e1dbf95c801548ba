\* Two different rules, of an item or a service, and values that go stale.
SPECIFICATION MCSpec
CONSTANTS
  Rule = {1, 2}
  Item = {"cpu"}
  Pattern = {"ok"}
  RuleForm <- ServiceForms
  Sample <- Answers
  Horizon = 2
INVARIANTS TypeOK OneFiringPerItem FiringHasEvent
PROPERTIES BreachFires BreachEnds ImplementsLedger
