\* A text rule fires.
SPECIFICATION FairSpec
CONSTANTS
  Rule = {1}
  Item = {"cpu"}
  Pattern = {"ok"}
  RuleForm <- TextForms
  Sample <- Matching
  Horizon = 2
PROPERTIES BreachFires
