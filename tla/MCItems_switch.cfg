SPECIFICATION MCSpec
CONSTANTS
  Host = {h1, h2}
  Directory = {d1, d2}
  Fetch = {1, 2}
  Team = {t1, t2}
  Thing = {x, y}
  Folder = {g}
  RuleHost = {r1, r2}
  Metric = {1}
  MaxBatch = 2
  MaxListing = 1
  Group = {1, 2, 3}
  MaxLoads = 1
  MaxTrouble = 1
CHECK_DEADLOCK FALSE
PROPERTY SwitchTakesEffect
