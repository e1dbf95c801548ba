\* Two overlapping syncs.
SPECIFICATION FairSpec
CONSTANTS
  Host = {h1}
  Team = {t1}
  Other = other
  Sync = {s1, s2}
  Client = {c1}
INVARIANTS TypeOK
PROPERTIES ShownStays Converges
