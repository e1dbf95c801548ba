\* Two overlapping syncs.
SPECIFICATION FairSpec
CONSTANTS
  Uid <- MCUid
  Name = {"ops", "portal"}
  DefaultGroup = "portal"
  RoleGroup = {}
  SkipGroup = {}
  Sync = {"s1", "s2"}
  Client = {"c1"}
INVARIANTS TypeOK
PROPERTIES NewRowsSpared Converges
