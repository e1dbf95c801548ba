\* Restrictions lifted by a sync.
SPECIFICATION MCSpec
CONSTANTS
  Uid <- MCUid
  Name = {"ann", "Admin"}
  RootName = "Admin"
  TeamGroup = {"dflt"}
  DefaultGroup = "dflt"
  NoTeam = "none"
  Sync = {s1}
  Client = {c1}
  RoleChoice <- NoChoice
  Restriction <- Either
  ZabbixUser <- MixedUsers
PROPERTIES RestrictionsKept
