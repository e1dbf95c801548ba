\* Two syncs that overlap, or one against a request thread; Zabbix has capitalised logins of its own,
\* and lowercase ones from the portal's pushes.
SPECIFICATION MCSpec
CONSTANTS
  Uid <- MCUid
  Name = {"ann"}
  RootName = "ann"
  TeamGroup = {"dflt"}
  DefaultGroup = "dflt"
  NoTeam = "none"
  Sync = {s1, s2}
  Client = {c1}
  RoleChoice <- NoChoice
  Restriction <- Free
  ZabbixUser <- MixedUsers
INVARIANTS TypeOK DuplicatesComeFromZabbix
PROPERTIES SyncSparesManaged Converges
