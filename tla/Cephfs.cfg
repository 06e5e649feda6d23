CONSTANTS
  s1 = s1
  n1 = n1
  n2 = n2
  SnapNames = {s1}
  VolNames = {n1, n2}
  UUIDs = {u1, u2, u3}
  NoUUID = NoUUID
  NoName = NoName
  NoEntry = NoEntry
  Requests = {p1, p2}
  Parts = {"snapshots", "volumes", "node"}
  Scenarios <- SnapScenarios
  VolScenarios <- AllVolScenarios
  NodeScenarios <- AllNodeScenarios
  Targets = {t1, t2}
  Volume = Volume
  NoTarget = NoTarget
SPECIFICATION CephfsSpec
SYMMETRY Symmetry
INVARIANTS CephfsTypeOK GrantKept VolumeUsable NothingForgotten NodeServes
