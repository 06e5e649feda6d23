CONSTANTS
  n1 = n1
  n2 = n2
  s1 = s1
  s2 = s2
  Names = {n1, n2}
  UUIDs = {u1, u2, u3}
  Sources = {s1, s2}
  NoName = NoName
  NoUUID = NoUUID
  NoObject = NoObject
  Requests = {p1, p2}
  MaxImages = 3
  Parts = {"snapshots", "node"}
  Targets = {t1, t2}
  Volume = Volume
  NoTarget = NoTarget
  NodeScenarios <- AllNodeScenarios
  Scenarios <- AllScenarios
SPECIFICATION RbdSpec
SYMMETRY Symmetry
INVARIANTS RbdTypeOK SnapshotUsable NothingForgotten DataKept NodeServes
PROPERTIES GrantOfSource
