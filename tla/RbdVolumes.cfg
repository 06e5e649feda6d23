CONSTANTS
  Names = {n1, n2}
  UUIDs = {u1, u2, u3}
  Sources = {}
  NoName = NoName
  NoUUID = NoUUID
  NoObject = NoObject
  Requests = {p1, p2, p3}
  MaxImages = 3
  Scenarios <- AllScenarios
SPECIFICATION Spec
SYMMETRY Symmetry
INVARIANTS TypeOK GrantBacked NothingLeaked
PROPERTIES StableGrant NameKeyUnderLock
