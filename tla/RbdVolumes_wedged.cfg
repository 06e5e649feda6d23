CONSTANTS
  Names = {n1}
  UUIDs = {u1, u2, u3}
  Sources = {}
  NoName = NoName
  NoUUID = NoUUID
  NoObject = NoObject
  Requests = {p1, p2, p3}
  MaxImages = 3
  Scenarios <- RestartScenarios
SPECIFICATION Spec
SYMMETRY Symmetry
INVARIANTS NeverInconsistent
