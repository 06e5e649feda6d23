CONSTANTS
  Callers = {c1, c2, c3, c4}
  RPCs = {r1, r2}
  MaxCheckers = 1
  Names = {n1}
  UUIDs = {u1, u2, u3}
  Sources = {s1}
  NoName = NoName
  NoUUID = NoUUID
  NoObject = NoObject
  Requests = {p1, p2}
  MaxImages = 3
SPECIFICATION LiveSpec
INVARIANTS TypeOK GroupExclusion NoLostWakeup
PROPERTIES EventuallyAdmitted StopReturns CreateSucceeds
