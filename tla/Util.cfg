CONSTANTS
  Callers = {a1, a2, a3}
  IDs = {v1, v2}
  Users = {a1, a2, a3}
  ConnKeys = {v1, v2}
  MaxConns = 3
  MaxRaces = 1
  Writers = {b1, b2}
  RefKeys = {a1, a2, a3}
  RefCountMod = 3
  MaxVersion = 3
  RPCs = {b1, b2}
  MaxCheckers = 2
  Rotators = {b1, b2}
  MaxKeys = 4
SPECIFICATION UtilSpec
SYMMETRY Symmetry
INVARIANTS UtilTypeOK
  NoConflict LocksAreHolders
  ConnsAccounted
  CountExact
  CheckersAccounted
  RotationSafe
PROPERTIES Atomic
