CONSTANTS
  Users = {u1, u2}
  ConnKeys = {k1}
  MaxConns = 2
  MaxRaces = 1
SPECIFICATION PoolSpec
INVARIANTS HeldIsOpen
