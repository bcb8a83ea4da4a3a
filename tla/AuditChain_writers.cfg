SPECIFICATION Spec
CONSTANTS
  w1 = w1
  w2 = w2
  w3 = w3
  r1 = r1
  r2 = r2
  Nobody = Nobody
  NoRow = NoRow
  Writers = {w1, w2, w3}
  Rows = {r1, r2}
  MaxStamps = 3
SYMMETRY Interchangeable
CHECK_DEADLOCK FALSE
INVARIANT FollowersTakeTurns
INVARIANT DeadlocksNeedDestroy
