SPECIFICATION FairSpec
CONSTANTS
  s1 = s1
  s2 = s2
  e1 = e1
  e2 = e2
  w1 = w1
  w2 = w2
  Sessions = {s1, s2}
  Infected <- OneInfected
  Editors = {e1}
  Workers = {w1, w2}
  MaxEdits = 2
  MaxLost = 1
INVARIANT TypeOK
INVARIANT OnlyMisjudgedSlipThrough
PROPERTY ScansEnd
CHECK_DEADLOCK FALSE
