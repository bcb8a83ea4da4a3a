SPECIFICATION FairSpec
CONSTANTS
  c1 = c1
  c2 = c2
  w1 = w1
  w2 = w2
  j1 = j1
  j2 = j2
  Clients = {c1, c2}
  Workers = {w1, w2}
  Jobs = {j1, j2}
  MaxRequests = 3
  MaxFaults = 1
INVARIANT TypeOK
INVARIANT UploadedIsVerified
PROPERTY OnlyOverlapsUndo
PROPERTY JobsEnd
CHECK_DEADLOCK FALSE
