SPECIFICATION ExportSpec
CONSTANTS
  j1 = j1
  csv = csv
  json = json
  x = x
  y = y
  w1 = w1
  w2 = w2
  c1 = c1
  c2 = c2
  Nothing = Nothing
  Jobs = {j1}
  Formats = {csv, json}
  Contents = {x, y}
  Workers = {w1, w2}
  Clients = {c1, c2}
  MaxRedelivered = 2
SYMMETRY Interchangeable
CHECK_DEADLOCK FALSE
INVARIANT OfferedIsStored
PROPERTY CompletedStands
