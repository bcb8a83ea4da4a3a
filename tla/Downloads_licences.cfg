SPECIFICATION Spec
CONSTANTS
  u1 = u1
  l1 = l1
  n1 = n1
  q1 = q1
  q2 = q2
  a = a
  b = b
  Users = {u1}
  Licences = {l1}
  Nonces = {n1}
  Requests = {q1, q2}
  Placements = {a, b}
  Sizes = {0, 2}
  LicenceLife = 1
  NonceLife = 3
  RequestLife = 1
  MaxTime = 4
  MaxChanges = 1
  MaxEvictions = 1
SYMMETRY Interchangeable
INVARIANT TypeOK
INVARIANT ServedOnce
INVARIANT SentAsLicensed
INVARIANT LicencesCanBeUsed
