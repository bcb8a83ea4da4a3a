SPECIFICATION Spec
CONSTANTS
  ann = ann
  bob = bob
  cat = cat
  B1 = B1
  B2 = B2
  x1 = x1
  x2 = x2
  y = y
  p1 = p1
  p2 = p2
  q1 = q1
  q2 = q2
  Nobody = Nobody
  Users = {ann, bob, cat}
  Role <- MCRole
  Boms = {B1, B2}
  Revisions = {x1, x2, y}
  BomOf <- MCBomOf
  Library <- MCLibrary
  Parts = {p1, p2}
  Requests = {q1, q2}
  MaxRows = 2
  Offered <- MCOffered
INVARIANT NoBomInItself
INVARIANT DutiesSeparated
PROPERTY GatesSeeReleased
PROPERTY FrozenOutsideDraft
SYMMETRY MCSymmetry
PROPERTY IsFourEyes
