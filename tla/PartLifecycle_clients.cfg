SPECIFICATION Spec
CONSTANTS
  u1 = u1
  u2 = u2
  u3 = u3
  t1 = t1
  t2 = t2
  q1 = q1
  NoUser = NoUser
  Users = {u1, u2, u3}
  Tabs = {t1, t2}
  Requests = {}
  Importers = {q1}
  Grants <- AllGrants
  MaxRevs = 1
  MaxVersion = 9
  MaxPartVersion = 2
  MaxEdits = 2
SYMMETRY Interchangeable
INVARIANT SeparationOfDuties
 
INVARIANT PublishedWhenReleased
 
 
PROPERTY IsFourEyes
