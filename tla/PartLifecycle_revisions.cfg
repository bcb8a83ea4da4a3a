SPECIFICATION Spec
CONSTANTS
  u1 = u1
  u2 = u2
  u3 = u3
  t1 = t1
  q1 = q1
  q2 = q2
  NoUser = NoUser
  Users = {u1, u2, u3}
  Tabs = {t1}
  Requests = {q1}
  Importers = {}
  Grants <- OneGrant
  MaxRevs = 2
  MaxVersion = 6
  MaxPartVersion = 6
  MaxEdits = 0
INVARIANT StatusFollowsRevisions
