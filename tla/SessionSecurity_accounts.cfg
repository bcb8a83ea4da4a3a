SPECIFICATION SecuritySpec
CONSTANTS
  admin = admin
  user = user
  p1 = p1
  p2 = p2
  r1 = r1
  r2 = r2
  s1 = s1
  s2 = s2
  NoUser = NoUser
  Users = {admin, user}
  Superusers = {admin}
  Guessed = {user}
  Changed = {user}
  Grantable = {"sysadmin"}
  Logins = {p1, p2}
  Requests = {r1, r2}
  Sessions = {s1, s2}
  MaxFailures = 2
  MaxVersion = 3
  MaxFailed = 2
SYMMETRY Interchangeable
CHECK_DEADLOCK FALSE
INVARIANT SecurityTypeOK
INVARIANT EndedLoginsStayOut
INVARIANT PageShowsAccount
INVARIANT FailuresCount

