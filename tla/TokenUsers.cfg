SPECIFICATION Spec
CONSTANTS
  root = root
  octocat = octocat
  u1 = u1
  u2 = u2
  u3 = u3
  t1 = t1
  t2 = t2
  t3 = t3
  r1 = r1
  r2 = r2
  None = None
  Accounts = {root, octocat}
  SeededAdmins = {root}
  SeededAnalysts = {}
  UserIds = {u1, u2, u3}
  Tokens = {t1, t2}
  Requests = {r1}
  Settings <- SomeSettings
  AccessTTL = 1
  RefreshTTL = 1
  MaxNow = 1
  MaxBoots = 2
SYMMETRY Symmetry
INVARIANTS
  ActsOnCurrentUser
  SessionsReferenceUsers
PROPERTY
  LoginKeepsPrivileges
