SPECIFICATION Spec
CONSTANTS
  root = root
  octocat = octocat
  u1 = u1
  u2 = u2
  u3 = u3
  t1 = t1
  t2 = t2
  t3 = t3
  r1 = r1
  r2 = r2
  None = None
  Accounts = {octocat}
  SeededAdmins = {}
  SeededAnalysts = {}
  UserIds = {u1}
  Tokens = {t1, t2, t3}
  Requests = {r1, r2}
  Settings <- NoSettings
  AccessTTL = 0
  RefreshTTL = 1
  MaxNow = 2
  MaxBoots = 1
SYMMETRY Symmetry
INVARIANTS
  TypeOK
  OnlyLeavesLive
  ReplayNeverSucceeds
  OneSuccessorPerHandler
PROPERTIES
  ImplementsTokenFamilies
