SPECIFICATION Spec
CONSTANTS
  ada = ada
  bob = bob
  i1 = i1
  i2 = i2
  s1 = s1
  s2 = s2
  qAll = qAll
  qAda = qAda
  qBob = qBob
  lower = lower
  upper = upper
  None = None
  Names = {ada}
  Seeded = {ada}
  Ids = {i1, i2}
  Spellings = {lower, upper}
  Queries = {qAda, qBob}
  Matching <- AdaOrNobody
  Slots = {s1, s2}
  ListTTL = 1
  IdTTL = 1
  Faults = TRUE
  MaxBoots = 2
SYMMETRY Symmetry
INVARIANTS
  TypeOK
  StaleIdHasCause
  StaleListHasCause
