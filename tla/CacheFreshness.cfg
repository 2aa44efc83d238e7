SPECIFICATION FairSpec
CONSTANTS
  ada = ada
  bob = bob
  i1 = i1
  i2 = i2
  s1 = s1
  s2 = s2
  qAll = qAll
  qAda = qAda
  qBob = qBob
  lower = lower
  upper = upper
  None = None
  Names = {ada, bob}
  Seeded = {ada}
  Ids = {i1, i2}
  Spellings = {lower}
  Queries = {qAll}
  Matching <- AllNames
  Slots = {s1, s2}
  ListTTL = 1
  IdTTL = 1
  Faults = TRUE
  MaxBoots = 2
PROPERTY
  EventuallyFresh
