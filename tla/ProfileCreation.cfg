SPECIFICATION FairSpec
CONSTANTS
  ada = ada
  bob = bob
  r1 = r1
  r2 = r2
  None = None
  Pending = Pending
  Failed = Failed
  Names = {ada}
  Requests = {r1, r2}
  MaxTasks = 1
  Faults = TRUE
  Unreliable = {"Agify"}
INVARIANTS
  TypeOK
  ClashesAreRaces
PROPERTIES
  ImplementsRegistry
  RequestsEnd
