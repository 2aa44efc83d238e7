SPECIFICATION Spec
CONSTANTS
  None = None
  Countries = {"AU", "AT"}
  Beginning <- CountryNames
  Tables <- SeededOrImported
  Requests <- AllRequests
  DefaultLimit = 2
  MaxLimit = 3
  MaxTasks = 1
  MaxEntries = 1
INVARIANTS
  TypeOK
  AnswersNearTheQuestion
  LinksContinue
  WalkMatchesExport
