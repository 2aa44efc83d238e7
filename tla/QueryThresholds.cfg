SPECIFICATION Spec
CONSTANTS
  None = None
  Countries = {"AU", "AT"}
  Beginning <- CountryNames
  Tables <- SeededOrImported
  Requests <- GenderThresholds
  DefaultLimit = 2
  MaxLimit = 3
  MaxTasks = 1
  MaxEntries = 2
INVARIANT ThresholdsHold
