SPECIFICATION Spec
CONSTANTS
  MaxSat = 7
  MaxToml = 3
  BaseBytes = 1
  RowBytes = 1
  Entries <- SomeEntries
  MaxRows = 3
  Rates = {1, 2}
  Fees = {0, 1}
  Prevouts = {2, 5, 7}
  Dusts = {0, 2}
  None = None
INVARIANTS TypeOK PsbtBalances ShownTotalIsPaid FeeAsAsked NoDustOutput SavedFileLoads AutoFeeIsSuggestion
