SPECIFICATION Spec
CONSTANTS
  d0 = d0
  d1 = d1
  None = None
  Deposits = {d0}
  DepositIndex <- OneDeposit
  Payrolls = {t1, t2}
  MaxIndex = 2
  ScanGap = 1
  LastIndex = 0
  IndexEdits = {}
  AutoLoads = TRUE
SYMMETRY TxidSymmetry
INVARIANTS KnownMeansRetired
