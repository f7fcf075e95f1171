SPECIFICATION GuideSpec
CONSTANTS
  d0 = d0
  None = None
  Deposits = {d0}
  DepositIndex <- OneDeposit
  Payrolls = {t1, t2, t3}
  MaxIndex = 3
  ScanGap = 1
  LastIndex = 0
  IndexEdits = {}
  AutoLoads = TRUE
SYMMETRY TxidSymmetry
INVARIANTS ChangeAddressesFresh PendingCanBeCommitted PendingChangeIsPayrolls
PROPERTIES ChangeIndexNeverRegresses
