SPECIFICATION Spec
CONSTANTS
  r1 = r1
  r2 = r2
  ann = ann
  ben = ben
  d1 = d1
  d2 = d2
  None = None
  Runs = {r1, r2}
  Networks = {"regtest", "signet"}
  Deposits = {d1, d2}
  Amount <- MCAmount
  Subsidy = 7
  Payrolls <- MCPayrolls
  Keys = {ann, ben}
  Fee = 1
  Dust = 2
  Maturity = 2
  Timeout = 1
INVARIANT VoutZeroIsEnough
CHECK_DEADLOCK FALSE
