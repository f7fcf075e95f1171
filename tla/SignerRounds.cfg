SPECIFICATION Spec
CONSTANTS
  bob = bob
  carol = carol
  ann = ann
  ben = ben
  change1 = change1
  change2 = change2
  u1 = u1
  u2 = u2
  Signers = {bob, carol}
  ScanKeys = {ann, ben}
  ChangeScripts = {change1, change2}
  Inputs = {u1, u2}
  Payrolls <- SomePayrolls
  Copies = {wire, signed}
  FinalName = signed
  MaxBuilds = 2
  test = test
  own = own
  Seeds = {test, own}
  TestSeed = test
  MaxRounds = 3
  MaxDamage = 1
  None = None
SYMMETRY TwoSigners
INVARIANTS TypeOK FinalPaysBuilt RecipientsDetect
PROPERTIES KeepsSigning
