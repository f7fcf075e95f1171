SPECIFICATION Spec
CONSTANTS
  sam = sam
  tia = tia
  ulf = ulf
  vic = vic
  None = None
  Signers = {sam, tia, ulf, vic}
  Kind <- MCKind
  Networks = {"signet", "mainnet"}
  DataDirs = {"."}
  Texts <- MCTexts
  Indices <- MCIndices
INVARIANTS TypeOK WalletsAtHome FinalizerFindsScript SignersFindTheirKeys
PROPERTIES SavedScreenReturns SaveKeepsTheWallet
