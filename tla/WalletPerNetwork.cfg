SPECIFICATION Spec
CONSTANTS
  sam = sam
  tia = tia
  ulf = ulf
  vic = vic
  None = None
  Signers = {sam, tia, ulf, vic}
  Kind <- MCKind
  Networks = {"testnet", "signet", "regtest"}
  DataDirs = {"."}
  Texts <- MCTexts
  Indices <- MCIndices
PROPERTY StoredPerNetwork
