SPECIFICATION Spec
CONSTANTS
  testnet = testnet
  signet = signet
  here = here
  there = there
  a = a
  b = b
  None = None
  Networks = {testnet, signet}
  Nodes = {here, there}
  Outpoints = {a, b}
INVARIANTS TypeOK FlagCoversScan
PROPERTIES ScanEnds KeepsService
