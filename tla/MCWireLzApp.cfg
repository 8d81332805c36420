CONSTANTS
  sepolia = sepolia
  mainnet = mainnet
  solana = solana
  base = base
  Old = Old
  Send301 = Send301
  Receive301 = Receive301
  x = x
  y = y
  Missing = Missing
  Graph <- MCTwoRemotes
  Config <- MCWantedByAll
  Libraries <- MCLibraries
  Found <- MCLibraries
  SendUln301 <- Send301
  ReceiveUln301 <- Receive301
  Values = {x, y}
  MaxFailures = 1
  MaxNewDefaults = 1
SPECIFICATION FairRunsSpec
INVARIANTS
  TypeOK
  NoActionMeansWired
  CompleteRunWires
PROPERTIES
  SentIsNotUndone
  RerunsConverge
CHECK_DEADLOCK FALSE
