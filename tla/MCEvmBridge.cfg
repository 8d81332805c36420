CONSTANTS
  sepolia = sepolia
  solana = solana
  base = base
  Old = Old
  Send301 = Send301
  Receive301 = Receive301
  x = x
  y = y
  Missing = Missing
  None = None
  Graph <- MCGraph
  Config <- MCConfig
  Libraries <- MCLibraries
  Found <- MCLibraries
  SendUln301 <- Send301
  ReceiveUln301 <- Receive301
  Values = {x, y}
  KnownChains <- MCKnown
  ScriptConfig <- MCScriptConfig
  InitialDefaults <- MCInitialDefaults
  MaxFailures = 1
  MaxNewDefaults = 1
SPECIFICATION EvmSpec
INVARIANTS
  EvmTypeOK
  EveryMessageIsSecured
  ReportShowsWired
  ReportOfTrustedHolds
  ReportShowsDefaults
SYMMETRY MCRemotes
CHECK_DEADLOCK FALSE
CONSTRAINT MCBounds
