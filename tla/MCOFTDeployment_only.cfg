CONSTANTS
  deployer = deployer
  minter = minter
  People <- MCPeople
  ExistingAuthority <- MCIssuer
  None = None
  MaxRuns = 1
  MaxHandovers = 1
SPECIFICATION Spec
INVARIANT
  OnlyOftStoreMints
CHECK_DEADLOCK FALSE
