CONSTANTS
  deployer = deployer
  minter = minter
  People <- MCPeople
  ExistingAuthority <- MCIssuer
  None = None
  MaxRuns = 2
  MaxHandovers = 2
SPECIFICATION Spec
INVARIANTS
  TypeOK
  SavedDeploymentCanMint
  OnlyNamedAuthorities
PROPERTY
  BridgeKeepsMinting
CHECK_DEADLOCK FALSE
