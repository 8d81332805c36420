CONSTANTS
  sepolia = sepolia
  a1 = a1
  a2 = a2
  other = other
  Eids <- MCEids
  Connections <- MCConnections
  SepoliaV2 = SepoliaV2
  Addresses <- MCAddresses
  ZeroAddress = ZeroAddress
  None = None
  People <- MCPeople
  operator = operator
  ConfigChoices <- MCConfigChoices
  ExtraOptions <- MCExtraOptions
  ComposeGas = {3}
  RateLimits = {limit}
  MaxChanges = 1
SPECIFICATION RunsSpec
INVARIANT
  OutboundLimitIsOfNamedPeer
