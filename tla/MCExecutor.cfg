CONSTANTS
  U64Max = 31
  OneInBasisPoints = 4
  Ld2sdRate = 2
  None = None
  OftTypes = {"Adapter"}
  Keys = {k1}
  Eids = {e1}
  Addresses = {a1, a2}
  ZeroAddress = ZeroAddress
  InitialBalance = 14
  SendAmounts = {5}
  VerifiedAmounts <- MCNone
  ComposeChoices = {TRUE, FALSE}
  FeeChoices <- MCNoFees
  Withdrawals <- MCNone
  LimitParams <- MCNone
  TransferFees <- MCTransferFees
  MintAuthorities <- MCNone
  MaxOutbound = 2
  MaxInbound = 2
  MaxTime = 0
  RemoteAmounts = {1, 2}
SPECIFICATION FairExecutorSpec
PROPERTIES
  OpenBridgeDelivers
